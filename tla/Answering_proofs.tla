-------------------------- MODULE Answering_proofs --------------------------
(* Proofs about module Answering: for any questions, sessions, tables and  *)
(* decisions, whatever the interleaving, the cache entries and turns of    *)
(* questions that were left undisturbed are what they are taken for.       *)
EXTENDS Answering, SequenceTheorems, FiniteSetTheorems, TLAPS

-----------------------------------------------------------------------------
(* Sequences. *)

(* The last n of a sequence: as many as there are, and the same last one.  *)
LEMMA LastOnesProperties ==
  ASSUME NEW T, NEW turns \in Seq(T), NEW n \in Nat
  PROVE  /\ LastOnes(turns, n) \in Seq(T)
         /\ Len(LastOnes(turns, n)) <= n
         /\ Len(LastOnes(turns, n)) = IF Len(turns) > n THEN n ELSE Len(turns)
         /\ \A i \in 1..Len(LastOnes(turns, n)) :
              LastOnes(turns, n)[i] = turns[i + (Len(turns) - Len(LastOnes(turns, n)))]
<1> DEFINE first == IF Len(turns) > n THEN Len(turns) - n + 1 ELSE 1
<1>1. Len(turns) \in Nat /\ \A i \in 1..Len(turns) : turns[i] \in T
  BY LenProperties, ElementOfSeq
<1>2. first \in Int /\ first >= 1 BY <1>1
<1>3. \A i \in first..Len(turns) : turns[i] \in T BY <1>1, <1>2
<1>4. LastOnes(turns, n) = SubSeq(turns, first, Len(turns)) BY DEF LastOnes
<1> HIDE DEF first
<1>5. /\ SubSeq(turns, first, Len(turns)) \in Seq(T)
      /\ Len(SubSeq(turns, first, Len(turns))) =
           IF first <= Len(turns) THEN Len(turns) - first + 1 ELSE 0
      /\ \A i \in 1..(Len(turns) - first + 1) : SubSeq(turns, first, Len(turns))[i] = turns[first + i - 1]
  BY <1>1, <1>2, <1>3, SubSeqProperties
<1> USE DEF first
<1>6. Len(LastOnes(turns, n)) = IF Len(turns) > n THEN n ELSE Len(turns)
  <2>1. Len(LastOnes(turns, n)) = IF first <= Len(turns) THEN Len(turns) - first + 1 ELSE 0
    BY <1>4, <1>5
  <2>2. CASE Len(turns) > n
    <3>1. first = Len(turns) - n + 1 BY <2>2
    <3> HIDE DEF first
    <3>2. QED BY <1>1, <2>1, <2>2, <3>1
  <2>3. CASE ~(Len(turns) > n)
    <3>1. first = 1 BY <2>3
    <3> HIDE DEF first
    <3>2. QED BY <1>1, <2>1, <2>3, <3>1
  <2>4. QED BY <2>2, <2>3
<1>7. ASSUME NEW i \in 1..Len(LastOnes(turns, n))
      PROVE  LastOnes(turns, n)[i] = turns[i + (Len(turns) - Len(LastOnes(turns, n)))]
  <2>1. i \in 1..(Len(turns) - first + 1) BY <1>1, <1>6, <1>7
  <2>2. first + i - 1 = i + (Len(turns) - Len(LastOnes(turns, n))) BY <1>1, <1>6, <1>7
  <2>3. SubSeq(turns, first, Len(turns))[i] = turns[first + i - 1] BY <1>5, <2>1
  <2>4. QED BY <1>4, <2>2, <2>3
<1>8. Len(LastOnes(turns, n)) <= n BY <1>1, <1>6
<1>9. QED BY <1>4, <1>5, <1>6, <1>7, <1>8

(* A sequence without one of its places has no new members. *)
LEMMA RemoveAtProperties ==
  ASSUME NEW T, NEW s \in Seq(T), NEW i \in DOMAIN s
  PROVE  /\ RemoveAt(s, i) \in Seq(T)
         /\ \A k \in DOMAIN RemoveAt(s, i) : \E j \in DOMAIN s : RemoveAt(s, i)[k] = s[j]
<1> DEFINE before == SubSeq(s, 1, i - 1)
           after == SubSeq(s, i + 1, Len(s))
<1>1. Len(s) \in Nat /\ DOMAIN s = 1..Len(s) /\ \A j \in 1..Len(s) : s[j] \in T
  BY LenProperties, ElementOfSeq
<1>2. i \in 1..Len(s) BY <1>1
<1>3. \A j \in 1..(i - 1) : s[j] \in T BY <1>1, <1>2
<1>4. \A j \in (i + 1)..Len(s) : s[j] \in T BY <1>1, <1>2
<1>5. /\ before \in Seq(T)
      /\ Len(before) = IF 1 <= i - 1 THEN i - 1 - 1 + 1 ELSE 0
      /\ \A k \in 1..(i - 1 - 1 + 1) : before[k] = s[1 + k - 1]
  BY <1>1, <1>2, <1>3, SubSeqProperties
<1>6. /\ after \in Seq(T)
      /\ Len(after) = IF i + 1 <= Len(s) THEN Len(s) - (i + 1) + 1 ELSE 0
      /\ \A k \in 1..(Len(s) - (i + 1) + 1) : after[k] = s[(i + 1) + k - 1]
  BY <1>1, <1>2, <1>4, SubSeqProperties
<1>7. RemoveAt(s, i) = before \o after BY DEF RemoveAt
<1> HIDE DEF before, after
<1>8. /\ before \o after \in Seq(T)
      /\ Len(before \o after) = Len(before) + Len(after)
      /\ \A k \in 1..(Len(before) + Len(after)) : (before \o after)[k] =
           IF k <= Len(before) THEN before[k] ELSE after[k - Len(before)]
  BY <1>5, <1>6, ConcatProperties
<1>9. ASSUME NEW k \in DOMAIN (before \o after)
      PROVE  \E j \in DOMAIN s : (before \o after)[k] = s[j]
  <2>1. k \in 1..(Len(before) + Len(after)) BY <1>8, <1>9, LenProperties
  <2>2. Len(before) \in Nat /\ Len(after) \in Nat BY <1>5, <1>6, LenProperties
  <2>3. CASE k <= Len(before)
    <3>1. k \in 1..(i - 1 - 1 + 1) /\ k \in 1..Len(s) /\ 1 + k - 1 = k BY <1>1, <1>2, <1>5, <2>1, <2>2, <2>3
    <3>2. before[k] = s[k] BY <1>5, <3>1
    <3>3. QED BY <1>1, <1>8, <2>1, <2>3, <3>1, <3>2
  <2>4. CASE ~(k <= Len(before))
    <3> DEFINE m == k - Len(before)
    <3>1. m \in 1..(Len(s) - (i + 1) + 1) BY <1>1, <1>2, <1>6, <2>1, <2>2, <2>4
    <3>2. (i + 1) + m - 1 \in 1..Len(s) BY <1>1, <1>2, <3>1
    <3>3. after[m] = s[(i + 1) + m - 1] BY <1>6, <3>1
    <3>4. (before \o after)[k] = after[m] BY <1>8, <2>1, <2>4
    <3>5. QED BY <1>1, <3>2, <3>3, <3>4
  <2>5. QED BY <2>3, <2>4
<1>10. QED BY <1>7, <1>8, <1>9

-----------------------------------------------------------------------------
(* The shared cache. *)

(* _SHARED_CACHE.get(key) of a key that is there. *)
LEMMA EntryFound ==
  ASSUME NEW c \in Seq(Entries), NEW key \in Keys(c)
  PROVE  /\ Place(c, key) \in DOMAIN c
         /\ Entry(c, key) \in ToSet(c)
         /\ Entry(c, key) \in Entries
         /\ Entry(c, key).key = key
<1>1. \E i \in DOMAIN c : c[i].key = key BY DEF Keys, ToSet
<1>2. Place(c, key) \in DOMAIN c /\ c[Place(c, key)].key = key BY <1>1 DEF Place
<1>3. DOMAIN c = 1..Len(c) BY LenProperties
<1>4. c[Place(c, key)] \in Entries BY <1>2, <1>3, ElementOfSeq
<1>5. QED BY <1>2, <1>4 DEF Entry, ToSet

(* move_to_end(key): no new entries. *)
LEMMA MovedToEndProperties ==
  ASSUME NEW c \in Seq(Entries), NEW key \in Keys(c)
  PROVE  /\ MovedToEnd(c, key) \in Seq(Entries)
         /\ ToSet(MovedToEnd(c, key)) \subseteq ToSet(c)
<1> DEFINE rest == RemoveAt(c, Place(c, key))
           entry == Entry(c, key)
<1>1. Place(c, key) \in DOMAIN c /\ entry \in ToSet(c) /\ entry \in Entries BY EntryFound
<1>2. rest \in Seq(Entries) /\ \A k \in DOMAIN rest : \E j \in DOMAIN c : rest[k] = c[j]
  BY <1>1, RemoveAtProperties
<1>3. MovedToEnd(c, key) = Append(rest, entry) BY DEF MovedToEnd
<1> HIDE DEF rest, entry
<1>4. /\ Append(rest, entry) \in Seq(Entries)
      /\ Len(Append(rest, entry)) = Len(rest) + 1
      /\ \A i \in 1..Len(rest) : Append(rest, entry)[i] = rest[i]
      /\ Append(rest, entry)[Len(rest) + 1] = entry
  BY <1>1, <1>2, AppendProperties
<1>5. DOMAIN rest = 1..Len(rest) /\ Len(rest) \in Nat BY <1>2, LenProperties
<1>6. DOMAIN Append(rest, entry) = 1..(Len(rest) + 1) BY <1>4, LenProperties
<1>7. ASSUME NEW i \in DOMAIN Append(rest, entry) PROVE Append(rest, entry)[i] \in ToSet(c)
  <2>1. CASE i = Len(rest) + 1 BY <1>1, <1>4, <2>1
  <2>2. CASE i # Len(rest) + 1
    <3>1. i \in 1..Len(rest) BY <1>5, <1>6, <2>2
    <3>2. Append(rest, entry)[i] = rest[i] BY <1>4, <3>1
    <3>3. QED BY <1>2, <1>5, <3>1, <3>2 DEF ToSet
  <2>3. QED BY <2>1, <2>2
<1>8. ToSet(Append(rest, entry)) \subseteq ToSet(c) BY <1>7 DEF ToSet
<1>9. QED BY <1>3, <1>4, <1>8

(* _SHARED_CACHE[key] = answer: the entry and no other is new. *)
LEMMA StoredProperties ==
  ASSUME NEW c \in Seq(Entries), NEW key \in CacheKeys, NEW answer \in Answers
  PROVE  /\ Stored(c, key, answer) \in Seq(Entries)
         /\ \A e \in ToSet(Stored(c, key, answer)) :
              e \in ToSet(c) \/ e = [key |-> key, answer |-> answer]
<1> DEFINE entry == [key |-> key, answer |-> answer]
           put == [i \in DOMAIN c |-> IF c[i].key = key THEN entry ELSE c[i]]
<1>1. entry \in Entries BY DEF Entries
<1>2. Len(c) \in Nat /\ DOMAIN c = 1..Len(c) /\ \A i \in 1..Len(c) : c[i] \in Entries
  BY LenProperties, ElementOfSeq
<1>3. CASE key \in Keys(c)
  <2>1. Stored(c, key, answer) = put BY <1>3 DEF Stored
  <2>2. put \in [1..Len(c) -> Entries] BY <1>1, <1>2
  <2>3. put \in Seq(Entries) BY <1>2, <2>2, SeqDef
  <2>4. \A i \in DOMAIN put : put[i] \in ToSet(c) \/ put[i] = entry BY DEF ToSet
  <2>5. QED BY <2>1, <2>3, <2>4 DEF ToSet
<1>4. CASE key \notin Keys(c)
  <2>1. Stored(c, key, answer) = Append(c, entry) BY <1>4 DEF Stored
  <2> HIDE DEF entry
  <2>2. /\ Append(c, entry) \in Seq(Entries)
        /\ Len(Append(c, entry)) = Len(c) + 1
        /\ \A i \in 1..Len(c) : Append(c, entry)[i] = c[i]
        /\ Append(c, entry)[Len(c) + 1] = entry
    BY <1>1, AppendProperties
  <2>3. DOMAIN Append(c, entry) = 1..(Len(c) + 1) BY <2>2, LenProperties
  <2>4. \A i \in DOMAIN Append(c, entry) : Append(c, entry)[i] \in ToSet(c) \/ Append(c, entry)[i] = entry
    <3> TAKE i \in DOMAIN Append(c, entry)
    <3>1. i \in 1..Len(c) \/ i = Len(c) + 1 BY <1>2, <2>3
    <3>2. QED BY <1>2, <2>2, <3>1 DEF ToSet
  <2>5. \A e \in ToSet(Append(c, entry)) : e \in ToSet(c) \/ e = entry BY <2>4 DEF ToSet
  <2>6. QED BY <2>1, <2>2, <2>5 DEF entry
<1>5. QED BY <1>3, <1>4

(* popitem(last=False): no new entries. *)
LEMMA TailProperties ==
  ASSUME NEW c \in Seq(Entries), c # <<>>
  PROVE  Tail(c) \in Seq(Entries) /\ ToSet(Tail(c)) \subseteq ToSet(c)
<1>1. /\ Tail(c) \in Seq(Entries) /\ Len(Tail(c)) = Len(c) - 1
      /\ \A i \in 1..Len(Tail(c)) : Tail(c)[i] = c[i + 1]
  BY HeadTailProperties
<1>2. DOMAIN c = 1..Len(c) /\ Len(c) \in Nat /\ DOMAIN Tail(c) = 1..Len(Tail(c))
  BY <1>1, LenProperties
<1>3. \A i \in DOMAIN Tail(c) : i + 1 \in DOMAIN c /\ Tail(c)[i] = c[i + 1] BY <1>1, <1>2
<1>4. QED BY <1>1, <1>3 DEF ToSet

-----------------------------------------------------------------------------
(* The turns. *)

(* What a turn adds to the history: the last few, old ones and the new one. *)
LEMMA TrimmedProperties ==
  ASSUME NEW turns \in Seq(Turns), NEW turn \in Turns, MaxTurns \in Nat
  PROVE  /\ Trimmed(Append(turns, turn)) \in Seq(Turns)
         /\ Len(Trimmed(Append(turns, turn))) <= MaxTurns
         /\ \A i \in DOMAIN Trimmed(Append(turns, turn)) :
              \/ Trimmed(Append(turns, turn))[i] = turn
              \/ \E j \in DOMAIN turns : Trimmed(Append(turns, turn))[i] = turns[j]
<1> DEFINE all == Append(turns, turn)
           kept == LastOnes(all, MaxTurns)
<1>1. /\ all \in Seq(Turns)
      /\ Len(all) = Len(turns) + 1
      /\ \A i \in 1..Len(turns) : all[i] = turns[i]
      /\ all[Len(turns) + 1] = turn
  BY AppendProperties
<1> HIDE DEF all
<1>2. /\ kept \in Seq(Turns)
      /\ Len(kept) <= MaxTurns
      /\ Len(kept) = IF Len(all) > MaxTurns THEN MaxTurns ELSE Len(all)
      /\ \A i \in 1..Len(kept) : kept[i] = all[i + (Len(all) - Len(kept))]
  BY <1>1, LastOnesProperties
<1>3. Trimmed(all) = kept BY DEF Trimmed
<1> HIDE DEF kept
<1>4. DOMAIN kept = 1..Len(kept) /\ Len(kept) \in Nat /\ Len(turns) \in Nat /\ DOMAIN turns = 1..Len(turns)
  BY <1>2, LenProperties
<1>5. ASSUME NEW i \in DOMAIN kept
      PROVE  kept[i] = turn \/ \E j \in DOMAIN turns : kept[i] = turns[j]
  <2> DEFINE j == i + (Len(all) - Len(kept))
  <2>1. kept[i] = all[j] BY <1>2, <1>4
  <2>2. j \in 1..(Len(turns) + 1)
    <3>1. i \in Nat /\ 1 <= i /\ i <= Len(kept) BY <1>4, <1>5
    <3>2. Len(kept) <= Len(all) /\ Len(all) \in Nat BY <1>1, <1>2, <1>4
    <3>3. j \in Int /\ 1 <= j /\ j <= Len(all) BY <1>4, <3>1, <3>2
    <3> HIDE DEF j
    <3>4. QED BY <1>1, <1>4, <3>3
  <2> HIDE DEF j
  <2>3. CASE j = Len(turns) + 1 BY <1>1, <2>1, <2>3
  <2>4. CASE j # Len(turns) + 1
    <3>1. j \in 1..Len(turns) BY <1>4, <2>2, <2>4
    <3>2. QED BY <1>1, <1>4, <2>1, <3>1
  <2>5. QED BY <2>3, <2>4
<1>6. QED BY <1>2, <1>3, <1>5 DEF all

(* The SQL of the last turn, as a cache key has it. *)
ContextOf(s) == IF history[s] = <<>> THEN "" ELSE Last(history[s]).sql

(* What a prompt shows ends with the turn a key written now would name. *)
LEMMA LastTurnsProperties ==
  ASSUME AnsweringAssumption, TypeOK, NEW s \in Sessions
  PROVE  /\ LastTurns(s) \in Seq(Texts)
         /\ ContextOf(s) = IF LastTurns(s) = <<>> THEN "" ELSE Last(LastTurns(s))
         /\ ContextOf(s) \in Texts
         /\ history[s] # <<>> => Last(history[s]).sql \in Texts
<1> DEFINE h == history[s]
           shown == LastOnes(h, Prompted)
           texts == [i \in DOMAIN shown |-> shown[i].sql]
<1>1. h \in Seq(Turns) BY DEF TypeOK
<1>2. Prompted \in Nat /\ Prompted >= 1 BY DEF AnsweringAssumption
<1> HIDE DEF h
<1>3. /\ shown \in Seq(Turns)
      /\ Len(shown) = IF Len(h) > Prompted THEN Prompted ELSE Len(h)
      /\ \A i \in 1..Len(shown) : shown[i] = h[i + (Len(h) - Len(shown))]
  BY <1>1, <1>2, LastOnesProperties
<1> HIDE DEF shown
<1>4. /\ DOMAIN shown = 1..Len(shown) /\ Len(shown) \in Nat
      /\ \A i \in 1..Len(shown) : shown[i] \in Turns
  BY <1>3, LenProperties, ElementOfSeq
<1>5. Len(h) \in Nat /\ DOMAIN h = 1..Len(h) /\ \A i \in 1..Len(h) : h[i] \in Turns
  BY <1>1, LenProperties, ElementOfSeq
<1>6. \A t \in Turns : t.sql \in Texts BY DEF Turns
<1>7. texts \in [1..Len(shown) -> Texts] BY <1>4, <1>6
<1>8. texts \in Seq(Texts) /\ Len(texts) = Len(shown) BY <1>4, <1>7, SeqDef, LenProperties
<1>9. LastTurns(s) = texts BY DEF LastTurns, shown, h
<1>10. \A i \in 1..Len(shown) : texts[i] = shown[i].sql BY <1>4
<1> HIDE DEF texts
<1>11. CASE h = <<>>
  <2>1. Len(h) = 0 BY <1>11
  <2>2. Len(texts) = 0 BY <1>2, <1>3, <1>8, <2>1
  <2>3. texts = <<>> BY <1>8, <2>2, EmptySeq
  <2>4. QED BY <1>8, <1>9, <1>11, <2>3 DEF ContextOf, h, Texts
<1>12. CASE h # <<>>
  <2>1. Len(h) >= 1 BY <1>1, <1>5, <1>12, EmptySeq
  <2>2. Len(shown) >= 1 BY <1>2, <1>3, <1>5, <2>1
  <2>3. texts # <<>> BY <1>8, <2>2
  <2>4. shown[Len(shown)] = h[Len(shown) + (Len(h) - Len(shown))]
    <3>1. Len(shown) \in 1..Len(shown) BY <1>4, <2>2
    <3>2. QED BY <1>3, <3>1
  <2>5. Len(shown) + (Len(h) - Len(shown)) = Len(h) BY <1>4, <1>5
  <2>6. texts[Len(texts)] = h[Len(h)].sql BY <1>4, <1>8, <1>10, <2>2, <2>4, <2>5
  <2>7. Last(texts) = Last(h).sql BY <2>6 DEF Last
  <2>8. Last(h).sql \in Texts BY <1>5, <1>6, <2>1 DEF Last
  <2>9. QED BY <1>8, <1>9, <1>12, <2>3, <2>7, <2>8 DEF ContextOf, h
<1>13. QED BY <1>11, <1>12

-----------------------------------------------------------------------------
(* Types. *)

LEMMA InitTyped ==
  ASSUME AnsweringAssumption, Init PROVE TypeOK
<1>1. /\ Nothing \in Data /\ FirstData \in Data /\ FirstLinks \in Links /\ FirstGlossary \in Glossaries
      /\ MaxTurns \in Nat
  BY DEF AnsweringAssumption
<1>2. NoCatalog \in Catalogs /\ [NoCatalog EXCEPT !.data = FirstData] \in Catalogs
  BY <1>1 DEF NoCatalog, Catalogs
<1>3. NoKey \in CacheKeys BY <1>1 DEF NoKey, CacheKeys, Texts
<1>4. NoAnswer \in Answers BY <1>1 DEF NoAnswer, Answers, Disturbances
<1>5. Fresh \in Locals BY <1>2, <1>3, <1>4 DEF Fresh, Locals
<1>6. db \in [Sessions -> [data : Data, links : Links]] BY <1>1 DEF Init
<1>7. catalog \in [Sessions -> Catalogs] BY <1>2 DEF Init
<1>8. history \in [Sessions -> Seq(Turns)] /\ \A s \in Sessions : Len(history[s]) <= MaxTurns
  BY <1>1 DEF Init
<1>9. cache \in Seq(Entries) BY DEF Init
<1>10. mine \in [Questions -> Locals] BY <1>5 DEF Init
<1>11. /\ update \in [Sessions -> {"idle", "committed", "cleared", "relinked"}]
       /\ pc \in [Questions -> Stages] /\ disturbed \in [Questions -> Disturbances]
  BY DEF Init, Stages, Disturbances
<1>12. QED BY <1>6, <1>7, <1>8, <1>9, <1>10, <1>11 DEF TypeOK

LEMMA DisturbTyped ==
  ASSUME NEW whom, NEW how \in {"operation", "turn"}, Disturb(whom, how),
         disturbed \in [Questions -> Disturbances]
  PROVE  /\ disturbed' \in [Questions -> Disturbances]
         /\ \A q \in Questions : disturbed[q] \subseteq disturbed'[q]
         /\ \A q \in Questions : q \in whom => how \in disturbed'[q]
BY DEF Disturb, Disturbances

(* The next version of a catalog is a catalog, whatever it changes. *)
LEMMA NewVersion ==
  ASSUME NEW cat \in Catalogs, NEW data \in Data, NEW links \in Links, NEW glossary \in Glossaries
  PROVE  /\ [cat EXCEPT !.data = data, !.links = links, !.version = cat.version + 1] \in Catalogs
         /\ [cat EXCEPT !.glossary = glossary, !.version = cat.version + 1] \in Catalogs
<1>1. cat.version + 1 \in Nat BY DEF Catalogs
<1>2. QED BY <1>1 DEF Catalogs

(* The operations on a session leave everything well typed. *)
LEMMA OperationTyped ==
  ASSUME AnsweringAssumption, TypeOK, NEW s \in Sessions,
         \/ \E data \in Data \ {Nothing} : CommitFiles(s, data)
         \/ ClearHistory(s) \/ Publish(s)
         \/ \E links \in Links : CommitLinks(s, links)
         \/ \E glossary \in Glossaries : SetGlossary(s, glossary)
  PROVE  TypeOK'
<1> USE DEF TypeOK
<1>1. UNCHANGED <<cache, pc, mine>> /\ Disturb(Running(s), "operation")
  BY DEF CommitFiles, ClearHistory, Publish, CommitLinks, SetGlossary
<1>2. disturbed' \in [Questions -> Disturbances]
  BY <1>1, DisturbTyped
<1>3. db' \in [Sessions -> [data : Data, links : Links]]
  <2>1. db[s] \in [data : Data, links : Links] OBVIOUS
  <2>2. ASSUME NEW data \in Data, CommitFiles(s, data)
        PROVE  db' \in [Sessions -> [data : Data, links : Links]]
    <3>1. [db[s] EXCEPT !.data = data] \in [data : Data, links : Links] BY <2>1
    <3>2. db' = [db EXCEPT ![s] = [db[s] EXCEPT !.data = data]] BY <2>2 DEF CommitFiles
    <3>3. QED BY <3>1, <3>2
  <2>3. ASSUME NEW links \in Links, CommitLinks(s, links)
        PROVE  db' \in [Sessions -> [data : Data, links : Links]]
    <3>1. [db[s] EXCEPT !.links = links] \in [data : Data, links : Links] BY <2>1
    <3>2. db' = [db EXCEPT ![s] = [db[s] EXCEPT !.links = links]] BY <2>3 DEF CommitLinks
    <3>3. QED BY <3>1, <3>2
  <2>4. QED BY <2>2, <2>3 DEF ClearHistory, Publish, SetGlossary
<1>4. catalog' \in [Sessions -> Catalogs]
  <2>1. NewCatalog(s) \in Catalogs
    <3>1. catalog[s] \in Catalogs /\ db[s].data \in Data /\ db[s].links \in Links OBVIOUS
    <3>2. NewCatalog(s) = [catalog[s] EXCEPT !.data = db[s].data, !.links = db[s].links,
                                             !.version = catalog[s].version + 1]
      BY <3>1 DEF NewCatalog, Catalogs
    <3>3. catalog[s].glossary \in Glossaries BY <3>1 DEF Catalogs
    <3>4. [catalog[s] EXCEPT !.data = db[s].data, !.links = db[s].links,
                             !.version = catalog[s].version + 1] \in Catalogs
      BY <3>1, <3>3, NewVersion
    <3>5. QED BY <3>2, <3>4
  <2>2. ASSUME NEW glossary \in Glossaries, SetGlossary(s, glossary)
        PROVE  catalog' \in [Sessions -> Catalogs]
    <3> DEFINE new == [catalog[s] EXCEPT !.glossary = glossary, !.version = @ + 1]
    <3>1. catalog[s] \in Catalogs OBVIOUS
    <3>2. new = [catalog[s] EXCEPT !.glossary = glossary, !.version = catalog[s].version + 1]
      BY <3>1 DEF Catalogs
    <3>3. catalog' = [catalog EXCEPT ![s] = new] BY <2>2, <3>1 DEF SetGlossary, Catalogs
    <3>4. QED BY <3>1, <3>2, <3>3, NewVersion
  <2>3. CASE Publish(s) BY <2>1, <2>3 DEF Publish
  <2>4. QED BY <2>2, <2>3 DEF CommitFiles, ClearHistory, CommitLinks
<1>5. history' \in [Sessions -> Seq(Turns)] /\ \A t \in Sessions : Len(history'[t]) <= MaxTurns
  <2>1. CASE ClearHistory(s)
    <3>1. <<>> \in Seq(Turns) /\ Len(<<>>) <= MaxTurns BY DEF AnsweringAssumption
    <3>2. history' = [history EXCEPT ![s] = <<>>] BY <2>1 DEF ClearHistory, ClearedHistory
    <3>3. QED BY <3>1, <3>2
  <2>2. QED BY <2>1 DEF CommitFiles, Publish, CommitLinks, SetGlossary
<1>6. update' \in [Sessions -> {"idle", "committed", "cleared", "relinked"}]
  BY DEF CommitFiles, ClearHistory, Publish, CommitLinks, SetGlossary
<1>7. QED BY <1>1, <1>2, <1>3, <1>4, <1>5, <1>6

(* What a key is made of. *)
LEMMA KeyTyped ==
  ASSUME NEW q \in Questions, NEW cat \in Catalogs, NEW context \in Texts
  PROVE  Key(q, cat, context) \in CacheKeys
BY DEF Key, Catalogs, CacheKeys, Texts

(* The steps of a question leave everything well typed. *)
LEMMA QuestionTyped ==
  ASSUME AnsweringAssumption, TypeOK, NEW q \in Questions, Begin(q) \/ Progress(q)
  PROVE  TypeOK'
<1> DEFINE s == SessionOf[q]
           m == mine[q]
<1>0. s \in Sessions /\ m \in Locals /\ m.catalog \in Catalogs /\ m.key \in CacheKeys /\ m.answer \in Answers
  BY DEF TypeOK, AnsweringAssumption, Locals
<1>1. LastTurns(s) \in Seq(Texts) /\ (history[s] # <<>> => Last(history[s]).sql \in Texts)
  BY <1>0, LastTurnsProperties
<1>2. /\ mine \in [Questions -> Locals] /\ pc \in [Questions -> Stages]
      /\ cache \in Seq(Entries) /\ disturbed \in [Questions -> Disturbances]
  BY DEF TypeOK
<1>3. \A new \in Locals : [mine EXCEPT ![q] = new] \in [Questions -> Locals] BY <1>2
<1>4. \A stage \in Stages : Go(q, stage) => pc' \in [Questions -> Stages] BY <1>2 DEF Go
<1>5. \A answer \in Answers : [m EXCEPT !.answer = answer] \in Locals BY <1>0 DEF Locals
<1>6. CASE Begin(q)
  <2> DEFINE new == [m EXCEPT !.catalog = catalog[s], !.hadTurns = history[s] # <<>>, !.shown = LastTurns(s)]
  <2>1. catalog[s] \in Catalogs BY <1>0 DEF TypeOK
  <2>2. (history[s] # <<>>) \in BOOLEAN OBVIOUS
  <2>3. new \in Locals BY <1>0, <1>1, <2>1, <2>2 DEF Locals
  <2>4. mine' = [mine EXCEPT ![q] = new] BY <1>0, <1>2, <1>6 DEF Begin, Locals
  <2>5. mine' \in [Questions -> Locals] BY <1>3, <2>3, <2>4
  <2>6. pc' \in [Questions -> Stages] BY <1>2, <1>6 DEF Begin, Go, Stages
  <2>7. disturbed' \in [Questions -> Disturbances] BY <1>2, <1>6 DEF Begin, Disturbances
  <2>8. UNCHANGED <<db, catalog, history, update, cache>> BY <1>6 DEF Begin
  <2>9. QED BY <2>5, <2>6, <2>7, <2>8 DEF TypeOK
<1>7. CASE MakeKey(q)
  <2>1. UNCHANGED <<db, catalog, history, update, cache, disturbed>> BY <1>7 DEF MakeKey
  <2>2. pc' \in [Questions -> Stages] BY <1>2, <1>7 DEF MakeKey, Go, Stages
  <2>3. CASE m.hadTurns /\ history[s] = <<>> BY <1>2, <1>7, <2>1, <2>2, <2>3 DEF MakeKey, TypeOK
  <2>4. CASE ~(m.hadTurns /\ history[s] = <<>>)
    <3> DEFINE context == IF m.hadTurns THEN Last(history[s]).sql ELSE ""
               key == Key(q, m.catalog, context)
    <3>1. context \in Texts BY <1>1, <2>4 DEF Texts
    <3> HIDE DEF context
    <3>2. key \in CacheKeys BY <1>0, <3>1, KeyTyped
    <3>3. mine' = [mine EXCEPT ![q]["key"] = key]
      BY <1>7, <2>4 DEF MakeKey, Set, context
    <3> HIDE DEF key
    <3>4. mine' = [mine EXCEPT ![q] = [m EXCEPT !.key = key]] BY <3>3
    <3>5. [m EXCEPT !.key = key] \in Locals BY <1>0, <3>2 DEF Locals
    <3>6. QED BY <1>3, <2>1, <2>2, <3>4, <3>5 DEF TypeOK
  <2>5. QED BY <2>3, <2>4
<1>8. CASE LookUp(q)
  <2>1. UNCHANGED <<db, catalog, history, update, cache, disturbed>> BY <1>8 DEF LookUp
  <2>2. pc' \in [Questions -> Stages] BY <1>2, <1>8 DEF LookUp, Go, Stages
  <2>3. CASE m.key \in Keys(cache)
    <3> DEFINE answer == Entry(cache, m.key).answer
    <3>1. answer \in Answers BY <1>2, <2>3, EntryFound DEF Entries
    <3>2. mine' = [mine EXCEPT ![q]["answer"] = answer] BY <1>8, <2>3 DEF LookUp, Set
    <3> HIDE DEF answer
    <3>3. mine' = [mine EXCEPT ![q] = [m EXCEPT !.answer = answer]] BY <3>2
    <3>4. QED BY <1>3, <1>5, <2>1, <2>2, <3>1, <3>3 DEF TypeOK
  <2>4. CASE m.key \notin Keys(cache) BY <1>8, <2>1, <2>2, <2>4 DEF LookUp, TypeOK
  <2>5. QED BY <2>3, <2>4
<1>9. CASE Touch(q)
  <2>1. UNCHANGED <<db, catalog, history, update, mine, disturbed>> BY <1>9 DEF Touch
  <2>2. pc' \in [Questions -> Stages] BY <1>2, <1>9 DEF Touch, Go, Stages
  <2>3. cache' \in Seq(Entries) BY <1>2, <1>9, MovedToEndProperties DEF Touch
  <2>4. QED BY <2>1, <2>2, <2>3 DEF TypeOK
<1>10. CASE ReadCatalog(q)
  <2> DEFINE answer == [NoAnswer EXCEPT !.links = catalog[s].links, !.glossary = catalog[s].glossary,
                                        !.turns = LastTurns(s)]
  <2>1. UNCHANGED <<db, catalog, history, update, cache, disturbed>> BY <1>10 DEF ReadCatalog
  <2>2. pc' \in [Questions -> Stages] BY <1>2, <1>10 DEF ReadCatalog, Go, Stages
  <2>3. NoAnswer \in Answers BY DEF NoAnswer, Answers, Disturbances, AnsweringAssumption
  <2>4. catalog[s].links \in Links /\ catalog[s].glossary \in Glossaries
    BY <1>0 DEF TypeOK, Catalogs
  <2>5. answer \in Answers BY <1>1, <2>3, <2>4 DEF Answers
  <2>6. mine' = [mine EXCEPT ![q]["answer"] = answer] BY <1>10 DEF ReadCatalog, Set
  <2> HIDE DEF answer
  <2>7. mine' = [mine EXCEPT ![q] = [m EXCEPT !.answer = answer]] BY <2>6
  <2>8. QED BY <1>3, <1>5, <2>1, <2>2, <2>5, <2>7 DEF TypeOK
<1>11. CASE Repair(q)
  <2> DEFINE answer == [m.answer EXCEPT !.turns = LastTurns(s)]
  <2>1. answer \in Answers BY <1>0, <1>1 DEF Answers
  <2>2. mine' = [mine EXCEPT ![q] = [m EXCEPT !.answer = answer]] BY <1>11 DEF Repair
  <2> HIDE DEF answer
  <2>3. mine' \in [Questions -> Locals] BY <1>3, <1>5, <2>1, <2>2
  <2>4. UNCHANGED <<db, catalog, history, update, cache, pc, disturbed>> BY <1>11 DEF Repair
  <2>5. QED BY <2>3, <2>4 DEF TypeOK
<1>12. CASE Execute(q)
  <2>1. UNCHANGED <<db, catalog, history, update, cache, disturbed>> BY <1>12 DEF Execute
  <2>2. pc' \in [Questions -> Stages] BY <1>2, <1>12 DEF Execute, Go, Stages
  <2>3. ASSUME NEW kind \in {"answer", "meta"}, NEW data \in Data, NEW views \in Links,
               Set(q, "answer", [m.answer EXCEPT !.kind = kind, !.data = data, !.views = views])
        PROVE  mine' \in [Questions -> Locals]
    <3> DEFINE answer == [m.answer EXCEPT !.kind = kind, !.data = data, !.views = views]
    <3>1. answer \in Answers BY <1>0 DEF Answers
    <3>2. mine' = [mine EXCEPT ![q]["answer"] = answer] BY <2>3 DEF Set
    <3> HIDE DEF answer
    <3>3. mine' = [mine EXCEPT ![q] = [m EXCEPT !.answer = answer]] BY <3>2
    <3>4. QED BY <1>3, <1>5, <3>1, <3>3
  <2>4. /\ db[s].data \in Data /\ db[s].links \in Links
        /\ catalog[s].data \in Data /\ catalog[s].links \in Links
    BY <1>0 DEF TypeOK, Catalogs
  <2>5. \/ Set(q, "answer", [m.answer EXCEPT !.kind = "answer", !.data = db[s].data, !.views = db[s].links])
        \/ Set(q, "answer", [m.answer EXCEPT !.kind = "meta", !.data = catalog[s].data, !.views = catalog[s].links])
        \/ UNCHANGED mine
    BY <1>12 DEF Execute
  <2>6. mine' \in [Questions -> Locals] BY <1>2, <2>3, <2>4, <2>5
  <2>7. QED BY <2>1, <2>2, <2>6 DEF TypeOK
<1>13. CASE Store(q)
  <2> DEFINE answer == [m.answer EXCEPT !.disturbed = disturbed[q]]
  <2>1. UNCHANGED <<db, catalog, history, update, disturbed>> BY <1>13 DEF Store
  <2>2. pc' \in [Questions -> Stages] BY <1>2, <1>13 DEF Store, Go, Stages
  <2>3. answer \in Answers BY <1>0, <1>2 DEF Answers
  <2>4. cache' = Stored(cache, m.key, answer) BY <1>13 DEF Store
  <2>5. mine' = [mine EXCEPT ![q]["answer"] = answer] BY <1>13 DEF Store, Set
  <2> HIDE DEF answer
  <2>6. cache' \in Seq(Entries) BY <1>0, <1>2, <2>3, <2>4, StoredProperties
  <2>7. mine' = [mine EXCEPT ![q] = [m EXCEPT !.answer = answer]] BY <2>5
  <2>8. QED BY <1>3, <1>5, <2>1, <2>2, <2>3, <2>6, <2>7 DEF TypeOK
<1>14. CASE CheckSize(q)
  <2>1. pc' \in [Questions -> Stages] BY <1>2, <1>14 DEF CheckSize, Go, Stages
  <2>2. QED BY <1>14, <2>1 DEF CheckSize, TypeOK
<1>15. CASE Pop(q)
  <2>1. UNCHANGED <<db, catalog, history, update, mine, disturbed>> BY <1>15 DEF Pop
  <2>2. pc' \in [Questions -> Stages] BY <1>2, <1>15 DEF Pop, Go, Stages
  <2>3. cache' \in Seq(Entries) BY <1>2, <1>15, TailProperties DEF Pop
  <2>4. QED BY <2>1, <2>2, <2>3 DEF TypeOK
<1>16. CASE Remember(q)
  <2> DEFINE turn == [sql |-> TextOf[q], data |-> m.answer.data,
                      disturbed |-> m.answer.disturbed \cup disturbed[q]]
  <2>1. UNCHANGED <<db, catalog, update, cache, mine>> BY <1>16 DEF Remember
  <2>2. pc' \in [Questions -> Stages] BY <1>2, <1>16 DEF Remember, Go, Stages
  <2>3. turn \in Turns BY <1>0, <1>2 DEF Turns, Answers, Disturbances, Texts
  <2>4. CASE m.answer.kind = "answer"
    <3>1. history' = [history EXCEPT ![s] = Trimmed(Append(history[s], turn))]
      BY <1>16, <2>4 DEF Remember
    <3>2. Disturb(Running(s) \ {q}, "turn") BY <1>16, <2>4 DEF Remember
    <3> HIDE DEF turn
    <3>3. disturbed' \in [Questions -> Disturbances] BY <1>2, <3>2, DisturbTyped
    <3>4. MaxTurns \in Nat BY DEF AnsweringAssumption
    <3>5. /\ Trimmed(Append(history[s], turn)) \in Seq(Turns)
          /\ Len(Trimmed(Append(history[s], turn))) <= MaxTurns
      BY <1>0, <2>3, <3>4, TrimmedProperties DEF TypeOK
    <3>6. history' \in [Sessions -> Seq(Turns)] /\ \A t \in Sessions : Len(history'[t]) <= MaxTurns
      BY <1>0, <3>1, <3>5 DEF TypeOK
    <3>7. QED BY <2>1, <2>2, <3>3, <3>6 DEF TypeOK
  <2>5. CASE m.answer.kind # "answer" BY <1>16, <2>1, <2>2, <2>5 DEF Remember, TypeOK
  <2>6. QED BY <2>4, <2>5
<1>17. QED
  BY <1>6, <1>7, <1>8, <1>9, <1>10, <1>11, <1>12, <1>13, <1>14, <1>15, <1>16 DEF Progress

(* Every variable keeps its type: what questions and operations hand each  *)
(* other through the session and the cache is never anything else than the *)
(* other expects, and a session never remembers more than MaxTurns turns.  *)
THEOREM TypeCorrect == Spec => []TypeOK
<1>1. Init => TypeOK BY AnsweringAssumption, InitTyped
<1>2. TypeOK /\ [Next]_vars => TypeOK'
  <2> SUFFICES ASSUME TypeOK, [Next]_vars PROVE TypeOK' OBVIOUS
  <2>1. CASE Next BY <2>1, AnsweringAssumption, OperationTyped, QuestionTyped DEF Next
  <2>2. CASE UNCHANGED vars BY <2>2 DEF vars, TypeOK
  <2>3. QED BY <2>1, <2>2
<1>3. QED BY <1>1, <1>2, PTL DEF Spec

-----------------------------------------------------------------------------
(* The inductive invariant: what a question that nothing disturbed knows    *)
(* of its session, stage by stage, and what a session holds between two     *)
(* steps of an operation.                                                   *)

Quiet(causes) == "operation" \notin causes
HasTurn(s) == history[s] # <<>>

(* What is known of a question that is being answered. *)
KeyIsCatalog(q) ==
  /\ mine[q].key.data = mine[q].catalog.data
  /\ mine[q].key.links = mine[q].catalog.links
  /\ mine[q].key.glossary = mine[q].catalog.glossary

Prompting == {"executing", "storing"}

CatalogStands(q) ==
  pc[q] \notin Ended /\ Quiet(disturbed[q]) =>
    /\ update[SessionOf[q]] = "idle"
    /\ mine[q].catalog = catalog[SessionOf[q]]

KeyStands(q) == pc[q] \notin Ended \cup {"keying"} => KeyIsCatalog(q)

PromptStands(q) ==
  pc[q] \in Prompting =>
    /\ mine[q].answer.disturbed = {}
    /\ Quiet(disturbed[q]) =>
         /\ mine[q].answer.links = mine[q].key.links
         /\ mine[q].answer.glossary = mine[q].key.glossary

ResultStands(q) ==
  pc[q] = "storing" /\ Quiet(disturbed[q]) =>
    mine[q].answer.data = mine[q].key.data /\ mine[q].answer.views = mine[q].key.links

TurnStands(q) ==
  /\ pc[q] \in {"evicting", "popping", "remembering"}
       /\ Quiet(disturbed[q]) /\ Quiet(mine[q].answer.disturbed)
     => mine[q].answer.data = mine[q].key.data
  /\ pc[q] = "hit" /\ Quiet(mine[q].answer.disturbed) => mine[q].answer.data = mine[q].key.data

ContextStands(q) ==
  disturbed[q] = {} =>
    /\ pc[q] = "keying" => (mine[q].hadTurns <=> HasTurn(SessionOf[q]))
    /\ pc[q] \in {"looking", "reading"} \cup Prompting => mine[q].key.context = ContextOf(SessionOf[q])
    /\ pc[q] \in Prompting => FollowsKey(mine[q])

QuestionInv(q) ==
  /\ CatalogStands(q) /\ KeyStands(q) /\ PromptStands(q)
  /\ ResultStands(q) /\ TurnStands(q) /\ ContextStands(q)

SessionInv(s) ==
  /\ update[s] \in {"idle", "relinked"} =>
       /\ catalog[s].data = db[s].data
       /\ \A i \in DOMAIN history[s] : Quiet(history[s][i].disturbed) => history[s][i].data = db[s].data
  /\ update[s] = "idle" => catalog[s].links = db[s].links
  /\ update[s] = "cleared" => \A i \in DOMAIN history[s] : ~Quiet(history[s][i].disturbed)

IInv ==
  /\ \A q \in Questions : QuestionInv(q)
  /\ \A s \in Sessions : SessionInv(s)
  /\ QuietEntriesHonest

LEMMA InitIInv ==
  ASSUME Init PROVE IInv
<1>1. \A q \in Questions : pc[q] = "idle" /\ disturbed[q] = {} BY DEF Init
<1>2. \A q \in Questions : QuestionInv(q)
  BY <1>1 DEF QuestionInv, CatalogStands, KeyStands, PromptStands, ResultStands, TurnStands,
              ContextStands, Ended, Prompting
<1>3. \A s \in Sessions : SessionInv(s) BY DEF Init, SessionInv, NoCatalog
<1>4. QuietEntriesHonest BY DEF Init, QuietEntriesHonest, ToSet
<1>5. QED BY <1>2, <1>3, <1>4 DEF IInv

(* A question that is over, or not begun, has nothing to keep true. *)
LEMMA EndedKeeps ==
  ASSUME NEW q \in Questions, pc'[q] \in Ended PROVE QuestionInv(q)'
BY DEF QuestionInv, CatalogStands, KeyStands, PromptStands, ResultStands, TurnStands, ContextStands,
       Ended, Prompting

(* A step of another thread leaves what a question knows true, if it marks *)
(* the question whenever it changes its session.                           *)
LEMMA OthersKeep ==
  ASSUME NEW q \in Questions, QuestionInv(q), pc'[q] = pc[q], mine'[q] = mine[q],
         disturbed[q] \subseteq disturbed'[q],
         pc[q] \notin Ended /\ Quiet(disturbed'[q]) =>
           /\ update'[SessionOf[q]] = update[SessionOf[q]]
           /\ catalog'[SessionOf[q]] = catalog[SessionOf[q]],
         pc[q] \notin Ended /\ disturbed'[q] = {} => history'[SessionOf[q]] = history[SessionOf[q]]
  PROVE  QuestionInv(q)'
<1>1. CASE pc[q] \in Ended BY <1>1, EndedKeeps
<1>2. CASE pc[q] \notin Ended
  <2>1. Quiet(disturbed'[q]) => Quiet(disturbed[q]) BY DEF Quiet
  <2>2. disturbed'[q] = {} => disturbed[q] = {} OBVIOUS
  <2>3. CatalogStands(q)' BY <1>2, <2>1 DEF QuestionInv, CatalogStands
  <2>4. KeyStands(q)' BY DEF QuestionInv, KeyStands, KeyIsCatalog
  <2>5. PromptStands(q)' BY <2>1 DEF QuestionInv, PromptStands
  <2>6. ResultStands(q)' BY <2>1 DEF QuestionInv, ResultStands
  <2>7. TurnStands(q)' BY <2>1 DEF QuestionInv, TurnStands
  <2>8. ContextStands(q)'
    BY <1>2, <2>2 DEF QuestionInv, ContextStands, HasTurn, ContextOf, FollowsKey
  <2>9. QED BY <2>3, <2>4, <2>5, <2>6, <2>7, <2>8 DEF QuestionInv
<1>3. QED BY <1>1, <1>2

(* The operations on a session. *)
LEMMA OperationKeeps ==
  ASSUME TypeOK, IInv, NEW s \in Sessions,
         \/ \E data \in Data \ {Nothing} : CommitFiles(s, data)
         \/ ClearHistory(s) \/ Publish(s)
         \/ \E links \in Links : CommitLinks(s, links)
         \/ \E glossary \in Glossaries : SetGlossary(s, glossary)
  PROVE  IInv'
<1>1. /\ UNCHANGED <<cache, pc, mine>> /\ Disturb(Running(s), "operation")
      /\ \A t \in Sessions \ {s} : /\ db'[t] = db[t] /\ catalog'[t] = catalog[t]
                                   /\ history'[t] = history[t] /\ update'[t] = update[t]
  BY DEF CommitFiles, ClearHistory, Publish, CommitLinks, SetGlossary, TypeOK
<1>2. ASSUME NEW q \in Questions PROVE QuestionInv(q)'
  <2>1. SessionOf[q] \in Sessions BY AnsweringAssumption DEF AnsweringAssumption
  <2>2. disturbed[q] \subseteq disturbed'[q] /\ (q \in Running(s) => "operation" \in disturbed'[q])
    BY <1>1, DisturbTyped DEF TypeOK
  <2>3. pc'[q] = pc[q] /\ mine'[q] = mine[q] /\ QuestionInv(q) BY <1>1 DEF IInv
  <2>4. CASE SessionOf[q] # s BY <1>1, <2>1, <2>2, <2>3, <2>4, OthersKeep
  <2>5. CASE SessionOf[q] = s
    <3>1. pc[q] \notin Ended => ~Quiet(disturbed'[q]) /\ disturbed'[q] # {}
      BY <2>2, <2>5 DEF Running, Quiet
    <3>2. QED BY <2>2, <2>3, <3>1, OthersKeep
  <2>6. QED BY <2>4, <2>5
<1>3. ASSUME NEW t \in Sessions PROVE SessionInv(t)'
  <2>1. SessionInv(t) BY DEF IInv
  <2>2. CASE t # s
    <3>1. db'[t] = db[t] /\ catalog'[t] = catalog[t] /\ history'[t] = history[t] /\ update'[t] = update[t]
      BY <1>1, <2>2
    <3>2. QED BY <2>1, <3>1 DEF SessionInv
  <2>3. CASE t = s
    <3>1. ASSUME NEW data \in Data, CommitFiles(s, data) PROVE SessionInv(s)'
      <4>1. update'[s] = "committed" BY <3>1 DEF CommitFiles, TypeOK
      <4>2. QED BY <4>1 DEF SessionInv
    <3>2. CASE ClearHistory(s)
      <4>1. update'[s] = "cleared" /\ history'[s] = <<>>
        BY <3>2 DEF ClearHistory, ClearedHistory, TypeOK
      <4>2. QED BY <2>3, <4>1 DEF SessionInv
    <3>3. CASE Publish(s)
      <4>1. /\ update[s] \in {"cleared", "relinked"}
            /\ update'[s] = "idle" /\ history'[s] = history[s] /\ db'[s] = db[s]
            /\ catalog' = [catalog EXCEPT ![s] = NewCatalog(s)]
        BY <3>3 DEF Publish, TypeOK
      <4>2. catalog'[s].data = db[s].data /\ catalog'[s].links = db[s].links
        <5>1. catalog[s] \in Catalogs /\ catalog'[s] = NewCatalog(s) BY <4>1 DEF TypeOK
        <5>2. QED BY <5>1 DEF NewCatalog, Catalogs
      <4>3. QED BY <2>1, <2>3, <4>1, <4>2 DEF SessionInv
    <3>4. ASSUME NEW links \in Links, CommitLinks(s, links) PROVE SessionInv(s)'
      <4>1. /\ update[s] = "idle" /\ update'[s] = "relinked"
            /\ history'[s] = history[s] /\ catalog'[s] = catalog[s]
        BY <3>4 DEF CommitLinks, TypeOK
      <4>2. db'[s].data = db[s].data BY <3>4 DEF CommitLinks, TypeOK
      <4>3. QED BY <2>1, <2>3, <4>1, <4>2 DEF SessionInv
    <3>5. ASSUME NEW glossary \in Glossaries, SetGlossary(s, glossary) PROVE SessionInv(s)'
      <4>1. UNCHANGED <<db, history, update>> BY <3>5 DEF SetGlossary
      <4>2. catalog'[s].data = catalog[s].data /\ catalog'[s].links = catalog[s].links
        <5>1. catalog[s] \in Catalogs BY DEF TypeOK
        <5>2. catalog'[s] = [catalog[s] EXCEPT !.glossary = glossary, !.version = catalog[s].version + 1]
          BY <3>5, <5>1 DEF SetGlossary, TypeOK, Catalogs
        <5>3. QED BY <5>1, <5>2 DEF Catalogs
      <4>3. QED BY <2>1, <2>3, <4>1, <4>2 DEF SessionInv
    <3>6. QED BY <2>3, <3>1, <3>2, <3>3, <3>4, <3>5
  <2>4. QED BY <2>2, <2>3
<1>4. QuietEntriesHonest' BY <1>1 DEF IInv, QuietEntriesHonest
<1>5. QED BY <1>2, <1>3, <1>4 DEF IInv

(* The same for the steps of the other questions' threads: only a turn     *)
(* that is remembered changes anything a question has read.                *)
LEMMA OtherQuestionsKeep ==
  ASSUME TypeOK, NEW q \in Questions, NEW p \in Questions, p # q, QuestionInv(p), Begin(q) \/ Progress(q)
  PROVE  QuestionInv(p)'
<1>1. UNCHANGED <<db, catalog, update>> /\ pc'[p] = pc[p] /\ mine'[p] = mine[p]
  BY DEF TypeOK, Begin, Progress, MakeKey, LookUp, Touch, ReadCatalog, Repair, Execute, Store,
         CheckSize, Pop, Remember, Go, Set
<1>2. CASE Remember(q) /\ mine[q].answer.kind = "answer"
  <2> DEFINE s == SessionOf[q]
  <2>1. Disturb(Running(s) \ {q}, "turn") BY <1>2 DEF Remember
  <2>2. /\ disturbed[p] \subseteq disturbed'[p]
        /\ p \in Running(s) \ {q} => "turn" \in disturbed'[p]
    BY <2>1, DisturbTyped DEF TypeOK
  <2>3. \A t \in Sessions \ {s} : history'[t] = history[t] BY <1>2 DEF Remember, TypeOK
  <2>4. ASSUME pc[p] \notin Ended, disturbed'[p] = {} PROVE SessionOf[p] # s
    <3>1. p \notin Running(s) BY <2>2, <2>4
    <3>2. QED BY <2>4, <3>1 DEF Running
  <2>5. SessionOf[p] \in Sessions BY AnsweringAssumption DEF AnsweringAssumption
  <2>6. pc[p] \notin Ended /\ disturbed'[p] = {} => history'[SessionOf[p]] = history[SessionOf[p]]
    BY <2>3, <2>4, <2>5
  <2>7. QED BY <1>1, <2>2, <2>6, OthersKeep
<1>3. CASE ~(Remember(q) /\ mine[q].answer.kind = "answer")
  <2>1. UNCHANGED history
    BY <1>3 DEF Begin, Progress, MakeKey, LookUp, Touch, ReadCatalog, Repair, Execute, Store,
                CheckSize, Pop, Remember
  <2>2. disturbed'[p] = disturbed[p]
    BY <1>3 DEF TypeOK, Begin, Progress, MakeKey, LookUp, Touch, ReadCatalog, Repair, Execute, Store,
                CheckSize, Pop, Remember
  <2>3. QED BY <1>1, <2>1, <2>2, OthersKeep
<1>4. QED BY <1>2, <1>3

(* The steps of a question's own thread. *)
LEMMA BeginKeeps ==
  ASSUME TypeOK, NEW q \in Questions, Begin(q) PROVE QuestionInv(q)'
<1> DEFINE s == SessionOf[q]
<1>0. s \in Sessions BY AnsweringAssumption DEF AnsweringAssumption
<1>1. /\ pc'[q] = "keying" /\ UNCHANGED <<catalog, history, update>>
      /\ disturbed'[q] = IF update[s] = "idle" THEN {} ELSE {"operation"}
  BY DEF Begin, Go, TypeOK
<1>2. mine'[q].catalog = catalog[s] /\ mine'[q].hadTurns = (history[s] # <<>>)
  <2>1. mine[q] \in Locals BY DEF TypeOK
  <2>2. mine'[q] = [mine[q] EXCEPT !.catalog = catalog[s], !.hadTurns = history[s] # <<>>,
                                   !.shown = LastTurns(s)]
    BY DEF Begin, TypeOK, Locals
  <2>3. QED BY <2>1, <2>2 DEF Locals
<1>3. CatalogStands(q)' BY <1>1, <1>2 DEF CatalogStands, Quiet
<1>4. ContextStands(q)' BY <1>1, <1>2 DEF ContextStands, HasTurn, Prompting
<1>5. QED
  BY <1>1, <1>3, <1>4 DEF QuestionInv, KeyStands, PromptStands, ResultStands, TurnStands, Prompting, Ended

LEMMA MakeKeyKeeps ==
  ASSUME TypeOK, NEW q \in Questions, QuestionInv(q), MakeKey(q) PROVE QuestionInv(q)'
<1> DEFINE s == SessionOf[q]
           m == mine[q]
<1>1. /\ UNCHANGED <<catalog, history, update, disturbed>> /\ pc[q] = "keying" /\ m \in Locals
      /\ pc'[q] \in {"raised", "looking"}
  BY DEF MakeKey, Go, TypeOK
<1>2. CASE pc'[q] = "raised" BY <1>2, EndedKeeps DEF Ended
<1>3. CASE pc'[q] = "looking"
  <2> DEFINE context == IF m.hadTurns THEN Last(history[s]).sql ELSE ""
             key == Key(q, m.catalog, context)
  <2>1. mine' = [mine EXCEPT ![q]["key"] = key] BY <1>1, <1>3 DEF MakeKey, Go, Set, TypeOK
  <2> HIDE DEF context
  <2>2. /\ key.data = m.catalog.data /\ key.links = m.catalog.links
        /\ key.glossary = m.catalog.glossary /\ key.context = context
    BY DEF Key
  <2> HIDE DEF key
  <2>3. mine'[q] = [m EXCEPT !.key = key] BY <2>1 DEF TypeOK
  <2>4. mine'[q].key = key /\ mine'[q].catalog = m.catalog BY <1>1, <2>3 DEF Locals
  <2>5. CatalogStands(q)' BY <1>1, <1>3, <2>4 DEF QuestionInv, CatalogStands, Ended
  <2>6. KeyStands(q)' BY <2>2, <2>4 DEF KeyStands, KeyIsCatalog
  <2>7. disturbed[q] = {} => context = ContextOf(s)
    BY <1>1 DEF QuestionInv, ContextStands, HasTurn, ContextOf, context
  <2>8. ContextStands(q)'
    BY <1>1, <1>3, <2>2, <2>4, <2>7 DEF ContextStands, ContextOf, Prompting
  <2>9. QED BY <1>3, <2>5, <2>6, <2>8 DEF QuestionInv, PromptStands, ResultStands, TurnStands, Prompting
<1>4. QED BY <1>1, <1>2, <1>3

LEMMA LookUpKeeps ==
  ASSUME TypeOK, QuietEntriesHonest, NEW q \in Questions, QuestionInv(q), LookUp(q)
  PROVE  QuestionInv(q)'
<1> DEFINE m == mine[q]
<1>1. /\ UNCHANGED <<catalog, history, update, cache, disturbed>> /\ pc[q] = "looking" /\ m \in Locals
  BY DEF LookUp, TypeOK
<1>2. CASE m.key \in Keys(cache)
  <2> DEFINE entry == Entry(cache, m.key)
  <2>1. entry \in ToSet(cache) /\ entry.key = m.key BY <1>2, EntryFound DEF TypeOK
  <2>2. Quiet(entry.answer.disturbed) => entry.answer.data = m.key.data
    BY <2>1 DEF QuietEntriesHonest, Honest, Quiet
  <2>3. pc'[q] = "hit" /\ mine' = [mine EXCEPT ![q]["answer"] = entry.answer]
    BY <1>2 DEF LookUp, Go, Set, TypeOK
  <2> HIDE DEF entry
  <2>4. mine'[q] = [m EXCEPT !.answer = entry.answer] BY <2>3 DEF TypeOK
  <2>5. mine'[q].answer = entry.answer /\ mine'[q].catalog = m.catalog /\ mine'[q].key = m.key
    BY <1>1, <2>4 DEF Locals
  <2>6. CatalogStands(q)' BY <1>1, <2>5 DEF QuestionInv, CatalogStands, Ended
  <2>7. KeyStands(q)' BY <1>1, <2>5 DEF QuestionInv, KeyStands, KeyIsCatalog, Ended
  <2>8. TurnStands(q)' BY <2>2, <2>3, <2>5 DEF TurnStands
  <2>9. QED BY <2>3, <2>6, <2>7, <2>8 DEF QuestionInv, PromptStands, ResultStands, ContextStands, Prompting
<1>3. CASE m.key \notin Keys(cache)
  <2>1. pc'[q] = "reading" /\ UNCHANGED mine BY <1>3 DEF LookUp, Go, TypeOK
  <2>2. QED BY <1>1, <2>1 DEF QuestionInv, CatalogStands, KeyStands, KeyIsCatalog, PromptStands,
              ResultStands, TurnStands, ContextStands, ContextOf, Prompting, Ended
<1>4. QED BY <1>2, <1>3

LEMMA TouchKeeps ==
  ASSUME TypeOK, NEW q \in Questions, QuestionInv(q), Touch(q) PROVE QuestionInv(q)'
<1>1. /\ UNCHANGED <<catalog, history, update, mine, disturbed>> /\ pc[q] = "hit"
      /\ pc'[q] \in {"raised", "remembering"}
  BY DEF Touch, Go, TypeOK
<1>2. CASE pc'[q] = "raised" BY <1>2, EndedKeeps DEF Ended
<1>3. CASE pc'[q] = "remembering"
  BY <1>1, <1>3 DEF QuestionInv, CatalogStands, KeyStands, KeyIsCatalog, PromptStands, ResultStands,
                    TurnStands, ContextStands, Prompting, Ended
<1>4. QED BY <1>1, <1>2, <1>3

(* A prompt written while nothing disturbed the question shows the turn    *)
(* its key names last.                                                     *)
LEMMA PromptFollowsKey ==
  ASSUME TypeOK, NEW q \in Questions, mine[q].key.context = ContextOf(SessionOf[q]),
         mine'[q].key = mine[q].key, mine'[q].answer.turns = LastTurns(SessionOf[q])
  PROVE  FollowsKey(mine[q])'
<1>1. SessionOf[q] \in Sessions BY AnsweringAssumption DEF AnsweringAssumption
<1>2. ContextOf(SessionOf[q]) =
        IF LastTurns(SessionOf[q]) = <<>> THEN "" ELSE Last(LastTurns(SessionOf[q]))
  BY <1>1, AnsweringAssumption, LastTurnsProperties
<1>3. QED BY <1>2 DEF FollowsKey

LEMMA ReadCatalogKeeps ==
  ASSUME TypeOK, NEW q \in Questions, QuestionInv(q), ReadCatalog(q) PROVE QuestionInv(q)'
<1> DEFINE s == SessionOf[q]
           m == mine[q]
           answer == [NoAnswer EXCEPT !.links = catalog[s].links, !.glossary = catalog[s].glossary,
                                      !.turns = LastTurns(s)]
<1>1. /\ UNCHANGED <<catalog, history, update, disturbed>> /\ pc[q] = "reading" /\ m \in Locals
      /\ pc'[q] \in {"done", "executing"}
  BY DEF ReadCatalog, Go, TypeOK
<1>2. /\ answer.disturbed = {} /\ answer.turns = LastTurns(s)
      /\ answer.links = catalog[s].links /\ answer.glossary = catalog[s].glossary
  BY DEF NoAnswer
<1>3. mine' = [mine EXCEPT ![q]["answer"] = answer] BY DEF ReadCatalog, Set
<1> HIDE DEF answer
<1>4. mine'[q] = [m EXCEPT !.answer = answer] BY <1>3 DEF TypeOK
<1>5. mine'[q].answer = answer /\ mine'[q].catalog = m.catalog /\ mine'[q].key = m.key
  BY <1>1, <1>4 DEF Locals
<1>6. CASE pc'[q] = "done" BY <1>6, EndedKeeps DEF Ended
<1>7. CASE pc'[q] = "executing"
  <2>1. CatalogStands(q)' BY <1>1, <1>5 DEF QuestionInv, CatalogStands, Ended
  <2>2. KeyStands(q)' BY <1>1, <1>5 DEF QuestionInv, KeyStands, KeyIsCatalog, Ended
  <2>3. Quiet(disturbed[q]) => answer.links = m.key.links /\ answer.glossary = m.key.glossary
    BY <1>1, <1>2 DEF QuestionInv, CatalogStands, KeyStands, KeyIsCatalog, Ended
  <2>4. PromptStands(q)' BY <1>1, <1>2, <1>5, <2>3 DEF PromptStands
  <2>5. disturbed[q] = {} => m.key.context = ContextOf(s)
    BY <1>1 DEF QuestionInv, ContextStands
  <2>6. disturbed[q] = {} => FollowsKey(mine[q])' BY <1>2, <1>5, <2>5, PromptFollowsKey
  <2>7. ContextStands(q)' BY <1>1, <1>5, <1>7, <2>5, <2>6 DEF ContextStands, ContextOf
  <2>8. QED BY <1>7, <2>1, <2>2, <2>4, <2>7 DEF QuestionInv, ResultStands, TurnStands
<1>8. QED BY <1>1, <1>6, <1>7

LEMMA RepairKeeps ==
  ASSUME TypeOK, NEW q \in Questions, QuestionInv(q), Repair(q) PROVE QuestionInv(q)'
<1> DEFINE s == SessionOf[q]
           m == mine[q]
           answer == [m.answer EXCEPT !.turns = LastTurns(s)]
<1>1. /\ UNCHANGED <<catalog, history, update, disturbed, pc>> /\ pc[q] = "executing"
      /\ m \in Locals /\ m.answer \in Answers
  BY DEF Repair, TypeOK, Locals
<1>2. /\ answer.disturbed = m.answer.disturbed /\ answer.turns = LastTurns(s)
      /\ answer.links = m.answer.links /\ answer.glossary = m.answer.glossary
  BY <1>1 DEF Answers
<1>3. mine'[q] = [m EXCEPT !.answer = answer] BY <1>1 DEF Repair, TypeOK, Locals
<1> HIDE DEF answer
<1>4. mine'[q].answer = answer /\ mine'[q].catalog = m.catalog /\ mine'[q].key = m.key
  BY <1>1, <1>3 DEF Locals
<1>5. CatalogStands(q)' BY <1>1, <1>4 DEF QuestionInv, CatalogStands, Ended
<1>6. KeyStands(q)' BY <1>1, <1>4 DEF QuestionInv, KeyStands, KeyIsCatalog, Ended
<1>7. PromptStands(q)' BY <1>1, <1>2, <1>4 DEF QuestionInv, PromptStands
<1>8. disturbed[q] = {} => m.key.context = ContextOf(s)
  BY <1>1 DEF QuestionInv, ContextStands, Prompting
<1>9. disturbed[q] = {} => FollowsKey(mine[q])' BY <1>2, <1>4, <1>8, PromptFollowsKey
<1>10. ContextStands(q)' BY <1>1, <1>4, <1>8, <1>9 DEF ContextStands, ContextOf
<1>11. QED BY <1>1, <1>5, <1>6, <1>7, <1>10 DEF QuestionInv, ResultStands, TurnStands

LEMMA ExecuteKeeps ==
  ASSUME TypeOK, NEW q \in Questions, QuestionInv(q), SessionInv(SessionOf[q]), Execute(q)
  PROVE  QuestionInv(q)'
<1> DEFINE s == SessionOf[q]
           m == mine[q]
<1>1. /\ UNCHANGED <<db, catalog, history, update, disturbed>> /\ pc[q] = "executing"
      /\ pc'[q] \in {"done", "storing", "remembering"}
      /\ m \in Locals /\ m.answer \in Answers
  BY DEF Execute, Go, TypeOK, Locals
<1>2. CASE pc'[q] = "done" BY <1>2, EndedKeeps DEF Ended
<1>3. ASSUME NEW kind, NEW data, NEW views,
             Set(q, "answer", [m.answer EXCEPT !.kind = kind, !.data = data, !.views = views]),
             pc'[q] \in {"storing", "remembering"},
             update[s] = "idle" => data = catalog[s].data /\ views = catalog[s].links
      PROVE  QuestionInv(q)'
  <2> DEFINE answer == [m.answer EXCEPT !.kind = kind, !.data = data, !.views = views]
  <2>1. /\ answer.data = data /\ answer.views = views
        /\ answer.disturbed = m.answer.disturbed /\ answer.turns = m.answer.turns
        /\ answer.links = m.answer.links /\ answer.glossary = m.answer.glossary
    BY <1>1 DEF Answers
  <2>2. mine' = [mine EXCEPT ![q]["answer"] = answer] BY <1>3 DEF Set
  <2> HIDE DEF answer
  <2>3. mine'[q] = [m EXCEPT !.answer = answer] BY <2>2 DEF TypeOK
  <2>4. mine'[q].answer = answer /\ mine'[q].catalog = m.catalog /\ mine'[q].key = m.key
    BY <1>1, <2>3 DEF Locals
  <2>5. CatalogStands(q)' BY <1>1, <2>4 DEF QuestionInv, CatalogStands, Ended
  <2>6. KeyStands(q)' BY <1>1, <2>4 DEF QuestionInv, KeyStands, KeyIsCatalog, Ended
  <2>7. PromptStands(q)' BY <1>1, <2>1, <2>4 DEF QuestionInv, PromptStands, Prompting
  <2>8. Quiet(disturbed[q]) => data = m.key.data /\ views = m.key.links
    BY <1>1, <1>3 DEF QuestionInv, CatalogStands, KeyStands, KeyIsCatalog, Ended
  <2>9. ResultStands(q)' BY <1>1, <2>1, <2>4, <2>8 DEF ResultStands
  <2>10. TurnStands(q)' BY <1>1, <1>3, <2>1, <2>4, <2>8 DEF TurnStands
  <2>11. ContextStands(q)'
    BY <1>1, <1>3, <2>1, <2>4 DEF QuestionInv, ContextStands, ContextOf, FollowsKey, Prompting
  <2>12. QED BY <2>5, <2>6, <2>7, <2>9, <2>10, <2>11 DEF QuestionInv
<1>4. update[s] = "idle" => catalog[s].data = db[s].data /\ catalog[s].links = db[s].links
  BY DEF SessionInv
<1>5. \/ Set(q, "answer", [m.answer EXCEPT !.kind = "answer", !.data = db[s].data, !.views = db[s].links])
      \/ Set(q, "answer", [m.answer EXCEPT !.kind = "meta", !.data = catalog[s].data, !.views = catalog[s].links])
      \/ pc'[q] = "done"
  BY DEF Execute, Go, TypeOK
<1>6. QED BY <1>1, <1>2, <1>3, <1>4, <1>5

LEMMA StoreKeeps ==
  ASSUME TypeOK, QuietEntriesHonest, NEW q \in Questions, QuestionInv(q), Store(q)
  PROVE  QuestionInv(q)' /\ QuietEntriesHonest'
<1> DEFINE m == mine[q]
           answer == [m.answer EXCEPT !.disturbed = disturbed[q]]
           entry == [key |-> m.key, answer |-> answer]
<1>1. /\ UNCHANGED <<catalog, history, update, disturbed>> /\ pc[q] = "storing" /\ pc'[q] = "evicting"
      /\ m \in Locals /\ m.answer \in Answers /\ m.key \in CacheKeys /\ cache \in Seq(Entries)
      /\ disturbed[q] \in Disturbances
  BY DEF Store, Go, TypeOK, Locals
<1>2. /\ answer.disturbed = disturbed[q] /\ answer.turns = m.answer.turns
      /\ answer.data = m.answer.data /\ answer.views = m.answer.views
      /\ answer.links = m.answer.links /\ answer.glossary = m.answer.glossary
  BY <1>1 DEF Answers
<1>3. answer \in Answers BY <1>1 DEF Answers
<1>4. cache' = Stored(cache, m.key, answer) /\ mine' = [mine EXCEPT ![q]["answer"] = answer]
  BY DEF Store, Set
<1> HIDE DEF answer
<1>5. mine'[q] = [m EXCEPT !.answer = answer] BY <1>4 DEF TypeOK
<1>6. mine'[q].answer = answer /\ mine'[q].catalog = m.catalog /\ mine'[q].key = m.key
  BY <1>1, <1>5 DEF Locals
<1>7. /\ Quiet(disturbed[q]) => Honest(entry)
      /\ disturbed[q] = {} => FollowsKey(entry)
  <2>1. Quiet(disturbed[q]) =>
          /\ m.answer.data = m.key.data /\ m.answer.views = m.key.links
          /\ m.answer.links = m.key.links /\ m.answer.glossary = m.key.glossary
    BY <1>1 DEF QuestionInv, ResultStands, PromptStands, Prompting
  <2>2. disturbed[q] = {} => FollowsKey(m) BY <1>1 DEF QuestionInv, ContextStands, Prompting
  <2>3. QED BY <1>2, <2>1, <2>2 DEF Honest, FollowsKey
<1>8. QuietEntriesHonest'
  <2> SUFFICES ASSUME NEW e \in ToSet(cache')
               PROVE  /\ "operation" \notin e.answer.disturbed => Honest(e)
                      /\ e.answer.disturbed = {} => FollowsKey(e)
    BY DEF QuietEntriesHonest, Honest, FollowsKey
  <2>1. e \in ToSet(cache) \/ e = entry BY <1>1, <1>3, <1>4, StoredProperties
  <2>2. CASE e \in ToSet(cache) BY <2>2 DEF QuietEntriesHonest
  <2>3. CASE e = entry BY <1>2, <1>7, <2>3 DEF Quiet
  <2>4. QED BY <2>1, <2>2, <2>3
<1>9. CatalogStands(q)' BY <1>1, <1>6 DEF QuestionInv, CatalogStands, Ended
<1>10. KeyStands(q)' BY <1>1, <1>6 DEF QuestionInv, KeyStands, KeyIsCatalog, Ended
<1>11. TurnStands(q)' BY <1>1, <1>2, <1>6 DEF QuestionInv, ResultStands, TurnStands
<1>12. QED
  BY <1>1, <1>8, <1>9, <1>10, <1>11 DEF QuestionInv, PromptStands, ResultStands, ContextStands, Prompting

LEMMA EvictingKeeps ==
  ASSUME TypeOK, NEW q \in Questions, QuestionInv(q), CheckSize(q) \/ Pop(q) PROVE QuestionInv(q)'
<1>1. /\ UNCHANGED <<catalog, history, update, mine, disturbed>>
      /\ pc[q] \in {"evicting", "popping"} /\ pc'[q] \in {"evicting", "popping", "remembering", "raised"}
  BY DEF CheckSize, Pop, Go, TypeOK
<1>2. CASE pc'[q] = "raised" BY <1>2, EndedKeeps DEF Ended
<1>3. CASE pc'[q] # "raised"
  BY <1>1, <1>3 DEF QuestionInv, CatalogStands, KeyStands, KeyIsCatalog, PromptStands, ResultStands,
                    TurnStands, ContextStands, Prompting, Ended
<1>4. QED BY <1>2, <1>3

(* _remember: the turn of a question no operation overlapped is about the  *)
(* data the session has when it is added.                                  *)
LEMMA RememberKeepsSessions ==
  ASSUME TypeOK, NEW q \in Questions, QuestionInv(q), Remember(q),
         NEW t \in Sessions, SessionInv(t)
  PROVE  SessionInv(t)'
<1> DEFINE s == SessionOf[q]
           m == mine[q]
           turn == [sql |-> TextOf[q], data |-> m.answer.data,
                    disturbed |-> m.answer.disturbed \cup disturbed[q]]
<1>1. /\ UNCHANGED <<db, catalog, update>> /\ pc[q] = "remembering" /\ m \in Locals
      /\ s \in Sessions
  BY AnsweringAssumption DEF Remember, TypeOK, AnsweringAssumption
<1>2. CASE t # s \/ m.answer.kind # "answer"
  <2>1. history'[t] = history[t] BY <1>2 DEF Remember, TypeOK
  <2>2. QED BY <1>1, <2>1 DEF SessionInv
<1>3. CASE t = s /\ m.answer.kind = "answer"
  <2>1. history' = [history EXCEPT ![s] = Trimmed(Append(history[s], turn))] BY <1>3 DEF Remember
  <2>2. turn \in Turns
    BY <1>1 DEF TypeOK, Locals, Answers, Turns, Disturbances, Texts
  <2>3. turn.data = m.answer.data /\ turn.disturbed = m.answer.disturbed \cup disturbed[q] OBVIOUS
  <2> HIDE DEF turn
  <2>4. history'[s] = Trimmed(Append(history[s], turn)) BY <1>1, <2>1 DEF TypeOK
  <2>5. \A i \in DOMAIN history'[s] :
          history'[s][i] = turn \/ \E j \in DOMAIN history[s] : history'[s][i] = history[s][j]
    <3>1. MaxTurns \in Nat /\ history[s] \in Seq(Turns)
      BY <1>1, AnsweringAssumption DEF AnsweringAssumption, TypeOK
    <3>2. QED BY <2>2, <2>4, <3>1, TrimmedProperties
  <2>6. Quiet(turn.disturbed) => update[s] = "idle" /\ turn.data = catalog[s].data
    <3>1. Quiet(turn.disturbed) => Quiet(m.answer.disturbed) /\ Quiet(disturbed[q]) BY <2>3 DEF Quiet
    <3>2. QED
      BY <1>1, <2>3, <3>1 DEF QuestionInv, TurnStands, CatalogStands, KeyStands, KeyIsCatalog, Ended
  <2>7. update[s] \in {"idle", "relinked"} =>
          \A i \in DOMAIN history'[s] : Quiet(history'[s][i].disturbed) => history'[s][i].data = db[s].data
    <3> SUFFICES ASSUME update[s] \in {"idle", "relinked"}, NEW i \in DOMAIN history'[s],
                        Quiet(history'[s][i].disturbed)
                 PROVE  history'[s][i].data = db[s].data
      OBVIOUS
    <3>1. CASE history'[s][i] = turn BY <1>3, <2>6, <3>1 DEF SessionInv
    <3>2. ASSUME NEW j \in DOMAIN history[s], history'[s][i] = history[s][j]
          PROVE  history'[s][i].data = db[s].data
      BY <1>3, <3>2 DEF SessionInv
    <3>3. QED BY <2>5, <3>1, <3>2
  <2>8. update[s] = "cleared" => \A i \in DOMAIN history'[s] : ~Quiet(history'[s][i].disturbed)
    <3> SUFFICES ASSUME update[s] = "cleared", NEW i \in DOMAIN history'[s]
                 PROVE  ~Quiet(history'[s][i].disturbed)
      OBVIOUS
    <3>1. CASE history'[s][i] = turn BY <2>6, <3>1
    <3>2. ASSUME NEW j \in DOMAIN history[s], history'[s][i] = history[s][j]
          PROVE  ~Quiet(history'[s][i].disturbed)
      BY <1>3, <3>2 DEF SessionInv
    <3>3. QED BY <2>5, <3>1, <3>2
  <2>9. QED BY <1>1, <1>3, <2>7, <2>8 DEF SessionInv
<1>4. QED BY <1>2, <1>3

(* A step of a question keeps all of the invariant. *)
LEMMA QuestionKeeps ==
  ASSUME TypeOK, IInv, NEW q \in Questions, Begin(q) \/ Progress(q) PROVE IInv'
<1>0. SessionOf[q] \in Sessions BY AnsweringAssumption DEF AnsweringAssumption
<1>1. QuestionInv(q) /\ SessionInv(SessionOf[q]) /\ QuietEntriesHonest BY <1>0 DEF IInv
<1>2. QuestionInv(q)'
  <2>1. CASE Remember(q)
    <3>1. pc'[q] = "done" BY <2>1 DEF Remember, Go, TypeOK
    <3>2. QED BY <3>1, EndedKeeps DEF Ended
  <2>2. QED
    BY <1>1, <2>1, BeginKeeps, MakeKeyKeeps, LookUpKeeps, TouchKeeps, ReadCatalogKeeps, RepairKeeps,
       ExecuteKeeps, StoreKeeps, EvictingKeeps DEF Progress
<1>3. \A p \in Questions : QuestionInv(p)'
  <2> SUFFICES ASSUME NEW p \in Questions PROVE QuestionInv(p)' OBVIOUS
  <2>1. QuestionInv(p) BY DEF IInv
  <2>2. QED BY <1>2, <2>1, OtherQuestionsKeep
<1>4. ASSUME NEW t \in Sessions PROVE SessionInv(t)'
  <2>1. SessionInv(t) BY DEF IInv
  <2>2. CASE Remember(q) BY <1>1, <2>1, <2>2, RememberKeepsSessions
  <2>3. CASE ~Remember(q)
    <3>1. UNCHANGED <<db, catalog, history, update>>
      BY <2>3 DEF Begin, Progress, MakeKey, LookUp, Touch, ReadCatalog, Repair, Execute, Store,
                  CheckSize, Pop
    <3>2. QED BY <2>1, <3>1 DEF SessionInv
  <2>4. QED BY <2>2, <2>3
<1>5. QuietEntriesHonest'
  <2>1. CASE Store(q) BY <1>1, <2>1, StoreKeeps
  <2>2. CASE ~Store(q)
    <3>1. ToSet(cache') \subseteq ToSet(cache)
      <4>1. CASE Touch(q)
        <5>1. cache' = cache \/ (mine[q].key \in Keys(cache) /\ cache' = MovedToEnd(cache, mine[q].key))
          BY <4>1 DEF Touch
        <5>2. QED BY <5>1, MovedToEndProperties DEF TypeOK
      <4>2. CASE Pop(q)
        <5>1. cache' = cache \/ (cache # <<>> /\ cache' = Tail(cache)) BY <4>2 DEF Pop
        <5>2. QED BY <5>1, TailProperties DEF TypeOK
      <4>3. CASE ~Touch(q) /\ ~Pop(q)
        <5>1. cache' = cache
          BY <2>2, <4>3 DEF Begin, Progress, MakeKey, LookUp, ReadCatalog, Repair, Execute,
                            CheckSize, Remember
        <5>2. QED BY <5>1
      <4>4. QED BY <4>1, <4>2, <4>3
    <3>2. QED BY <1>1, <3>1 DEF QuietEntriesHonest, Honest, FollowsKey
  <2>3. QED BY <2>1, <2>2
<1>6. QED BY <1>3, <1>4, <1>5 DEF IInv

LEMMA NextIInv ==
  ASSUME TypeOK, IInv, [Next]_vars PROVE IInv'
<1>1. CASE Next BY <1>1, OperationKeeps, QuestionKeeps DEF Next
<1>2. CASE UNCHANGED vars
  <2>1. ASSUME NEW q \in Questions PROVE QuestionInv(q)'
    <3>1. QuestionInv(q) BY DEF IInv
    <3>2. QED BY <1>2, <3>1, OthersKeep DEF vars
  <2>2. ASSUME NEW s \in Sessions PROVE SessionInv(s)'
    <3>1. SessionInv(s) BY DEF IInv
    <3>2. QED BY <1>2, <3>1 DEF vars, SessionInv
  <2>3. QuietEntriesHonest' BY <1>2 DEF vars, IInv, QuietEntriesHonest
  <2>4. QED BY <2>1, <2>2, <2>3 DEF IInv
<1>3. QED BY <1>1, <1>2

THEOREM Invariance == Spec => []IInv
<1>1. Init => IInv BY InitIInv
<1>2. TypeOK /\ IInv /\ [Next]_vars => IInv' BY NextIInv
<1>3. QED BY <1>1, <1>2, TypeCorrect, PTL DEF Spec

(* Between operations the catalog, from which the fingerprint, the prompt  *)
(* and the guard are made, is the database's: add_files, set_link_status   *)
(* and set_glossary, whatever the questions do meanwhile.                  *)
THEOREM CatalogIsDatabase == Spec => []CatalogMatchesDatabase
<1>1. IInv => CatalogMatchesDatabase BY DEF IInv, SessionInv, CatalogMatchesDatabase
<1>2. QED BY <1>1, Invariance, PTL

(* The shared cache never gives a question an answer about other data,     *)
(* under other decisions or in another context than its key says, as long  *)
(* as the question that stored it was undisturbed (_cache_key, _run).      *)
THEOREM CacheIsHonest == Spec => []QuietEntriesHonest
<1>1. IInv => QuietEntriesHonest BY DEF IInv
<1>2. QED BY <1>1, Invariance, PTL

(* A session's turns are about the data it has now, but for those of       *)
(* questions an operation overlapped (_remember, history.clear).           *)
THEOREM TurnsAreCurrent == Spec => []QuietTurnsCurrent
<1>1. IInv => QuietTurnsCurrent BY DEF IInv, SessionInv, Quiet, QuietTurnsCurrent
<1>2. QED BY <1>1, Invariance, PTL

------------------------------------------------------------------------------
(* A key is in the cache once. *)
KeyOnce(c) == \A i, j \in 1..Len(c) : c[i].key = c[j].key => i = j

(* The questions whose threads are about to evict an entry. *)
Evicting == {q \in Questions : pc[q] \in {"evicting", "popping"}}

CacheInv == KeyOnce(cache) /\ Len(cache) <= CacheMax + Cardinality(Evicting)

(* Where the entries that stay stand when one is taken out. *)
LEMMA RemoveAtPlaces ==
  ASSUME NEW T, NEW s \in Seq(T), NEW i \in 1..Len(s)
  PROVE  /\ Len(RemoveAt(s, i)) = Len(s) - 1
         /\ \A k \in 1..(Len(s) - 1) : RemoveAt(s, i)[k] = s[IF k < i THEN k ELSE k + 1]
<1> DEFINE before == SubSeq(s, 1, i - 1)
           after == SubSeq(s, i + 1, Len(s))
<1>1. Len(s) \in Nat /\ DOMAIN s = 1..Len(s) OBVIOUS
<1>2. before \in Seq(T) /\ Len(before) = i - 1 /\ \A k \in 1..(i - 1) : before[k] = s[k] BY <1>1
<1>3. after \in Seq(T) /\ Len(after) = Len(s) - i /\ \A k \in 1..(Len(s) - i) : after[k] = s[i + k]
  <2>1. /\ after \in Seq(T)
        /\ Len(after) = IF i + 1 <= Len(s) THEN Len(s) - (i + 1) + 1 ELSE 0
        /\ \A k \in 1..(Len(s) - (i + 1) + 1) : after[k] = s[(i + 1) + k - 1]
    BY <1>1, SubSeqProperties
  <2> HIDE DEF after
  <2>2. Len(after) = Len(s) - i
    <3>1. Len(after) = IF i + 1 <= Len(s) THEN Len(s) - (i + 1) + 1 ELSE 0 BY <2>1
    <3>2. \A n \in Nat : \A m \in 1..n : (IF m + 1 <= n THEN n - (m + 1) + 1 ELSE 0) = n - m OBVIOUS
    <3>3. QED BY <1>1, <3>1, <3>2
  <2>3. ASSUME NEW k \in 1..(Len(s) - i) PROVE after[k] = s[i + k]
    <3>1. k \in 1..(Len(s) - (i + 1) + 1) /\ (i + 1) + k - 1 = i + k BY <1>1
    <3>2. QED BY <2>1, <3>1
  <2>4. QED BY <2>1, <2>2, <2>3
<1>4. RemoveAt(s, i) = before \o after BY DEF RemoveAt
<1> HIDE DEF before, after
<1>5. /\ Len(before \o after) = Len(before) + Len(after)
      /\ \A k \in 1..(Len(before) + Len(after)) : (before \o after)[k] =
           IF k <= Len(before) THEN before[k] ELSE after[k - Len(before)]
  BY <1>2, <1>3, ConcatProperties
<1>6. ASSUME NEW k \in 1..(Len(s) - 1) PROVE (before \o after)[k] = s[IF k < i THEN k ELSE k + 1]
  <2>1. (before \o after)[k] = IF k <= i - 1 THEN before[k] ELSE after[k - (i - 1)]
    <3>1. Len(before) + Len(after) = Len(s) - 1 BY <1>1, <1>2, <1>3
    <3>2. QED BY <1>2, <1>5, <3>1
  <2>2. CASE k < i BY <1>1, <1>2, <2>1, <2>2
  <2>3. CASE ~(k < i)
    <3>1. k - (i - 1) \in 1..(Len(s) - i) /\ ~(k <= i - 1) BY <1>1, <2>3
    <3>2. after[k - (i - 1)] = s[i + (k - (i - 1))] BY <1>3, <3>1
    <3>3. i + (k - (i - 1)) = k + 1 BY <1>1
    <3>4. QED BY <1>2, <2>1, <2>3, <3>1, <3>2, <3>3
  <2>4. QED BY <2>2, <2>3
<1>7. Len(before) + Len(after) = Len(s) - 1 BY <1>1, <1>2, <1>3
<1>8. QED BY <1>4, <1>5, <1>6, <1>7

LEMMA OnceKeys ==
  ASSUME NEW c \in Seq(Entries), KeyOnce(c)
  PROVE  Cardinality(Keys(c)) = Len(c)
<1> DEFINE f == [i \in 1..Len(c) |-> c[i].key]
<1>1. Len(c) \in Nat /\ DOMAIN c = 1..Len(c) OBVIOUS
<1>2. f \in Bijection(1..Len(c), Keys(c))
  <2>1. \A i \in 1..Len(c) : f[i] \in Keys(c) BY <1>1 DEF Keys, ToSet
  <2>2. \A k \in Keys(c) : \E i \in 1..Len(c) : f[i] = k BY <1>1 DEF Keys, ToSet
  <2>3. \A i, j \in 1..Len(c) : f[i] = f[j] => i = j BY DEF KeyOnce
  <2> HIDE DEF f
  <2>4. f \in [1..Len(c) -> Keys(c)] BY <2>1 DEF f
  <2>5. QED BY <2>2, <2>3, <2>4 DEF Bijection, Injection, Surjection, IsInjective
<1>3. ExistsBijection(1..Len(c), Keys(c)) BY <1>2 DEF ExistsBijection
<1>4. IsFiniteSet(1..Len(c)) /\ Cardinality(1..Len(c)) = Len(c) BY <1>1, FS_Interval
<1>5. QED BY <1>3, <1>4, FS_Bijection

LEMMA MovedToEndOnce ==
  ASSUME NEW c \in Seq(Entries), KeyOnce(c), NEW key \in Keys(c)
  PROVE  KeyOnce(MovedToEnd(c, key)) /\ Len(MovedToEnd(c, key)) = Len(c)
<1> DEFINE p == Place(c, key)
           rest == RemoveAt(c, p)
<1>1. p \in DOMAIN c /\ Entry(c, key) = c[p] /\ c[p] \in Entries BY EntryFound DEF Entry
<1>2. rest \in Seq(Entries) BY <1>1, RemoveAtProperties
<1>3. Len(c) \in Nat /\ p \in 1..Len(c) BY <1>1
<1>4. Len(rest) = Len(c) - 1 /\ \A k \in 1..(Len(c) - 1) : rest[k] = c[IF k < p THEN k ELSE k + 1]
  BY <1>3, RemoveAtPlaces
<1>5. MovedToEnd(c, key) = Append(rest, c[p]) BY <1>1 DEF MovedToEnd
<1> HIDE DEF rest, p
<1> DEFINE from(k) == IF k = Len(c) THEN p ELSE IF k < p THEN k ELSE k + 1
<1>6. /\ Len(Append(rest, c[p])) = Len(c)
      /\ \A k \in 1..Len(c) : Append(rest, c[p])[k] = c[from(k)] /\ from(k) \in 1..Len(c)
  BY <1>1, <1>2, <1>3, <1>4
<1>7. \A j, k \in 1..Len(c) : from(j) = from(k) => j = k BY <1>3
<1> HIDE DEF from
<1> DEFINE moved == Append(rest, c[p])
<1>8. Len(moved) = Len(c) /\ \A k \in 1..Len(c) : moved[k] = c[from(k)] /\ from(k) \in 1..Len(c) BY <1>6
<1> HIDE DEF moved
<1>9. ASSUME NEW j \in 1..Len(moved), NEW k \in 1..Len(moved), moved[j].key = moved[k].key PROVE j = k
  <2>1. from(j) \in 1..Len(c) /\ from(k) \in 1..Len(c) /\ c[from(j)].key = c[from(k)].key BY <1>8, <1>9
  <2>2. from(j) = from(k) BY <2>1 DEF KeyOnce
  <2>3. QED BY <1>7, <1>8, <2>2
<1>10. QED BY <1>5, <1>8, <1>9 DEF KeyOnce, moved

LEMMA StoredOnce ==
  ASSUME NEW c \in Seq(Entries), KeyOnce(c), NEW key \in CacheKeys, NEW answer \in Answers
  PROVE  KeyOnce(Stored(c, key, answer)) /\ Len(Stored(c, key, answer)) <= Len(c) + 1
<1> DEFINE entry == [key |-> key, answer |-> answer]
           put == [i \in DOMAIN c |-> IF c[i].key = key THEN entry ELSE c[i]]
<1>1. entry \in Entries /\ entry.key = key BY DEF Entries
<1>2. Len(c) \in Nat /\ DOMAIN c = 1..Len(c) /\ \A i \in 1..Len(c) : c[i] \in Entries OBVIOUS
<1>3. CASE key \in Keys(c)
  <2>1. Stored(c, key, answer) = put BY <1>3 DEF Stored
  <2>2. \A i \in 1..Len(c) : put[i].key = c[i].key BY <1>1, <1>2
  <2>3. Len(put) = Len(c) BY <1>2
  <2> HIDE DEF put
  <2>4. QED BY <1>2, <2>1, <2>2, <2>3 DEF KeyOnce
<1>4. CASE key \notin Keys(c)
  <2>1. Stored(c, key, answer) = Append(c, entry) BY <1>4 DEF Stored
  <2>2. \A i \in 1..Len(c) : c[i].key # key BY <1>2, <1>4 DEF Keys, ToSet
  <2> HIDE DEF entry
  <2>3. /\ Len(Append(c, entry)) = Len(c) + 1 /\ Append(c, entry)[Len(c) + 1] = entry
        /\ \A i \in 1..Len(c) : Append(c, entry)[i] = c[i]
    BY <1>1
  <2>4. \A i \in 1..(Len(c) + 1) : i \in 1..Len(c) \/ i = Len(c) + 1 BY <1>2
  <2>5. QED BY <1>1, <1>2, <2>1, <2>2, <2>3, <2>4 DEF KeyOnce
<1>5. QED BY <1>3, <1>4

LEMMA TailOnce ==
  ASSUME NEW c \in Seq(Entries), KeyOnce(c), c # <<>>
  PROVE  KeyOnce(Tail(c)) /\ Len(Tail(c)) = Len(c) - 1
<1>1. Len(Tail(c)) = Len(c) - 1 /\ \A i \in 1..Len(Tail(c)) : Tail(c)[i] = c[i + 1] /\ i + 1 \in 1..Len(c)
      /\ Len(c) \in Nat
  OBVIOUS
<1>2. QED BY <1>1 DEF KeyOnce

(* One thread enters the loop that evicts, or leaves it. *)
LEMMA EvictingIs ==
  ASSUME AnsweringAssumption
  PROVE  Cardinality(Evicting) \in Nat /\ IsFiniteSet(Evicting)
BY FS_Subset, FS_CardinalityType DEF Evicting, AnsweringAssumption

LEMMA OneMoreEvicts ==
  ASSUME AnsweringAssumption, TypeOK, NEW q \in Questions, pc[q] \notin {"evicting", "popping"}, Go(q, "evicting")
  PROVE  Cardinality(Evicting') = Cardinality(Evicting) + 1
<1>1. Evicting' = Evicting \cup {q} /\ q \notin Evicting BY DEF Evicting, Go, TypeOK
<1>2. QED BY <1>1, EvictingIs, FS_AddElement

LEMMA AsManyEvict ==
  ASSUME AnsweringAssumption, TypeOK, NEW q \in Questions, NEW stage, Go(q, stage),
         pc[q] \in {"evicting", "popping"} <=> stage \in {"evicting", "popping"}
  PROVE  Cardinality(Evicting') = Cardinality(Evicting)
<1>1. Evicting' = Evicting BY DEF Evicting, Go, TypeOK
<1>2. QED BY <1>1

LEMMA OneFewerEvicts ==
  ASSUME AnsweringAssumption, TypeOK, NEW q \in Questions, NEW stage, Go(q, stage),
         pc[q] \in {"evicting", "popping"}, stage \notin {"evicting", "popping"}
  PROVE  Cardinality(Evicting') \in Nat
<1>1. Evicting' \subseteq Evicting BY DEF Evicting, Go, TypeOK
<1>2. QED BY <1>1, EvictingIs, FS_Subset, FS_CardinalityType

LEMMA ProgressBounds ==
  ASSUME AnsweringAssumption, TypeOK, CacheInv, NEW q \in Questions, Begin(q) \/ Progress(q)
  PROVE  CacheInv'
<1>1. /\ cache \in Seq(Entries) /\ Len(cache) \in Nat /\ CacheMax \in Nat /\ Cardinality(Evicting) \in Nat
      /\ mine \in [Questions -> Locals]
  BY EvictingIs DEF TypeOK, AnsweringAssumption
<1>2. ASSUME NEW stage, Go(q, stage), stage \notin {"evicting", "popping"}, pc[q] \notin {"evicting", "popping"},
             cache' = cache
      PROVE  CacheInv'
  BY <1>2, AsManyEvict DEF CacheInv
<1>3. CASE Begin(q) BY <1>2, <1>3 DEF Begin
<1>4. CASE MakeKey(q) BY <1>2, <1>4 DEF MakeKey
<1>5. CASE LookUp(q) BY <1>2, <1>5 DEF LookUp
<1>6. CASE Touch(q)
  <2>1. CASE mine[q].key \in Keys(cache)
    <3>1. cache' = MovedToEnd(cache, mine[q].key) /\ Go(q, "remembering") /\ pc[q] = "hit" BY <1>6, <2>1 DEF Touch
    <3>2. Cardinality(Evicting') = Cardinality(Evicting) BY <3>1, AsManyEvict
    <3>3. KeyOnce(cache') /\ Len(cache') = Len(cache) BY <1>1, <2>1, <3>1, MovedToEndOnce DEF CacheInv
    <3>4. QED BY <3>2, <3>3 DEF CacheInv
  <2>2. CASE mine[q].key \notin Keys(cache) BY <1>2, <1>6, <2>2 DEF Touch
  <2>3. QED BY <2>1, <2>2
<1>7. CASE ReadCatalog(q) BY <1>2, <1>7 DEF ReadCatalog
<1>8. CASE Repair(q)
  <2>1. UNCHANGED <<cache, pc>> BY <1>8 DEF Repair
  <2>2. QED BY <2>1 DEF CacheInv, Evicting
<1>9. CASE Execute(q)
  <2>1. cache' = cache /\ pc[q] = "executing"
        /\ \E stage \in {"storing", "remembering", "done"} : Go(q, stage)
    BY <1>9 DEF Execute
  <2>2. QED BY <1>2, <2>1
<1>10. CASE Store(q)
  <2> DEFINE answer == [mine[q].answer EXCEPT !.disturbed = disturbed[q]]
  <2>1. cache' = Stored(cache, mine[q].key, answer) /\ Go(q, "evicting") /\ pc[q] = "storing" BY <1>10 DEF Store
  <2>2. mine[q].key \in CacheKeys BY <1>1 DEF Locals
  <2>3. answer \in Answers
    <3>1. mine[q].answer \in Answers /\ disturbed[q] \in Disturbances BY <1>1 DEF Locals, TypeOK
    <3>2. QED BY <3>1 DEF Answers
  <2> HIDE DEF answer
  <2>4. KeyOnce(cache') /\ Len(cache') <= Len(cache) + 1 BY <1>1, <2>1, <2>2, <2>3, StoredOnce DEF CacheInv
  <2>5. Cardinality(Evicting') = Cardinality(Evicting) + 1 BY <2>1, OneMoreEvicts
  <2>6. cache' \in Seq(Entries) BY <1>1, <2>1, <2>2, <2>3, StoredProperties
  <2>7. Len(cache') \in Nat BY <2>6
  <2>8. Len(cache) <= CacheMax + Cardinality(Evicting) BY DEF CacheInv
  <2>9. Len(cache') <= CacheMax + Cardinality(Evicting') BY <1>1, <2>4, <2>5, <2>7, <2>8
  <2>10. QED BY <2>4, <2>9 DEF CacheInv
<1>11. CASE CheckSize(q)
  <2>1. cache' = cache /\ pc[q] = "evicting" BY <1>11 DEF CheckSize
  <2>2. CASE Overfull
    <3>1. Go(q, "popping") BY <1>11, <2>2 DEF CheckSize
    <3>2. Cardinality(Evicting') = Cardinality(Evicting) BY <2>1, <3>1, AsManyEvict
    <3>3. QED BY <2>1, <3>2 DEF CacheInv
  <2>3. CASE ~Overfull
    <3>1. Go(q, "remembering") BY <1>11, <2>3 DEF CheckSize
    <3>2. Cardinality(Evicting') \in Nat BY <2>1, <3>1, OneFewerEvicts
    <3>3. Len(cache) <= CacheMax BY <1>1, <2>3 DEF Overfull
    <3>4. Len(cache) <= CacheMax + Cardinality(Evicting') BY <1>1, <3>2, <3>3
    <3>5. QED BY <2>1, <3>4 DEF CacheInv
  <2>4. QED BY <2>2, <2>3
<1>12. CASE Pop(q)
  <2>1. pc[q] = "popping" BY <1>12 DEF Pop
  <2>2. CASE cache = <<>>
    <3>1. Go(q, "raised") /\ cache' = cache BY <1>12, <2>2 DEF Pop
    <3>2. Cardinality(Evicting') \in Nat BY <2>1, <3>1, OneFewerEvicts
    <3>3. QED BY <1>1, <2>2, <3>1, <3>2 DEF CacheInv
  <2>3. CASE cache # <<>>
    <3>1. Go(q, "evicting") /\ cache' = Tail(cache) BY <1>12, <2>3 DEF Pop
    <3>2. Cardinality(Evicting') = Cardinality(Evicting) BY <2>1, <3>1, AsManyEvict
    <3>3. KeyOnce(cache') /\ Len(cache') = Len(cache) - 1 BY <1>1, <2>3, <3>1, TailOnce DEF CacheInv
    <3>4. QED BY <1>1, <3>2, <3>3 DEF CacheInv
  <2>4. QED BY <2>2, <2>3
<1>13. CASE Remember(q) BY <1>2, <1>13 DEF Remember
<1>14. QED
  BY <1>3, <1>4, <1>5, <1>6, <1>7, <1>8, <1>9, <1>10, <1>11, <1>12, <1>13 DEF Progress

(* "while len(_SHARED_CACHE) > _SHARED_CACHE_MAX: popitem(last=False)": the    *)
(* size is tested and the entry popped without a lock, and yet the cache is    *)
(* over its size by no more than the threads that are about to evict, and a    *)
(* key is in it once (pipeline.answer).                                        *)
THEOREM CacheStaysBounded == Spec => []CacheBounded
<1>1. Init => CacheInv
  <2> SUFFICES ASSUME Init PROVE CacheInv OBVIOUS
  <2>1. cache = <<>> /\ Len(<<>>) = 0 BY DEF Init
  <2>2. QED BY <2>1, AnsweringAssumption, EvictingIs DEF CacheInv, KeyOnce, AnsweringAssumption
<1>2. TypeOK /\ CacheInv /\ [Next]_vars => CacheInv'
  <2> SUFFICES ASSUME TypeOK, CacheInv, [Next]_vars PROVE CacheInv' OBVIOUS
  <2>1. ASSUME NEW q \in Questions, Begin(q) \/ Progress(q) PROVE CacheInv'
    BY <2>1, AnsweringAssumption, ProgressBounds
  <2>2. CASE UNCHANGED <<cache, pc>> BY <2>2 DEF CacheInv, Evicting
  <2>3. QED
    BY <2>1, <2>2 DEF Next, vars, CommitFiles, ClearHistory, Publish, CommitLinks, SetGlossary
<1>3. TypeOK /\ CacheInv => CacheBounded
  <2> SUFFICES ASSUME TypeOK, CacheInv PROVE CacheBounded OBVIOUS
  <2>1. Cardinality(Keys(cache)) = Len(cache) BY OnceKeys DEF TypeOK, CacheInv
  <2>2. QED BY <2>1 DEF CacheInv, CacheBounded, Evicting
<1>4. QED BY <1>1, <1>2, <1>3, TypeCorrect, PTL DEF Spec

=============================================================================
