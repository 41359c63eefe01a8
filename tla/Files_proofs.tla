----------------------------- MODULE Files_proofs -----------------------------
(* Proofs about modules Uploads and Workbook: for any uploads, sessions,      *)
(* files and contents, whatever is closed, killed or decided meanwhile.       *)
EXTENDS Uploads, Workbook, FiniteSetTheorems, TLAPS

------------------------------------------------------------------------------
(* Uploads: the reading slot and the raw files.                               *)

Places == {"new", "saving", "waiting", "reading", "cleanup", "done"}

UploadTypes ==
  /\ slotFree \in BOOLEAN
  /\ pc \in [Uploaders -> Places]
  /\ at \in [Uploaders -> Nat]
  /\ disk \subseteq Uploaders \X Nat

(* The sample of the demo is read from the repository: it saves nothing.      *)
SampleSavesNothing ==
  /\ \A u \in Uploaders : pc[u] = "saving" => ~IsSample(u)
  /\ \A f \in disk : ~IsSample(f[1])

IInv == UploadTypes /\ OneReader /\ SampleSavesNothing /\ RawFilesAreUnderway

LEMMA InitIInv == Init => IInv
BY UploadsAssumption DEF Init, IInv, UploadTypes, Places, OneReader, Readers, SampleSavesNothing, RawFilesAreUnderway

(* Uploads that neither start nor stop reading leave the slot to its reader.  *)
LEMMA ReadersLeftAlone ==
  ASSUME OneReader, slotFree' = slotFree, Readers' = Readers
  PROVE  OneReader'
BY DEF OneReader

(* A reader that leaves was the only one.                                     *)
LEMMA ReaderLeaves ==
  ASSUME UploadTypes, OneReader, NEW u \in Uploaders, pc[u] = "reading",
         slotFree' = TRUE, pc' = [pc EXCEPT ![u] = "cleanup"]
  PROVE  OneReader'
<1>1. Readers = {u} BY DEF OneReader, Readers
<1>2. Readers' = {} BY <1>1 DEF Readers, UploadTypes
<1>3. QED BY <1>2 DEF OneReader

(* An upload whose raw files are where they were keeps them underway.         *)
LEMMA FilesLeftAlone ==
  ASSUME IInv, disk' \subseteq disk, orphans' = orphans, Underway \subseteq Underway'
  PROVE  RawFilesAreUnderway'
BY DEF IInv, RawFilesAreUnderway

(* One step of one request.                                                   *)
LEMMA StepIInv ==
  ASSUME IInv, NEW u \in Uploaders, Step(u)
  PROVE  IInv'
<1> USE DEF IInv, UploadTypes, Places, Answer
<1>1. CASE Arrive(u)
  <2>1. Readers' = Readers BY <1>1 DEF Arrive, Goto, Readers
  <2>2. OneReader' BY <1>1, <2>1, ReadersLeftAlone DEF Arrive
  <2>3. Underway \subseteq Underway' BY <1>1 DEF Arrive, Goto, Underway
  <2>4. RawFilesAreUnderway' BY <1>1, <2>3, FilesLeftAlone DEF Arrive
  <2>5. SampleSavesNothing' BY <1>1 DEF Arrive, Goto, SampleSavesNothing, IsSample
  <2>6. QED BY <1>1, <2>2, <2>4, <2>5 DEF Arrive, Goto
<1>2. CASE Save(u)
  <2>1. Readers' = Readers BY <1>2 DEF Save, Onward, Goto, Readers
  <2>2. OneReader' BY <1>2, <2>1, ReadersLeftAlone DEF Save
  <2>3. Underway \subseteq Underway' /\ u \in Underway' BY <1>2 DEF Save, Onward, Goto, Underway
  <2>4. disk' \subseteq disk \cup {<<u, at[u]>>} /\ orphans' = orphans BY <1>2 DEF Save
  <2>5. RawFilesAreUnderway' BY <2>3, <2>4 DEF RawFilesAreUnderway
  <2>a. /\ pc[u] = "saving" /\ slotFree' = slotFree
        /\ \/ disk' = disk \cup {<<u, at[u]>>} /\ Onward(u)
           \/ Goto(u, "cleanup") /\ disk' = disk /\ at' = at
    BY <1>2 DEF Save
  <2>b. /\ pc' \in [Uploaders -> Places] /\ at' \in [Uploaders -> Nat]
        /\ \A v \in Uploaders : pc'[v] = "saving" => pc[v] = "saving"
    BY <2>a DEF Onward, Goto
  <2>c. at[u] \in Nat /\ ~IsSample(u) BY <2>a DEF SampleSavesNothing
  <2>6. SampleSavesNothing' BY <2>a, <2>b, <2>c DEF SampleSavesNothing, IsSample
  <2>7. UploadTypes' BY <2>a, <2>b, <2>c
  <2>8. QED BY <2>2, <2>5, <2>6, <2>7
<1>3. CASE TooLarge(u)
  <2>1. Readers' = Readers BY <1>3 DEF TooLarge, Goto, Readers
  <2>2. OneReader' BY <1>3, <2>1, ReadersLeftAlone DEF TooLarge
  <2>3. Underway \subseteq Underway' BY <1>3 DEF TooLarge, Goto, Underway
  <2>4. RawFilesAreUnderway' BY <1>3, <2>3, FilesLeftAlone DEF TooLarge
  <2>5. SampleSavesNothing' BY <1>3 DEF TooLarge, Goto, SampleSavesNothing, IsSample
  <2>6. QED BY <1>3, <2>2, <2>4, <2>5 DEF TooLarge, Goto
<1>4. CASE TakeSlot(u)
  <2>1. Readers = {} BY <1>4 DEF TakeSlot, OneReader
  <2>2. Readers' = {u} BY <1>4, <2>1 DEF TakeSlot, Goto, Readers
  <2>3. OneReader' BY <1>4, <2>2 DEF TakeSlot, OneReader
  <2>4. Underway \subseteq Underway' BY <1>4 DEF TakeSlot, Goto, Underway
  <2>5. RawFilesAreUnderway' BY <1>4, <2>4, FilesLeftAlone DEF TakeSlot
  <2>6. SampleSavesNothing' BY <1>4 DEF TakeSlot, Goto, SampleSavesNothing, IsSample
  <2>7. QED BY <1>4, <2>3, <2>5, <2>6 DEF TakeSlot, Goto
<1>5. CASE GiveUp(u)
  <2>1. Readers' = Readers BY <1>5 DEF GiveUp, Goto, Readers
  <2>2. OneReader' BY <1>5, <2>1, ReadersLeftAlone DEF GiveUp, SlotAfterRefusal
  <2>3. Underway \subseteq Underway' BY <1>5 DEF GiveUp, Goto, Underway
  <2>4. RawFilesAreUnderway' BY <1>5, <2>3, FilesLeftAlone DEF GiveUp
  <2>5. SampleSavesNothing' BY <1>5 DEF GiveUp, Goto, SampleSavesNothing, IsSample
  <2>6. QED BY <1>5, <2>2, <2>4, <2>5 DEF GiveUp, Goto, SlotAfterRefusal
<1>6. CASE Read(u)
  <2>1. CASE UNCHANGED <<slotFree, pc, outcome>>
    <3>1. OneReader' BY <2>1, ReadersLeftAlone DEF Readers
    <3>2. RawFilesAreUnderway' BY <1>6, <2>1, FilesLeftAlone DEF Read, Underway
    <3>3. SampleSavesNothing' BY <1>6, <2>1 DEF Read, SampleSavesNothing, IsSample
    <3>4. at' \in [Uploaders -> Nat] BY <1>6, <2>1 DEF Read, Leave, Goto
    <3>5. QED BY <1>6, <2>1, <3>1, <3>2, <3>3, <3>4 DEF Read
  <2>2. CASE Leave(u, "bad file") /\ UNCHANGED at
    <3>1. OneReader' BY <1>6, <2>2, ReaderLeaves DEF Read, Leave, Goto
    <3>2. Underway \subseteq Underway' BY <2>2 DEF Leave, Goto, Underway
    <3>3. RawFilesAreUnderway' BY <1>6, <3>2, FilesLeftAlone DEF Read
    <3>4. SampleSavesNothing' BY <1>6, <2>2 DEF Read, Leave, Goto, SampleSavesNothing, IsSample
    <3>5. QED BY <1>6, <2>2, <3>1, <3>3, <3>4 DEF Read, Leave, Goto
  <2>3. QED BY <1>6, <2>1, <2>2 DEF Read
<1>7. CASE ReadMissing(u)
  <2>1. OneReader' BY <1>7, ReaderLeaves DEF ReadMissing, Leave, Goto
  <2>2. Underway \subseteq Underway' BY <1>7 DEF ReadMissing, Leave, Goto, Underway
  <2>3. RawFilesAreUnderway' BY <1>7, <2>2, FilesLeftAlone DEF ReadMissing
  <2>4. SampleSavesNothing' BY <1>7 DEF ReadMissing, Leave, Goto, SampleSavesNothing, IsSample
  <2>5. QED BY <1>7, <2>1, <2>3, <2>4 DEF ReadMissing, Leave, Goto
<1>8. CASE Load(u)
  <2>1. OneReader' BY <1>8, ReaderLeaves DEF Load, Leave, Goto
  <2>2. Underway \subseteq Underway' BY <1>8 DEF Load, Leave, Goto, Underway
  <2>3. RawFilesAreUnderway' BY <1>8, <2>2, FilesLeftAlone DEF Load
  <2>4. SampleSavesNothing' BY <1>8 DEF Load, Leave, Goto, SampleSavesNothing, IsSample
  <2>5. QED BY <1>8, <2>1, <2>3, <2>4 DEF Load, Leave, Goto
<1>9. CASE Cleanup(u)
  <2>1. Readers' = Readers BY <1>9 DEF Cleanup, Goto, Readers
  <2>2. OneReader' BY <1>9, <2>1, ReadersLeftAlone DEF Cleanup
  <2>3. \A f \in disk' : f \in disk /\ f[1] # u
    BY <1>9 DEF Cleanup, Removed, FilesOf, SampleSavesNothing
  <2>4. Underway \ {u} \subseteq Underway' BY <1>9 DEF Cleanup, Goto, Underway
  <2>5. RawFilesAreUnderway' BY <1>9, <2>3, <2>4 DEF Cleanup, RawFilesAreUnderway
  <2>6. SampleSavesNothing' BY <1>9, <2>3 DEF Cleanup, Goto, SampleSavesNothing, IsSample
  <2>7. QED BY <1>9, <2>2, <2>3, <2>5, <2>6 DEF Cleanup, Goto
<1>10. QED BY <1>1, <1>2, <1>3, <1>4, <1>5, <1>6, <1>7, <1>8, <1>9 DEF Step

LEMMA NextIInv == IInv /\ [Next]_vars => IInv'
<1> SUFFICES ASSUME IInv, [Next]_vars PROVE IInv' OBVIOUS
<1> USE DEF IInv, UploadTypes, Places
<1>1. CASE \E u \in Uploaders : Step(u) BY <1>1, StepIInv
<1>2. ASSUME NEW s \in Sessions, Close(s) PROVE IInv'
  <2>1. OneReader' BY <1>2, ReadersLeftAlone DEF Close, Readers
  <2>2. disk' \subseteq disk BY <1>2 DEF Close
  <2>3. RawFilesAreUnderway' BY <1>2, <2>2, FilesLeftAlone DEF Close, Underway
  <2>4. SampleSavesNothing' BY <1>2, <2>2 DEF Close, SampleSavesNothing, IsSample
  <2>5. QED BY <1>2, <2>1, <2>2, <2>3, <2>4 DEF Close
<1>3. CASE Second
  BY <1>3 DEF Second, OneReader, Readers, SampleSavesNothing, IsSample, RawFilesAreUnderway, Underway
<1>4. CASE Crash
  <2>1. Readers' = {} /\ slotFree' = TRUE BY <1>4 DEF Crash, Readers, Underway
  <2>2. OneReader' BY <2>1 DEF OneReader
  <2>3. RawFilesAreUnderway' BY <1>4 DEF Crash, RawFilesAreUnderway
  <2>4. SampleSavesNothing' BY <1>4 DEF Crash, SampleSavesNothing, IsSample, Underway
  <2>5. pc' \in [Uploaders -> Places] BY <1>4 DEF Crash
  <2>6. QED BY <1>4, <2>2, <2>3, <2>4, <2>5 DEF Crash
<1>5. CASE UNCHANGED vars
  BY <1>5 DEF vars, OneReader, Readers, SampleSavesNothing, IsSample, RawFilesAreUnderway, Underway
<1>6. QED BY <1>1, <1>2, <1>3, <1>4, <1>5 DEF Next

(* Limits.ingest: one file is read at a time in the whole process, and the    *)
(* slot is free exactly when nobody reads, however readers end, wait or are   *)
(* refused.                                                                   *)
THEOREM ReadersTakeTurns == Spec => []OneReader
<1>1. IInv => OneReader BY DEF IInv
<1>2. QED BY InitIInv, NextIInv, <1>1, PTL DEF Spec

(* upload_files' finally: a raw file on the disk belongs to an upload that is *)
(* underway, or was left by a process that was killed.                        *)
THEOREM NoRawFileOutlivesItsUpload == Spec => []RawFilesAreUnderway
<1>1. IInv => RawFilesAreUnderway BY DEF IInv
<1>2. QED BY InitIInv, NextIInv, <1>1, PTL DEF Spec

------------------------------------------------------------------------------
(* Workbook: what link detection makes of what there was before.              *)
Before(existing, id) == {r \in Remembered(existing) : r.id = id}
Guesses == {"active", "suggested"}

LEMMA DetectedLink ==
  ASSUME NEW tables, NEW existing, NEW us, NEW link \in DetectLinks(tables, existing, us)
  PROVE  LET before == Before(existing, link.id)
         IN  /\ link = [id |-> link.id, status |-> link.status]
             /\ link.id \subseteq {t.name : t \in Linkable(tables, us)}
             /\ before = {} => link.status \in Guesses
             /\ before # {} => link.status = (CHOOSE r \in before : TRUE).status
<1> DEFINE seen == Linkable(tables, us)
           pairs == {{p[1], p[2]} : p \in {q \in seen \X seen :
                       q[1].schema # q[2].schema /\ Overlaps(q[1], q[2], 1, 2)}}
           Id(p) == {t.name : t \in p}
           Guess(p) == LET l == CHOOSE x \in p : TRUE
                           r == CHOOSE x \in p : x # l
                       IN  Automatic(l, r)
           Status(p) == LET before == {r \in Remembered(existing) : r.id = Id(p)}
                        IN  IF before = {} THEN Guess(p) ELSE (CHOOSE r \in before : TRUE).status
           found == {[ends |-> p, status |-> Status(p)] : p \in pairs}
           ThroughMaster(f) ==
             /\ \A t \in f.ends : ~t.unique
             /\ \E m \in UNION pairs : \A t \in f.ends : m \in Masters(t, found)
           kept == {f \in found : f.status # Guess(f.ends) \/ ~ThroughMaster(f)}
<1>1. link \in {[id |-> Id(f.ends), status |-> f.status] : f \in kept} BY DEF DetectLinks
<1>2. kept \subseteq found OBVIOUS
<1> HIDE DEF kept
<1>3. PICK f \in found : link = [id |-> Id(f.ends), status |-> f.status] BY <1>1, <1>2
<1>4. PICK p \in pairs : f = [ends |-> p, status |-> Status(p)] OBVIOUS
<1>5. p \subseteq seen OBVIOUS
<1>6. Guess(p) \in Guesses BY DEF Automatic, Guesses
<1> HIDE DEF pairs, Guess, seen
<1>7. link.id = Id(p) /\ link.status = Status(p) BY <1>3, <1>4
<1>8. QED BY <1>3, <1>5, <1>6, <1>7 DEF Before, seen

(* Two links of one name agree, unless both are guesses; what the user        *)
(* decided is one of two things.                                              *)
LinksAgree ==
  /\ \A r \in links : r = [id |-> r.id, status |-> r.status]
  /\ \A r, s \in links : r.id = s.id => r.status = s.status \/ {r.status, s.status} \subseteq Guesses
DecisionsAre == \A id \in DOMAIN decided : decided[id] \in {"active", "rejected"}

BookInv == LinksStand /\ LinksAgree /\ DecisionsAre

LEMMA RebuiltLinks ==
  ASSUME NEW tables, NEW existing, NEW was, Rebuild(tables, existing, was)
  PROVE  LinksStand' /\ LinksAgree'
<1>1. base' = tables /\ links' = DetectLinks(tables, existing, unions') BY DEF Rebuild
<1>2. LinksStand'
  <2> SUFFICES ASSUME NEW r \in links', NEW n \in r.id
               PROVE  n \in (Names(base') \ Hidden(unions')) \cup ActiveViews(unions')
    BY DEF LinksStand
  <2>1. r \in DetectLinks(base', existing, unions') BY <1>1
  <2>2. r.id \subseteq {t.name : t \in Linkable(base', unions')} BY <2>1, DetectedLink
  <2>3. PICK t \in Linkable(base', unions') : n = t.name BY <2>2
  <2>4. CASE t \in {Seen(x) : x \in {y \in ToSet(base') : y.name \notin Hidden(unions')}}
    BY <2>3, <2>4 DEF Seen, Names
  <2>5. CASE t \in {SeenView(u, base') : u \in {v \in ToSet(unions') : v.status = "active"}}
    BY <2>3, <2>5 DEF SeenView, ActiveViews
  <2>6. QED BY <2>4, <2>5 DEF Linkable
<1>3. LinksAgree'
  <2>1. ASSUME NEW r \in links' PROVE r = [id |-> r.id, status |-> r.status] BY <1>1, DetectedLink
  <2>2. ASSUME NEW r \in links', NEW s \in links', r.id = s.id
        PROVE  r.status = s.status \/ {r.status, s.status} \subseteq Guesses
    <3>1. CASE Before(existing, r.id) = {} BY <1>1, <2>2, <3>1, DetectedLink
    <3>2. CASE Before(existing, r.id) # {} BY <1>1, <2>2, <3>2, DetectedLink
    <3>3. QED BY <3>1, <3>2
  <2>3. QED BY <2>1, <2>2 DEF LinksAgree
<1>4. QED BY <1>2, <1>3

Decides(id, status) ==
  /\ Rebuild(base, {IF r.id = id THEN [r EXCEPT !.status = status] ELSE r : r \in links}, unions)
  /\ decided' = [i \in DOMAIN decided \cup {id} |-> IF i = id THEN status ELSE decided[i]]
Rebuilds(tables, was) == Rebuild(tables, links, was) /\ UNCHANGED decided

LEMMA BookStep ==
  ASSUME BookNext
  PROVE  \/ \E tables, was : Rebuilds(tables, was)
         \/ \E id, status : status \in {"active", "rejected"} /\ Decides(id, status)
<1>1. CASE \E batch \in Batches : AddFiles(batch)
  <2>1. PICK batch \in Batches : AddFiles(batch) BY <1>1
  <2>2. \E tables : Rebuilds(tables, unions) BY <2>1 DEF AddFiles, Rebuilds
  <2>3. QED BY <2>2
<1>2. CASE \E status \in {"active", "rejected"}, r \in links : SetLinkStatus(r.id, status)
  <2>1. PICK status \in {"active", "rejected"}, r \in links : SetLinkStatus(r.id, status) BY <1>2
  <2>2. Decides(r.id, status) BY <2>1 DEF SetLinkStatus, Decides
  <2>3. QED BY <2>2
<1>3. CASE \E status \in {"active", "rejected"}, u \in ToSet(unions) : SetUnionStatus(u.id, status)
  <2>1. PICK status \in {"active", "rejected"}, u \in ToSet(unions) : SetUnionStatus(u.id, status) BY <1>3
  <2>2. \E was : Rebuilds(base, was) BY <2>1 DEF SetUnionStatus, Rebuilds
  <2>3. QED BY <2>2
<1>4. QED BY <1>1, <1>2, <1>3 DEF BookNext

LEMMA NextBookInv == BookInv /\ [BookNext]_bookVars => BookInv'
<1> SUFFICES ASSUME BookInv, [BookNext]_bookVars PROVE BookInv' OBVIOUS
<1>1. CASE UNCHANGED bookVars
  BY <1>1 DEF bookVars, BookInv, LinksStand, LinksAgree, DecisionsAre
<1>2. CASE BookNext
  <2>1. \E tables, existing, was : Rebuild(tables, existing, was) BY <1>2, BookStep DEF Rebuilds, Decides
  <2>2. LinksStand' /\ LinksAgree' BY <2>1, RebuiltLinks
  <2>3. DecisionsAre' BY <1>2, BookStep DEF BookInv, DecisionsAre, Rebuilds, Decides
  <2>4. QED BY <2>2, <2>3 DEF BookInv
<1>3. QED BY <1>1, <1>2

(* Links stand, agree with each other and were decided one way or the other.  *)
THEOREM BookInvariance == BookSpec => []BookInv
<1>1. BookInit => BookInv BY DEF BookInit, BookInv, LinksStand, LinksAgree, DecisionsAre
<1>2. QED BY <1>1, NextBookInv, PTL DEF BookSpec

(* A link joins two things the catalog has, and never one file of a dataset   *)
(* that is stacked in a view (detect_relationships over linkable_tables).     *)
THEOREM LinksJoinWhatStands == BookSpec => []LinksStand
<1>1. BookInv => LinksStand BY DEF BookInv
<1>2. QED BY <1>1, BookInvariance, PTL

(* No upload and no other decision changes what the user decided on a link,   *)
(* as long as the link stays (Remembered, and set_link_status).               *)
THEOREM DecisionsStand == BookSpec => DecisionsKept
<1>1. ASSUME BookInv, BookNext, NEW r \in links, NEW s \in links',
             r.id = s.id, r.id \in DOMAIN decided, r.status = decided[r.id]
      PROVE  s.status = decided'[r.id]
  <2>1. r.status \in {"active", "rejected"} /\ LinksAgree BY <1>1 DEF BookInv, DecisionsAre
  <2>3. CASE \E tables, was : Rebuilds(tables, was)
    <3>1. PICK tables, was : Rebuild(tables, links, was) /\ UNCHANGED decided BY <2>3 DEF Rebuilds
    <3> DEFINE before == Before(links, s.id)
    <3>2. s \in DetectLinks(tables, links, unions') BY <3>1 DEF Rebuild
    <3>3. r \in before BY <1>1, <2>1 DEF Before, Remembered
    <3>4. PICK c \in before : c = CHOOSE x \in before : TRUE BY <3>3
    <3>5. s.status = c.status BY <3>2, <3>3, <3>4, DetectedLink
    <3>6. c \in links /\ c.id = r.id /\ c.status \in {"active", "rejected"} BY <1>1, <3>4 DEF Before, Remembered
    <3>7. c.status = r.status BY <2>1, <3>6 DEF LinksAgree, Guesses
    <3>8. QED BY <1>1, <3>1, <3>5, <3>7
  <2>4. CASE \E id, status : status \in {"active", "rejected"} /\ Decides(id, status)
    <3>1. PICK id, status :
               /\ status \in {"active", "rejected"}
               /\ Rebuild(base, {IF x.id = id THEN [x EXCEPT !.status = status] ELSE x : x \in links}, unions)
               /\ decided' = [i \in DOMAIN decided \cup {id} |-> IF i = id THEN status ELSE decided[i]]
      BY <2>4 DEF Decides
    <3> PICK existing : existing = {IF x.id = id THEN [x EXCEPT !.status = status] ELSE x : x \in links} OBVIOUS
    <3> DEFINE before == Before(existing, s.id)
    <3>2. s \in DetectLinks(base, existing, unions') BY <3>1 DEF Rebuild
    <3>3. \A x \in links : [x EXCEPT !.status = status] = [id |-> x.id, status |-> status]
      BY <2>1 DEF LinksAgree
    <3>4. PICK mine \in existing : mine = IF r.id = id THEN [r EXCEPT !.status = status] ELSE r BY <1>1
    <3>5. mine \in before BY <1>1, <2>1, <3>1, <3>3, <3>4 DEF Before, Remembered
    <3>6. PICK c \in before : c = CHOOSE x \in before : TRUE BY <3>5
    <3>7. s.status = c.status BY <3>2, <3>5, <3>6, DetectedLink
    <3>8. c \in existing /\ c.id = r.id /\ c.status \in {"active", "rejected"} BY <1>1, <3>6 DEF Before, Remembered
    <3>9. PICK x \in links : c = IF x.id = id THEN [x EXCEPT !.status = status] ELSE x BY <3>8
    <3>10. c.status = IF r.id = id THEN status ELSE r.status
      <4>1. x.id = r.id BY <3>3, <3>8, <3>9
      <4>2. QED BY <1>1, <2>1, <3>3, <3>8, <3>9, <4>1 DEF LinksAgree, Guesses
    <3>11. QED BY <1>1, <3>1, <3>7, <3>10
  <2>5. QED BY <1>1, <2>3, <2>4, BookStep
<1>2. BookInv /\ [BookNext]_bookVars =>
        [\A r \in links, s \in links' :
           r.id = s.id /\ r.id \in DOMAIN decided /\ r.status = decided[r.id]
             => s.status = decided'[r.id]]_bookVars
  BY <1>1
<1>3. QED BY <1>2, BookInvariance, PTL DEF BookSpec, DecisionsKept

------------------------------------------------------------------------------
(* The combined views and the database.  First, what a recursion over the     *)
(* positions of a list does.                                                  *)

(* Every set of natural numbers has a least one.                              *)
LEMMA Least ==
  ASSUME NEW T, T \subseteq Nat, T # {}
  PROVE  \E m \in T : \A k \in T : m <= k
<1>1. IsWellFoundedOn(OpToRel(<, Nat), Nat) BY NatLessThanWellFounded
<1>2. PICK m \in T : \A k \in T : ~(<<k, m>> \in OpToRel(<, Nat)) BY <1>1, WFMin
<1>3. \A k \in T : ~(k < m) BY <1>2 DEF OpToRel
<1>4. QED BY <1>3

(* What holds before the first member of a list, and after each member if it  *)
(* held before it, holds throughout.                                          *)
LEMMA Throughout ==
  ASSUME NEW n \in Nat, NEW G, 0 \in G, \A i \in 1..n : i - 1 \in G => i \in G
  PROVE  \A i \in 0..n : i \in G
<1> DEFINE Out == {i \in 0..n : i \notin G}
<1> SUFFICES ASSUME Out # {} PROVE FALSE OBVIOUS
<1>1. Out \subseteq Nat OBVIOUS
<1>2. PICK m \in Out : \A k \in Out : m <= k BY <1>1, Least
<1>3. m # 0 /\ m - 1 \in 0..n /\ m \in 1..n OBVIOUS
<1>4. m - 1 \in G BY <1>2, <1>3
<1>5. QED BY <1>3, <1>4

(* A recursion over the positions of a list has a result at each.             *)
Follows(g, A, b, n, F) == g \in [0..n -> A] /\ g[0] = b /\ \A i \in 1..n : g[i] = F[i][g[i - 1]]

LEMMA Recursion ==
  ASSUME NEW A, NEW b \in A, NEW n \in Nat, NEW F \in [1..n -> [A -> A]]
  PROVE  \E g : Follows(g, A, b, n, F)
<1> DEFINE Run(g, m) == g = [i \in 0..m |-> IF i = 0 THEN b ELSE F[i][g[i - 1]]]
           G == {m \in 0..n : \E g \in [0..m -> A] : Run(g, m)}
<1>1. 0 \in G
  <2> DEFINE g == [i \in 0..0 |-> b]
  <2>1. g \in [0..0 -> A] /\ g = [i \in 0..0 |-> IF i = 0 THEN b ELSE F[i][g[i - 1]]] OBVIOUS
  <2> HIDE DEF g
  <2>2. 0 \in 0..n OBVIOUS
  <2>3. QED BY <2>1, <2>2
<1>2. ASSUME NEW m \in 1..n, m - 1 \in G PROVE m \in G
  <2>1. PICK h \in [0..(m - 1) -> A] : Run(h, m - 1) BY <1>2
  <2> DEFINE g == [i \in 0..m |-> IF i = m THEN F[m][h[m - 1]] ELSE h[i]]
  <2>2. m - 1 \in 0..(m - 1) /\ m # 0 OBVIOUS
  <2>3. F[m][h[m - 1]] \in A BY <2>2
  <2>4. \A i \in 0..m : i # m => i \in 0..(m - 1) OBVIOUS
  <2>5. g \in [0..m -> A] BY <2>3, <2>4
  <2>6. ASSUME NEW i \in 0..m PROVE g[i] = IF i = 0 THEN b ELSE F[i][g[i - 1]]
    <3>1. CASE i = m
      <4>1. m - 1 \in 0..m /\ m - 1 # m OBVIOUS
      <4>2. g[m - 1] = h[m - 1] BY <4>1
      <4>3. QED BY <2>2, <3>1, <4>2
    <3>2. CASE i # m
      <4>1. i \in 0..(m - 1) /\ g[i] = h[i] BY <3>2
      <4>2. h[i] = IF i = 0 THEN b ELSE F[i][h[i - 1]] BY <2>1, <4>1
      <4>3. i # 0 => i - 1 \in 0..m /\ i - 1 # m BY <4>1
      <4>4. i # 0 => g[i - 1] = h[i - 1] BY <4>3
      <4>5. QED BY <4>1, <4>2, <4>4
    <3>3. QED BY <3>1, <3>2
  <2> HIDE DEF g
  <2>7. g = [i \in 0..m |-> g[i]] BY <2>5
  <2>8. Run(g, m) BY <2>6, <2>7
  <2>9. m \in 0..n OBVIOUS
  <2>10. QED BY <2>5, <2>8, <2>9
<1> HIDE DEF G
<1>3. \A i \in 0..n : i \in G BY <1>1, <1>2, Throughout
<1>4. n \in G BY <1>3
<1>5. PICK g \in [0..n -> A] : Run(g, n) BY <1>4 DEF G
<1>6. g[0] = b /\ \A i \in 1..n : g[i] = F[i][g[i - 1]] BY <1>5
<1>7. QED BY <1>6 DEF Follows

------------------------------------------------------------------------------
(* Lists.                                                                     *)
LEMMA InList ==
  ASSUME NEW T, NEW s \in Seq(T)
  PROVE  /\ Len(s) \in Nat /\ DOMAIN s = 1..Len(s) /\ \A i \in 1..Len(s) : s[i] \in T
         /\ \A x : x \in ToSet(s) <=> \E i \in 1..Len(s) : s[i] = x
         /\ ToSet(s) \subseteq T
         /\ IsFiniteSet(ToSet(s))
<1>1. Len(s) \in Nat /\ DOMAIN s = 1..Len(s) /\ \A i \in 1..Len(s) : s[i] \in T OBVIOUS
<1>2. \A x : x \in ToSet(s) <=> \E i \in 1..Len(s) : s[i] = x BY <1>1 DEF ToSet
<1>3. IsFiniteSet(1..Len(s)) BY <1>1, FS_Interval
<1>4. IsFiniteSet(ToSet(s))
  <2> DEFINE f == [i \in 1..Len(s) |-> s[i]]
  <2>1. f \in Surjection(1..Len(s), ToSet(s)) BY <1>2 DEF Surjection
  <2>2. QED BY <1>3, <2>1, FS_Surjection
<1>5. QED BY <1>1, <1>2, <1>4

LEMMA Appended ==
  ASSUME NEW T, NEW s \in Seq(T), NEW x \in T
  PROVE  Append(s, x) \in Seq(T) /\ ToSet(Append(s, x)) = ToSet(s) \cup {x} /\ Len(Append(s, x)) = Len(s) + 1
<1>1. /\ Append(s, x) \in Seq(T) /\ Len(Append(s, x)) = Len(s) + 1 /\ Len(s) \in Nat
      /\ Append(s, x)[Len(s) + 1] = x
      /\ \A i \in 1..Len(s) : Append(s, x)[i] = s[i]
  OBVIOUS
<1>a. PICK t : t = Append(s, x) OBVIOUS
<1>b. t \in Seq(T) /\ Len(t) = Len(s) + 1 BY <1>1, <1>a
<1>2. \A y : y \in ToSet(t) <=> \E i \in 1..(Len(s) + 1) : t[i] = y BY <1>b, InList
<1>3. \A y : y \in ToSet(s) <=> \E i \in 1..Len(s) : s[i] = y BY InList
<1>4. \A i \in 1..(Len(s) + 1) : i \in 1..Len(s) \/ i = Len(s) + 1 BY <1>1
<1>5. \A i \in 1..Len(s) : i \in 1..(Len(s) + 1) BY <1>1
<1>6. Len(s) + 1 \in 1..(Len(s) + 1) BY <1>1
<1>7. ASSUME NEW y PROVE y \in ToSet(t) <=> y \in ToSet(s) \cup {x}
  <2>1. y \in ToSet(t) => y \in ToSet(s) \cup {x} BY <1>1, <1>a, <1>2, <1>3, <1>4
  <2>2. y \in ToSet(s) \cup {x} => y \in ToSet(t) BY <1>1, <1>a, <1>2, <1>3, <1>5, <1>6
  <2>3. QED BY <2>1, <2>2
<1>8. QED BY <1>1, <1>a, <1>7

LEMMA Joined ==
  ASSUME NEW T, NEW s \in Seq(T), NEW u \in Seq(T)
  PROVE  s \o u \in Seq(T) /\ ToSet(s \o u) = ToSet(s) \cup ToSet(u) /\ Len(s \o u) = Len(s) + Len(u)
<1>1. /\ s \o u \in Seq(T) /\ Len(s \o u) = Len(s) + Len(u) /\ Len(s) \in Nat /\ Len(u) \in Nat
      /\ \A i \in 1..Len(s) : (s \o u)[i] = s[i]
      /\ \A i \in 1..Len(u) : (s \o u)[Len(s) + i] = u[i]
  OBVIOUS
<1>a. PICK t : t = s \o u OBVIOUS
<1>b. t \in Seq(T) /\ Len(t) = Len(s) + Len(u) BY <1>1, <1>a
<1>2. \A y : y \in ToSet(t) <=> \E i \in 1..(Len(s) + Len(u)) : t[i] = y BY <1>b, InList
<1>3. \A y : y \in ToSet(s) <=> \E i \in 1..Len(s) : s[i] = y BY InList
<1>4. \A y : y \in ToSet(u) <=> \E i \in 1..Len(u) : u[i] = y BY InList
<1>5. \A i \in 1..(Len(s) + Len(u)) : i \in 1..Len(s) \/ (i - Len(s) \in 1..Len(u) /\ i = Len(s) + (i - Len(s))) BY <1>1
<1>6. /\ \A i \in 1..Len(s) : i \in 1..(Len(s) + Len(u))
      /\ \A i \in 1..Len(u) : Len(s) + i \in 1..(Len(s) + Len(u))
  BY <1>1
<1>7. ASSUME NEW y PROVE y \in ToSet(t) <=> y \in ToSet(s) \cup ToSet(u)
  <2>1. y \in ToSet(t) => y \in ToSet(s) \cup ToSet(u)
    <3>1. SUFFICES ASSUME NEW i \in 1..(Len(s) + Len(u)), t[i] = y PROVE y \in ToSet(s) \cup ToSet(u) BY <1>2
    <3>2. CASE i \in 1..Len(s) BY <1>1, <1>a, <1>3, <3>1, <3>2
    <3>3. CASE i - Len(s) \in 1..Len(u) /\ i = Len(s) + (i - Len(s)) 
      <4>1. t[i] = u[i - Len(s)] BY <1>1, <1>a, <3>3
      <4>2. QED BY <1>4, <3>1, <3>3, <4>1
    <3>4. QED BY <1>5, <3>2, <3>3
  <2>2. y \in ToSet(s) => y \in ToSet(t) BY <1>1, <1>a, <1>2, <1>3, <1>6
  <2>3. y \in ToSet(u) => y \in ToSet(t) BY <1>1, <1>a, <1>2, <1>4, <1>6
  <2>4. QED BY <2>1, <2>2, <2>3
<1>8. QED BY <1>1, <1>a, <1>7

(* Lists that share nothing, and hold nothing twice.                          *)
Held(parts) == UNION {ToSet(parts[i]) : i \in DOMAIN parts}
Apart(parts) ==
  /\ \A i \in DOMAIN parts : IsInjective(parts[i])
  /\ \A i, j \in DOMAIN parts : i # j => ToSet(parts[i]) \cap ToSet(parts[j]) = {}

LEMMA AppendedOnce ==
  ASSUME NEW T, NEW s \in Seq(T), NEW x \in T, IsInjective(s), x \notin ToSet(s)
  PROVE  IsInjective(Append(s, x))
<1>1. Len(s) \in Nat /\ DOMAIN s = 1..Len(s) /\ \A i \in 1..Len(s) : s[i] \in ToSet(s) BY InList
<1>2. PICK t : t = Append(s, x) OBVIOUS
<1>3. DOMAIN t = 1..(Len(s) + 1) /\ t[Len(s) + 1] = x /\ \A i \in 1..Len(s) : t[i] = s[i] BY <1>1, <1>2
<1>4. \A i \in 1..(Len(s) + 1) : i \in 1..Len(s) \/ i = Len(s) + 1 BY <1>1
<1>5. ASSUME NEW i \in DOMAIN t, NEW j \in DOMAIN t, t[i] = t[j] PROVE i = j
  <2>1. CASE i \in 1..Len(s) /\ j \in 1..Len(s) BY <1>1, <1>3, <1>5, <2>1 DEF IsInjective
  <2>2. CASE ~(i \in 1..Len(s) /\ j \in 1..Len(s)) BY <1>1, <1>3, <1>4, <1>5, <2>2
  <2>3. QED BY <2>1, <2>2
<1>6. QED BY <1>2, <1>5 DEF IsInjective

LEMMA PartAdded ==
  ASSUME NEW T, NEW parts \in Seq(Seq(T)), NEW p \in Seq(T),
         Apart(parts), IsInjective(p), ToSet(p) \cap Held(parts) = {}
  PROVE  Apart(Append(parts, p)) /\ Held(Append(parts, p)) = Held(parts) \cup ToSet(p)
<1> DEFINE n == Len(parts)
<1>1. n \in Nat /\ DOMAIN parts = 1..n BY InList
<1>2. PICK q : q = Append(parts, p) OBVIOUS
<1>3. DOMAIN q = 1..(n + 1) /\ q[n + 1] = p /\ \A i \in 1..n : q[i] = parts[i] BY <1>1, <1>2
<1>4. /\ \A i \in 1..(n + 1) : i \in 1..n \/ i = n + 1
      /\ \A i \in 1..n : i \in 1..(n + 1)
      /\ n + 1 \in 1..(n + 1)
  BY <1>1
<1>5. \A i \in 1..n : ToSet(parts[i]) \subseteq Held(parts) BY <1>1 DEF Held
<1> HIDE DEF n
<1>6. Held(q) = Held(parts) \cup ToSet(p)
  <2>1. ASSUME NEW i \in DOMAIN q PROVE ToSet(q[i]) \subseteq Held(parts) \cup ToSet(p)
    BY <1>3, <1>4, <1>5
  <2>2. ASSUME NEW i \in DOMAIN parts PROVE ToSet(parts[i]) \subseteq Held(q)
    BY <1>1, <1>3, <1>4 DEF Held
  <2>3. ToSet(p) \subseteq Held(q) BY <1>3, <1>4 DEF Held
  <2>4. Held(q) \subseteq Held(parts) \cup ToSet(p) BY <2>1 DEF Held
  <2>5. Held(parts) \subseteq Held(q) BY <2>2 DEF Held
  <2>6. QED BY <2>3, <2>4, <2>5
<1>7. \A i \in DOMAIN q : IsInjective(q[i]) BY <1>1, <1>3, <1>4 DEF Apart
<1>8. ASSUME NEW i \in DOMAIN q, NEW j \in DOMAIN q, i # j PROVE ToSet(q[i]) \cap ToSet(q[j]) = {}
  <2>1. CASE i \in 1..n /\ j \in 1..n BY <1>1, <1>3, <1>8, <2>1 DEF Apart
  <2>2. CASE i \in 1..n /\ j = n + 1 BY <1>3, <1>5, <2>2
  <2>3. CASE i = n + 1 /\ j \in 1..n BY <1>3, <1>5, <2>3
  <2>4. QED BY <1>3, <1>4, <1>8, <2>1, <2>2, <2>3
<1>9. QED BY <1>2, <1>6, <1>7, <1>8 DEF Apart

LEMMA PartGrown ==
  ASSUME NEW parts, NEW i \in DOMAIN parts, NEW t, Apart(parts), t \notin Held(parts),
         NEW p, ToSet(p) = ToSet(parts[i]) \cup {t}, IsInjective(p),
         NEW q, DOMAIN q = DOMAIN parts, q[i] = p, \A j \in DOMAIN parts : j # i => q[j] = parts[j]
  PROVE  Apart(q) /\ Held(q) = Held(parts) \cup {t}
<1>4. DOMAIN q = DOMAIN parts /\ q[i] = p /\ \A j \in DOMAIN parts : j # i => q[j] = parts[j] OBVIOUS
<1>5. ToSet(p) = ToSet(parts[i]) \cup {t} OBVIOUS
<1>6. \A j \in DOMAIN parts : ToSet(parts[j]) \subseteq Held(parts) BY DEF Held
<1>7. IsInjective(p) OBVIOUS
<1>8. Held(q) = Held(parts) \cup {t}
  <2>1. ASSUME NEW j \in DOMAIN q PROVE ToSet(q[j]) \subseteq Held(parts) \cup {t} BY <1>4, <1>5, <1>6
  <2>2. ASSUME NEW j \in DOMAIN parts PROVE ToSet(parts[j]) \subseteq Held(q)
    <3>1. ToSet(parts[j]) \subseteq ToSet(q[j]) BY <1>4, <1>5
    <3>2. QED BY <1>4, <3>1 DEF Held
  <2>3. t \in Held(q) BY <1>4, <1>5 DEF Held
  <2>4. Held(q) \subseteq Held(parts) \cup {t} BY <2>1 DEF Held
  <2>5. Held(parts) \subseteq Held(q) BY <2>2 DEF Held
  <2>6. QED BY <2>3, <2>4, <2>5
<1>9. \A j \in DOMAIN q : IsInjective(q[j]) BY <1>4, <1>7 DEF Apart
<1>10. ASSUME NEW j \in DOMAIN q, NEW k \in DOMAIN q, j # k PROVE ToSet(q[j]) \cap ToSet(q[k]) = {}
  <2>1. ToSet(parts[j]) \cap ToSet(parts[k]) = {} BY <1>4, <1>10 DEF Apart
  <2>2. t \notin ToSet(parts[j]) /\ t \notin ToSet(parts[k]) BY <1>4, <1>6
  <2>3. ToSet(q[j]) = ToSet(parts[j]) \cup (IF j = i THEN {t} ELSE {})
        /\ ToSet(q[k]) = ToSet(parts[k]) \cup (IF k = i THEN {t} ELSE {})
    BY <1>4, <1>5
  <2>4. QED BY <1>10, <2>1, <2>2, <2>3
<1>11. QED BY <1>8, <1>9, <1>10 DEF Apart

LEMMA PartsJoined ==
  ASSUME NEW T, NEW parts \in Seq(Seq(T)), NEW more \in Seq(Seq(T)),
         Apart(parts), Apart(more), Held(parts) \cap Held(more) = {}
  PROVE  Apart(parts \o more) /\ Held(parts \o more) = Held(parts) \cup Held(more)
<1> DEFINE n == Len(parts)
           m == Len(more)
<1>1. n \in Nat /\ DOMAIN parts = 1..n /\ m \in Nat /\ DOMAIN more = 1..m BY InList
<1>2. PICK q : q = parts \o more OBVIOUS
<1>3. DOMAIN q = 1..(n + m) /\ (\A i \in 1..n : q[i] = parts[i]) /\ (\A i \in 1..m : q[n + i] = more[i])
  BY <1>1, <1>2
<1>4. /\ \A i \in 1..(n + m) : i \in 1..n \/ \E k \in 1..m : i = n + k
      /\ \A i \in 1..n : i \in 1..(n + m)
      /\ \A k \in 1..m : n + k \in 1..(n + m)
  <2>1. \A i \in 1..(n + m) : i \in 1..n \/ (i - n \in 1..m /\ i = n + (i - n)) BY <1>1
  <2>2. \A i \in 1..(n + m) : i \in 1..n \/ \E k \in 1..m : i = n + k BY <2>1
  <2>3. (\A i \in 1..n : i \in 1..(n + m)) /\ \A k \in 1..m : n + k \in 1..(n + m) BY <1>1
  <2>4. QED BY <2>2, <2>3
<1>5. \A i \in 1..n : ToSet(parts[i]) \subseteq Held(parts) BY <1>1 DEF Held
<1>6. \A k \in 1..m : ToSet(more[k]) \subseteq Held(more) BY <1>1 DEF Held
<1> HIDE DEF n, m
<1>7. Held(q) = Held(parts) \cup Held(more)
  <2>1. ASSUME NEW i \in DOMAIN q PROVE ToSet(q[i]) \subseteq Held(parts) \cup Held(more)
    BY <1>3, <1>4, <1>5, <1>6
  <2>2. ASSUME NEW i \in DOMAIN parts PROVE ToSet(parts[i]) \subseteq Held(q) BY <1>1, <1>3, <1>4 DEF Held
  <2>3. ASSUME NEW k \in DOMAIN more PROVE ToSet(more[k]) \subseteq Held(q)
    <3>1. more[k] = q[n + k] /\ n + k \in DOMAIN q BY <1>1, <1>3, <1>4
    <3>2. QED BY <3>1 DEF Held
  <2>4. Held(q) \subseteq Held(parts) \cup Held(more) BY <2>1 DEF Held
  <2>5. Held(parts) \subseteq Held(q) BY <2>2 DEF Held
  <2>6. Held(more) \subseteq Held(q) BY <2>3 DEF Held
  <2>7. QED BY <2>4, <2>5, <2>6
<1>8. ASSUME NEW i \in DOMAIN q PROVE IsInjective(q[i])
  <2>1. CASE i \in 1..n BY <1>1, <1>3, <2>1 DEF Apart
  <2>2. CASE \E k \in 1..m : i = n + k BY <1>1, <1>3, <2>2 DEF Apart
  <2>3. QED BY <1>3, <1>4, <2>1, <2>2
<1>9. ASSUME NEW i \in DOMAIN q, NEW j \in DOMAIN q, i # j PROVE ToSet(q[i]) \cap ToSet(q[j]) = {}
  <2>1. CASE i \in 1..n /\ j \in 1..n BY <1>1, <1>3, <1>9, <2>1 DEF Apart
  <2>2. CASE i \in 1..n /\ \E k \in 1..m : j = n + k BY <1>3, <1>5, <1>6, <2>2
  <2>3. CASE (\E k \in 1..m : i = n + k) /\ j \in 1..n BY <1>3, <1>5, <1>6, <2>3
  <2>4. CASE (\E k \in 1..m : i = n + k) /\ (\E k \in 1..m : j = n + k)
    <3>1. PICK k \in 1..m, l \in 1..m : i = n + k /\ j = n + l BY <2>4
    <3>2. k # l BY <1>9, <3>1
    <3>3. QED BY <1>1, <1>3, <3>1, <3>2 DEF Apart
  <2>5. QED BY <1>3, <1>4, <2>1, <2>2, <2>3, <2>4
<1>10. QED BY <1>2, <1>7, <1>8, <1>9 DEF Apart

LEMMA JoinedOnce ==
  ASSUME NEW T, NEW s \in Seq(T), NEW u \in Seq(T),
         IsInjective(s), IsInjective(u), ToSet(s) \cap ToSet(u) = {}
  PROVE  IsInjective(s \o u)
<1> DEFINE n == Len(s)
           m == Len(u)
<1>1. n \in Nat /\ DOMAIN s = 1..n /\ m \in Nat /\ DOMAIN u = 1..m
      /\ (\A i \in 1..n : s[i] \in ToSet(s)) /\ (\A i \in 1..m : u[i] \in ToSet(u))
  BY InList
<1>2. PICK q : q = s \o u OBVIOUS
<1>3. DOMAIN q = 1..(n + m) /\ (\A i \in 1..n : q[i] = s[i]) /\ (\A i \in 1..m : q[n + i] = u[i])
  BY <1>1, <1>2
<1>4. \A i \in 1..(n + m) : i \in 1..n \/ \E k \in 1..m : i = n + k
  <2>1. \A i \in 1..(n + m) : i \in 1..n \/ (i - n \in 1..m /\ i = n + (i - n)) BY <1>1
  <2>2. QED BY <2>1
<1> HIDE DEF n, m
<1>5. ASSUME NEW i \in DOMAIN q, NEW j \in DOMAIN q, q[i] = q[j] PROVE i = j
  <2>1. CASE i \in 1..n /\ j \in 1..n BY <1>1, <1>3, <1>5, <2>1 DEF IsInjective
  <2>2. CASE i \in 1..n /\ \E k \in 1..m : j = n + k BY <1>1, <1>3, <1>5, <2>2
  <2>3. CASE (\E k \in 1..m : i = n + k) /\ j \in 1..n BY <1>1, <1>3, <1>5, <2>3
  <2>4. CASE (\E k \in 1..m : i = n + k) /\ (\E k \in 1..m : j = n + k)
    <3>1. PICK k \in 1..m, l \in 1..m : i = n + k /\ j = n + l BY <2>4
    <3>2. u[k] = u[l] BY <1>3, <1>5, <3>1
    <3>3. QED BY <1>1, <3>1, <3>2 DEF IsInjective
  <2>5. QED BY <1>3, <1>4, <2>1, <2>2, <2>3, <2>4
<1>6. QED BY <1>2, <1>5 DEF IsInjective

------------------------------------------------------------------------------
(* The members of a list that are in a set, each as often as in the list.     *)
LEMMA AmongIs ==
  ASSUME NEW T, NEW s \in Seq(T), NEW S
  PROVE  /\ Among(s, S) \in Seq(T) /\ ToSet(Among(s, S)) = ToSet(s) \cap S /\ Len(Among(s, S)) <= Len(s)
         /\ IsInjective(s) => IsInjective(Among(s, S))
<1> DEFINE n == Len(s)
           After(a, i) == IF s[i] \in S THEN Append(a, s[i]) ELSE a
           Recurs(g) == g = [i \in 0..n |-> IF i = 0 THEN <<>> ELSE After(g[i - 1], i)]
           F == [i \in 1..n |-> [a \in Seq(T) |-> After(a, i)]]
<1>1. n \in Nat /\ \A i \in 1..n : s[i] \in T OBVIOUS
<1>2. <<>> \in Seq(T) OBVIOUS
<1>3. \A a \in Seq(T), i \in 1..n : After(a, i) \in Seq(T) BY <1>1
<1>4. Among(s, S) = (CHOOSE g : Recurs(g))[n] BY DEF Among
<1> HIDE DEF After
<1>5. F \in [1..n -> [Seq(T) -> Seq(T)]] /\ \A a \in Seq(T), i \in 1..n : F[i][a] = After(a, i) BY <1>3
<1> HIDE DEF n, F
<1>6. PICK g : Follows(g, Seq(T), <<>>, n, F) BY <1>1, <1>2, <1>5, Recursion
<1>7. Recurs(g)
  <2>1. \A i \in 0..n : i # 0 => i \in 1..n /\ i - 1 \in 0..n BY <1>1
  <2>2. \A i \in 0..n : g[i] = IF i = 0 THEN <<>> ELSE After(g[i - 1], i) BY <1>5, <1>6, <2>1 DEF Follows
  <2>3. g = [i \in 0..n |-> g[i]] BY <1>6 DEF Follows
  <2>4. QED BY <2>2, <2>3
<1>8. PICK h : Recurs(h) /\ Among(s, S) = h[n] BY <1>4, <1>7
<1>9. h[0] = <<>> /\ \A i \in 1..n : h[i] = After(h[i - 1], i) BY <1>1, <1>8
<1> DEFINE Good(i) == /\ h[i] \in Seq(T) /\ Len(h[i]) <= i
                      /\ \A x : x \in ToSet(h[i]) <=> \E j \in 1..i : s[j] = x /\ x \in S
                      /\ IsInjective(s) => IsInjective(h[i])
           G == {i \in 0..n : Good(i)}
<1>10. 0 \in G
  <2>1. Len(<<>>) = 0 /\ ToSet(<<>>) = {} BY DEF ToSet
  <2>2. \A j \in 1..0 : FALSE OBVIOUS
  <2>3. 0 \in 0..n BY <1>1
  <2>4. Good(0) BY <1>2, <1>9, <2>1, <2>2 DEF IsInjective
  <2>5. QED BY <2>3, <2>4
<1>11. ASSUME NEW i \in 1..n, i - 1 \in G PROVE i \in G
  <2>a. PICK a : a = h[i - 1] OBVIOUS
  <2>1. a \in Seq(T) /\ Len(a) <= i - 1 /\ Len(a) \in Nat /\ s[i] \in T BY <1>1, <1>11, <2>a
  <2>2. \A x : x \in ToSet(a) <=> \E j \in 1..(i - 1) : s[j] = x /\ x \in S BY <1>11, <2>a
  <2>3. h[i] = After(a, i) BY <1>9, <2>a
  <2>4. \A j \in 1..i : j \in 1..(i - 1) \/ j = i BY <1>1
  <2>5. \A j \in 1..(i - 1) : j \in 1..i BY <1>1
  <2>6. i \in 1..i /\ i \in 0..n BY <1>1
  <2> HIDE DEF G, Good
  <2>7. CASE s[i] \in S
    <3>1. h[i] = Append(a, s[i]) BY <2>3, <2>7 DEF After
    <3>2. h[i] \in Seq(T) /\ ToSet(h[i]) = ToSet(a) \cup {s[i]} /\ Len(h[i]) = Len(a) + 1
      BY <2>1, <3>1, Appended
    <3>3. Len(h[i]) <= i BY <2>1, <3>2
    <3>4. \A x : x \in ToSet(h[i]) <=> \E j \in 1..i : s[j] = x /\ x \in S
      BY <2>2, <2>4, <2>5, <2>6, <2>7, <3>2
    <3>5. IsInjective(s) => IsInjective(h[i])
      <4> SUFFICES ASSUME IsInjective(s) PROVE IsInjective(h[i]) OBVIOUS
      <4>1. s[i] \notin ToSet(a)
        <5>1. ASSUME NEW j \in 1..(i - 1), s[j] = s[i] PROVE FALSE
          <6>1. DOMAIN s = 1..n BY InList DEF n
          <6>2. j \in 1..n /\ j # i BY <1>1
          <6>3. QED BY <5>1, <6>1, <6>2 DEF IsInjective
        <5>2. QED BY <2>2, <5>1
      <4>2. IsInjective(a) BY <1>11, <2>a DEF G, Good
      <4>3. QED BY <2>1, <3>1, <4>1, <4>2, AppendedOnce
    <3>6. QED BY <2>6, <3>2, <3>3, <3>4, <3>5 DEF G, Good
  <2>8. CASE s[i] \notin S
    <3>1. h[i] = a BY <2>3, <2>8 DEF After
    <3>2. Len(h[i]) <= i BY <2>1, <3>1
    <3>3. \A x : x \in ToSet(h[i]) <=> \E j \in 1..i : s[j] = x /\ x \in S
      BY <2>2, <2>4, <2>5, <2>8, <3>1
    <3>4. IsInjective(s) => IsInjective(h[i]) BY <1>11, <2>a, <3>1 DEF G, Good
    <3>5. QED BY <2>1, <2>6, <3>1, <3>2, <3>3, <3>4 DEF G, Good
  <2>9. QED BY <2>7, <2>8
<1> HIDE DEF G
<1>12. \A i \in 0..n : i \in G BY <1>1, <1>10, <1>11, Throughout
<1>13. n \in G BY <1>1, <1>12
<1>14. Good(n) BY <1>13 DEF G
<1>15. \A x : x \in ToSet(s) <=> \E i \in 1..n : s[i] = x BY InList DEF n
<1>16. \A x : x \in ToSet(h[n]) <=> x \in ToSet(s) \cap S BY <1>14, <1>15
<1>17. QED BY <1>8, <1>14, <1>16 DEF n

------------------------------------------------------------------------------
(* What is stacked: every part is made of the tables it was found among.      *)
LEMMA FitKeeps ==
  ASSUME NEW T, NEW parts \in Seq(Seq(T)), NEW t \in T
  PROVE  Fit(parts, t) \in Seq(Seq(T))
<1> DEFINE fits == {i \in DOMAIN parts : Compatible(Append(parts[i], t))}
           first == CHOOSE i \in fits : \A j \in fits : i <= j
<1>1. DOMAIN parts = 1..Len(parts) /\ Len(parts) \in Nat /\ \A i \in 1..Len(parts) : parts[i] \in Seq(T)
  OBVIOUS
<1>2. fits \subseteq 1..Len(parts) BY <1>1
<1>3. Fit(parts, t) = IF fits = {} THEN Append(parts, <<t>>) ELSE [parts EXCEPT ![first] = Append(@, t)]
  BY DEF Fit
<1> HIDE DEF fits
<1>4. CASE fits = {} BY <1>3, <1>4
<1>5. CASE fits # {}
  <2>0. fits \subseteq Nat BY <1>1, <1>2
  <2>1. \E i \in fits : \A j \in fits : i <= j BY <2>0, <1>5, Least
  <2>2. first \in fits BY <2>1
  <2> HIDE DEF first
  <2>3. Append(parts[first], t) \in Seq(T) BY <1>1, <1>2, <2>2
  <2>4. Fit(parts, t) = [parts EXCEPT ![first] = Append(parts[first], t)] BY <1>3, <1>5
  <2>5. first \in 1..Len(parts) BY <1>2, <2>2
  <2>6. PICK part \in Seq(T) : part = Append(parts[first], t) BY <2>3
  <2>7. [parts EXCEPT ![first] = part] \in Seq(Seq(T)) BY <2>5
  <2>8. QED BY <2>4, <2>6, <2>7
<1>6. QED BY <1>4, <1>5

LEMMA FitApart ==
  ASSUME NEW T, NEW parts \in Seq(Seq(T)), NEW t \in T, Apart(parts), t \notin Held(parts)
  PROVE  Apart(Fit(parts, t)) /\ Held(Fit(parts, t)) = Held(parts) \cup {t}
<1> DEFINE fits == {i \in DOMAIN parts : Compatible(Append(parts[i], t))}
           first == CHOOSE i \in fits : \A j \in fits : i <= j
<1>1. DOMAIN parts = 1..Len(parts) /\ Len(parts) \in Nat BY InList
<1>2. fits \subseteq 1..Len(parts) BY <1>1
<1>3. Fit(parts, t) = IF fits = {} THEN Append(parts, <<t>>) ELSE [parts EXCEPT ![first] = Append(@, t)]
  BY DEF Fit
<1> HIDE DEF fits
<1>4. CASE fits = {}
  <2>1. <<t>> \in Seq(T) /\ ToSet(<<t>>) = {t} /\ IsInjective(<<t>>) BY DEF ToSet, IsInjective
  <2> PICK p : p = <<t>> OBVIOUS
  <2>2. Fit(parts, t) = Append(parts, p) BY <1>3, <1>4
  <2>3. p \in Seq(T) /\ IsInjective(p) /\ ToSet(p) = {t} /\ ToSet(p) \cap Held(parts) = {} BY <2>1
  <2> HIDE DEF first
  <2>4. Apart(Append(parts, p)) /\ Held(Append(parts, p)) = Held(parts) \cup ToSet(p) BY <2>3, PartAdded
  <2>5. QED BY <2>2, <2>3, <2>4
<1>5. CASE fits # {}
  <2>0. fits \subseteq Nat BY <1>1, <1>2
  <2>1. \E i \in fits : \A j \in fits : i <= j BY <2>0, <1>5, Least
  <2>2. first \in fits BY <2>1
  <2> HIDE DEF first
  <2> PICK i \in DOMAIN parts : i = first BY <1>1, <1>2, <2>2
  <2>3. PICK p : p = Append(parts[i], t) OBVIOUS
  <2>4. PICK q : q = Fit(parts, t) OBVIOUS
  <2>5. DOMAIN q = DOMAIN parts /\ q[i] = p /\ \A j \in DOMAIN parts : j # i => q[j] = parts[j]
    BY <1>3, <1>5, <2>3, <2>4
  <2>6. parts[i] \in Seq(T) /\ ToSet(parts[i]) \subseteq Held(parts) /\ IsInjective(parts[i])
    BY DEF Held, Apart
  <2>7. ToSet(p) = ToSet(parts[i]) \cup {t} /\ IsInjective(p) BY <2>3, <2>6, Appended, AppendedOnce
  <2>8. Apart(q) /\ Held(q) = Held(parts) \cup {t} BY <2>5, <2>7, PartGrown
  <2>9. QED BY <2>4, <2>8
<1>6. QED BY <1>4, <1>5

LEMMA PartsAre ==
  ASSUME NEW T, NEW group \in Seq(T)
  PROVE  /\ Parts(group) \in Seq(Seq(T))
         /\ IsInjective(group) => Apart(Parts(group)) /\ Held(Parts(group)) = ToSet(group)
<1> DEFINE A == Seq(Seq(T))
           n == Len(group)
           Recurs(g) == g = [i \in 0..n |-> IF i = 0 THEN <<>> ELSE Fit(g[i - 1], group[i])]
           F == [i \in 1..n |-> [a \in A |-> Fit(a, group[i])]]
<1>1. n \in Nat /\ <<>> \in A OBVIOUS
<1>2. \A a \in A, i \in 1..n : Fit(a, group[i]) \in A
  <2> TAKE a \in A, i \in 1..n
  <2>1. group[i] \in T OBVIOUS
  <2>2. QED BY <2>1, FitKeeps
<1>3. F \in [1..n -> [A -> A]] /\ \A a \in A, i \in 1..n : F[i][a] = Fit(a, group[i]) BY <1>2
<1>4. Parts(group) = (CHOOSE g : Recurs(g))[n] BY DEF Parts
<1> HIDE DEF n, F, A
<1>5. PICK g : Follows(g, A, <<>>, n, F) BY <1>1, <1>3, Recursion
<1>6. Recurs(g)
  <2>1. \A i \in 0..n : i # 0 => i \in 1..n /\ i - 1 \in 0..n BY <1>1
  <2>2. \A i \in 0..n : g[i] = IF i = 0 THEN <<>> ELSE Fit(g[i - 1], group[i])
    BY <1>3, <1>5, <2>1 DEF Follows
  <2>3. g = [i \in 0..n |-> g[i]] BY <1>5 DEF Follows
  <2>4. QED BY <2>2, <2>3
<1>7. PICK h : Recurs(h) /\ Parts(group) = h[n] BY <1>4, <1>6
<1>8. h[0] = <<>> /\ \A i \in 1..n : h[i] = Fit(h[i - 1], group[i]) BY <1>1, <1>7
<1> DEFINE Good(i) == /\ h[i] \in A
                      /\ IsInjective(group) =>
                           Apart(h[i]) /\ \A x : x \in Held(h[i]) <=> \E j \in 1..i : group[j] = x
           G == {i \in 0..n : Good(i)}
<1>9. 0 \in G
  <2>1. Apart(<<>>) /\ Held(<<>>) = {} BY DEF Apart, Held
  <2>2. 0 \in 0..n /\ \A j \in 1..0 : FALSE BY <1>1
  <2>3. Good(0) BY <1>1, <1>8, <2>1, <2>2
  <2>4. QED BY <2>2, <2>3
<1>10. ASSUME NEW i \in 1..n, i - 1 \in G PROVE i \in G
  <2> PICK a : a = h[i - 1] OBVIOUS
  <2>1. a \in A /\ h[i] = Fit(a, group[i]) /\ i \in 0..n BY <1>1, <1>8, <1>10
  <2>2. h[i] \in A BY <1>2, <2>1
  <2>3. ASSUME IsInjective(group)
        PROVE  Apart(h[i]) /\ \A x : x \in Held(h[i]) <=> \E j \in 1..i : group[j] = x
    <3>1. Apart(a) /\ \A x : x \in Held(a) <=> \E j \in 1..(i - 1) : group[j] = x BY <1>10, <2>3
    <3> HIDE DEF G, Good
    <3>2. DOMAIN group = 1..n /\ group[i] \in T BY InList DEF n
    <3>3. group[i] \notin Held(a)
      <4>1. ASSUME NEW j \in 1..(i - 1), group[j] = group[i] PROVE FALSE
        <5>1. j \in 1..n /\ j # i BY <1>1
        <5>2. QED BY <2>3, <3>2, <4>1, <5>1 DEF IsInjective
      <4>2. QED BY <3>1, <4>1
    <3>4. Apart(h[i]) /\ Held(h[i]) = Held(a) \cup {group[i]} BY <2>1, <3>1, <3>2, <3>3, FitApart DEF A
    <3>5. /\ \A j \in 1..i : j \in 1..(i - 1) \/ j = i
          /\ \A j \in 1..(i - 1) : j \in 1..i
          /\ i \in 1..i
      BY <1>1
    <3>6. QED BY <3>1, <3>4, <3>5
  <2>4. QED BY <2>1, <2>2, <2>3
<1> HIDE DEF G
<1>11. \A i \in 0..n : i \in G BY <1>1, <1>9, <1>10, Throughout
<1>12. n \in G BY <1>1, <1>11
<1>13. Good(n) BY <1>12 DEF G
<1>14. \A x : x \in ToSet(group) <=> \E j \in 1..n : group[j] = x BY InList DEF n
<1>15. IsInjective(group) => Apart(h[n]) /\ Held(h[n]) = ToSet(group)
  <2> SUFFICES ASSUME IsInjective(group) PROVE Apart(h[n]) /\ Held(h[n]) = ToSet(group) OBVIOUS
  <2>1. Apart(h[n]) /\ \A x : x \in Held(h[n]) <=> x \in ToSet(group) BY <1>13, <1>14
  <2>2. QED BY <2>1
<1>16. QED BY <1>7, <1>13, <1>15 DEF A

LEMMA AllPartsAre ==
  ASSUME NEW T, NEW tables \in Seq(T)
  PROVE  /\ AllParts(tables) \in Seq(Seq(T))
         /\ IsInjective(tables) => Apart(AllParts(tables))
<1> DEFINE A == Seq(Seq(T))
           n == Len(tables)
           After(a, i) == a \o Parts(Group(tables, i))
           Recurs(g) == g = [i \in 0..n |-> IF i = 0 THEN <<>> ELSE After(g[i - 1], i)]
           F == [i \in 1..n |-> [a \in A |-> After(a, i)]]
<1>1. n \in Nat /\ <<>> \in A OBVIOUS
<1>2. \A a \in A, i \in 1..n : After(a, i) \in A
  <2> TAKE a \in A, i \in 1..n
  <2>1. Group(tables, i) \in Seq(T) BY AmongIs DEF Group
  <2>2. Parts(Group(tables, i)) \in A BY <2>1, PartsAre
  <2>3. QED BY <2>2
<1>3. AllParts(tables) = (CHOOSE g : Recurs(g))[n] BY DEF AllParts
<1>4. \A a, i : After(a, i) = a \o Parts(Group(tables, i)) OBVIOUS
<1> HIDE DEF After
<1>5. F \in [1..n -> [A -> A]] /\ \A a \in A, i \in 1..n : F[i][a] = After(a, i) BY <1>2
<1> HIDE DEF n, F, A
<1>6. PICK g : Follows(g, A, <<>>, n, F) BY <1>1, <1>5, Recursion
<1>7. Recurs(g)
  <2>1. \A i \in 0..n : i # 0 => i \in 1..n /\ i - 1 \in 0..n BY <1>1
  <2>2. \A i \in 0..n : g[i] = IF i = 0 THEN <<>> ELSE After(g[i - 1], i)
    BY <1>5, <1>6, <2>1 DEF Follows
  <2>3. g = [i \in 0..n |-> g[i]] BY <1>6 DEF Follows
  <2>4. QED BY <2>2, <2>3
<1>8. PICK h : Recurs(h) /\ AllParts(tables) = h[n] BY <1>3, <1>7
<1>9. h[0] = <<>> /\ \A i \in 1..n : h[i] = After(h[i - 1], i) BY <1>1, <1>8
<1> DEFINE Like(x, m) == \E j \in 1..m : ColumnsOf[x.bytes] = ColumnsOf[tables[j].bytes]
           Good(i) == /\ h[i] \in A
                      /\ IsInjective(tables) => Apart(h[i]) /\ \A x \in Held(h[i]) : Like(x, i)
           G == {i \in 0..n : Good(i)}
<1>10. 0 \in G
  <2>1. Apart(<<>>) /\ Held(<<>>) = {} BY DEF Apart, Held
  <2>2. 0 \in 0..n BY <1>1
  <2>3. Good(0) BY <1>1, <1>9, <2>1
  <2>4. QED BY <2>2, <2>3
<1>11. ASSUME NEW i \in 1..n, i - 1 \in G PROVE i \in G
  <2> DEFINE group == Group(tables, i)
             alike == {t \in ToSet(tables) : ColumnsOf[t.bytes] = ColumnsOf[tables[i].bytes]}
             seen == \E j \in 1..(i - 1) : tables[j] \in alike
  <2> PICK a : a = h[i - 1] OBVIOUS
  <2>1. a \in A /\ h[i] = After(a, i) /\ i \in 0..n BY <1>1, <1>9, <1>11
  <2>2. h[i] \in A BY <1>2, <2>1
  <2>3. group = IF seen \/ ColumnsOf[tables[i].bytes] \in Sourced THEN <<>> ELSE Among(tables, alike) BY DEF Group
  <2>4. ASSUME IsInjective(tables) PROVE Apart(h[i]) /\ \A x \in Held(h[i]) : Like(x, i)
    <3>1. Apart(a) /\ \A x \in Held(a) : Like(x, i - 1) BY <1>11, <2>4
    <3>2. h[i] = a \o Parts(group) BY <1>4, <2>1
    <3>3. \A j \in 1..(i - 1) : j \in 1..n /\ tables[j] \in ToSet(tables)
      <4>1. \A j \in 1..(i - 1) : j \in 1..n BY <1>1
      <4>2. QED BY <4>1, InList DEF n
    <3> HIDE DEF G, Good
    <3>4. group \in Seq(T) /\ IsInjective(group) /\ ToSet(group) \subseteq alike /\ (seen => ToSet(group) = {})
      <4> HIDE DEF group, alike, seen
      <4>1. Among(tables, alike) \in Seq(T) /\ IsInjective(Among(tables, alike)) /\ ToSet(Among(tables, alike)) \subseteq alike
        BY <2>4, AmongIs
      <4>2. <<>> \in Seq(T) /\ IsInjective(<<>>) /\ ToSet(<<>>) = {} BY DEF IsInjective, ToSet
      <4>3. QED BY <2>3, <4>1, <4>2
    <3> HIDE DEF group
    <3>5. Parts(group) \in Seq(Seq(T)) /\ Apart(Parts(group)) /\ Held(Parts(group)) = ToSet(group)
      BY <3>4, PartsAre
    <3>6. Held(a) \cap ToSet(group) = {}
      <4> SUFFICES ASSUME NEW x \in Held(a), x \in ToSet(group) PROVE FALSE OBVIOUS
      <4>1. PICK j \in 1..(i - 1) : ColumnsOf[x.bytes] = ColumnsOf[tables[j].bytes] BY <3>1
      <4>2. ColumnsOf[x.bytes] = ColumnsOf[tables[i].bytes] BY <3>4
      <4>3. tables[j] \in alike BY <3>3, <4>1, <4>2
      <4>4. seen BY <4>3
      <4>5. QED BY <3>4, <4>4
    <3>7. Apart(h[i]) /\ Held(h[i]) = Held(a) \cup ToSet(group) BY <2>1, <3>1, <3>2, <3>5, <3>6, PartsJoined DEF A
    <3>8. i \in 1..i /\ \A j \in 1..(i - 1) : j \in 1..i BY <1>1
    <3>9. \A x \in ToSet(group) : ColumnsOf[x.bytes] = ColumnsOf[tables[i].bytes] BY <3>4
    <3>10. \A x \in Held(h[i]) : Like(x, i) BY <3>1, <3>7, <3>8, <3>9
    <3>11. QED BY <3>7, <3>10
  <2>5. QED BY <2>1, <2>2, <2>4
<1> HIDE DEF G
<1>12. n \in G
  <2>1. \A i \in 0..n : i \in G BY <1>1, <1>10, <1>11, Throughout
  <2>2. QED BY <1>1, <2>1
<1>13. Good(n) BY <1>12 DEF G
<1>14. QED BY <1>8, <1>13 DEF A

------------------------------------------------------------------------------
(* Names.                                                                     *)
Words == Seq(STRING)

(* What the provers are not told of strings: that these two are some, that a  *)
(* number is written as one, and different numbers as different ones.         *)
Spelling ==
  /\ {"all", "combined"} \subseteq STRING
  /\ \A m, n \in Nat : ToString(m) \in STRING /\ (ToString(m) = ToString(n) => m = n)

LEMMA FreshName ==
  ASSUME Spelling, NEW name \in Words, NEW taken, IsFiniteSet(taken)
  PROVE  FirstFree(name, taken) \in Words /\ FirstFree(name, taken) \notin taken
<1> DEFINE c == Cardinality(taken)
           suffixed(k) == Append(name, ToString(k))
           S == 2..(c + 2)
           Free == {k \in S : suffixed(k) \notin taken}
           n == CHOOSE k \in S : suffixed(k) \notin taken /\ \A j \in 2..(k - 1) : suffixed(j) \in taken
<1>1. c \in Nat BY FS_CardinalityType
<1>2. FirstFree(name, taken) = IF name \notin taken THEN name ELSE suffixed(n) BY DEF FirstFree
<1>3. \A k \in S : k \in Nat BY <1>1
<1>4. \A k \in S : suffixed(k) \in Words BY <1>3 DEF Spelling, Words
<1>5. \A j, k \in S : suffixed(j) = suffixed(k) => j = k
  <2> TAKE j, k \in S
  <2>1. suffixed(j)[Len(name) + 1] = ToString(j) /\ suffixed(k)[Len(name) + 1] = ToString(k)
    BY <1>3 DEF Spelling, Words
  <2>2. QED BY <1>3, <2>1 DEF Spelling
<1>6. IsFiniteSet(S) /\ Cardinality(S) = c + 1
  <2>1. IsFiniteSet(S) /\ Cardinality(S) = IF 2 > c + 2 THEN 0 ELSE c + 2 - 2 + 1 BY <1>1, FS_Interval
  <2>2. QED BY <1>1, <2>1
<1> HIDE DEF suffixed, S
<1>7. Free # {}
  <2> SUFFICES ASSUME Free = {} PROVE FALSE OBVIOUS
  <2> DEFINE f == [k \in S |-> suffixed(k)]
  <2>1. f \in [S -> taken] OBVIOUS
  <2>2. Cardinality(taken) < Cardinality(S) BY <1>1, <1>6
  <2> HIDE DEF f, c
  <2>3. PICK x, y \in S : x # y /\ f[x] = f[y] BY <1>6, <2>1, <2>2, FS_PigeonHole
  <2>4. QED BY <1>5, <2>3 DEF f
<1>8. PICK m \in Free : \A k \in Free : m <= k
  <2>1. Free \subseteq Nat BY <1>3
  <2> HIDE DEF Free
  <2>2. QED BY <1>7, <2>1, Least
<1>9. \A j \in 2..(m - 1) : suffixed(j) \in taken
  <2> TAKE j \in 2..(m - 1)
  <2>1. m \in S /\ j \in S /\ ~(m <= j) BY <1>1, <1>8 DEF S
  <2>2. QED BY <1>8, <2>1
<1>10. n \in S /\ suffixed(n) \notin taken BY <1>8, <1>9
<1> HIDE DEF n
<1>11. QED BY <1>2, <1>4, <1>10

LEMMA SharedWords ==
  ASSUME NEW members, members # {}, \A m \in members : m \in Words
  PROVE  LongestCommonPrefix(members) \in Words
<1> DEFINE P == CommonPrefixes(members)
<1>1. PICK x \in members : TRUE OBVIOUS
<1>2. x \in Words /\ Len(x) \in Nat BY <1>1 DEF Words
<1>3. \A p \in P : p \in Words
  <2> SUFFICES ASSUME NEW p \in P PROVE p \in Words OBVIOUS
  <2>1. PICK m \in members : p \in Prefixes(m) BY DEF CommonPrefixes
  <2>2. PICK l \in 0..Len(m) : p = SubSeq(m, 1, l) BY <2>1 DEF Prefixes
  <2>3. m \in Seq(STRING) BY DEF Words
  <2>4. \A i \in 1..l : i \in 1..Len(m) BY <2>2, <2>3
  <2>5. QED BY <2>2, <2>3, <2>4 DEF Words
<1>4. \A p \in P : Len(p) \in Nat /\ Len(p) <= Len(x)
  <2> SUFFICES ASSUME NEW p \in P PROVE Len(p) \in Nat /\ Len(p) <= Len(x) OBVIOUS
  <2>1. Len(p) \in Nat BY <1>3 DEF Words
  <2>2. IsPrefix(p, x) BY <1>1 DEF CommonPrefixes
  <2>3. QED BY <2>1, <2>2 DEF IsPrefix
<1>5. P # {}
  <2>1. <<>> \in Prefixes(x)
    <3>1. SubSeq(x, 1, 0) = <<>> BY <1>2 DEF Words
    <3>2. QED BY <1>2, <3>1 DEF Prefixes
  <2>2. \A m \in members : IsPrefix(<<>>, m)
    <3> TAKE m \in members
    <3>1. m \in Words /\ Len(m) \in Nat BY DEF Words
    <3>2. QED BY <3>1 DEF IsPrefix
  <2>3. QED BY <1>1, <2>1, <2>2 DEF CommonPrefixes
<1>6. \E p \in P : \A q \in P : Len(q) <= Len(p)
  <2> DEFINE Short == {k \in Nat : \E p \in P : k = Len(x) - Len(p)}
  <2>1. PICK p \in P : TRUE BY <1>5
  <2>2. Len(x) - Len(p) \in Short BY <1>2, <1>4
  <2>3. Short \subseteq Nat OBVIOUS
  <2>4. PICK k \in Short : \A j \in Short : k <= j BY <2>2, <2>3, Least
  <2>5. PICK q \in P : k = Len(x) - Len(q) BY <2>4
  <2>6. ASSUME NEW r \in P PROVE Len(r) <= Len(q)
    <3>1. Len(r) \in Nat /\ Len(q) \in Nat /\ Len(r) <= Len(x) BY <1>4
    <3>2. Len(x) - Len(r) \in Short BY <1>2, <3>1
    <3>3. k <= Len(x) - Len(r) BY <2>4, <3>2
    <3>4. QED BY <1>2, <2>5, <3>1, <3>3
  <2>7. QED BY <2>6
<1>7. LongestCommonPrefix(members) \in P BY <1>6 DEF LongestCommonPrefix
<1>8. QED BY <1>3, <1>7

LEMMA NewViewName ==
  ASSUME Spelling, NEW members, members # {}, \A m \in members : m \in Words,
         NEW taken, IsFiniteSet(taken), NEW k \in Nat
  PROVE  ViewName(members, taken, k) \in Words /\ ViewName(members, taken, k) \notin taken
<1> DEFINE shared == LongestCommonPrefix(members)
           name == IF shared # <<>> THEN Append(shared, "all") ELSE <<"combined", ToString(k)>>
<1>1. shared \in Words BY SharedWords
<1>2. ToString(k) \in STRING BY DEF Spelling
<1> HIDE DEF shared
<1>3. name \in Words
  <2>1. Append(shared, "all") \in Words
    <3> PICK w \in STRING : w = "all" BY DEF Spelling
    <3>1. Append(shared, w) \in Words BY <1>1 DEF Words
    <3>2. QED BY <3>1
  <2>2. <<"combined", ToString(k)>> \in Words
    <3> PICK w \in STRING : w = ToString(k) BY <1>2
    <3> PICK v \in STRING : v = "combined" BY DEF Spelling
    <3>1. <<v, w>> \in Seq(STRING) OBVIOUS
    <3>2. QED BY <3>1 DEF Words
  <2>3. QED BY <2>1, <2>2
<1>4. ViewName(members, taken, k) = FirstFree(name, taken) BY DEF ViewName, shared
<1> HIDE DEF name
<1>5. QED BY <1>3, <1>4, FreshName

------------------------------------------------------------------------------
(* The views found are over tables there are, under names no table has, and   *)
(* those that were rejected are so again.                                     *)
Findable(tables, rejected) ==
  {u \in Union : /\ u.id \notin Names(tables) /\ ToSet(u.tables) \subseteq Names(tables)
                 /\ u.id \in rejected => u.status = "rejected"}
Naming(tables, rejected) ==
  [taken : {x \in SUBSET Words : IsFiniteSet(x) /\ Names(tables) \subseteq x}, fallbacks : Nat,
   found : Seq(Findable(tables, rejected))]

LEMMA NamePartKeeps ==
  ASSUME Spelling, NEW tables \in Seq(Table), NEW rejected, NEW acc \in Naming(tables, rejected),
         NEW part \in Seq(ToSet(tables))
  PROVE  NamePart(acc, part, rejected) \in Naming(tables, rejected)
<1> DEFINE members == [i \in DOMAIN part |-> part[i].name]
           name == ViewName(ToSet(members), acc.taken, acc.fallbacks + 1)
           status == IF name \in rejected THEN "rejected" ELSE "active"
           view == [id |-> name, tables |-> members, status |-> status]
           U == Findable(tables, rejected)
<1>1. /\ acc.taken \subseteq Words /\ IsFiniteSet(acc.taken) /\ Names(tables) \subseteq acc.taken
      /\ acc.fallbacks \in Nat /\ acc.found \in Seq(U)
  BY DEF Naming
<1>2. CASE Len(part) < 2 BY <1>2 DEF NamePart
<1>3. CASE ~(Len(part) < 2)
  <2>1. /\ Len(part) \in Nat /\ DOMAIN part = 1..Len(part) /\ 1 \in 1..Len(part)
        /\ \A i \in 1..Len(part) : part[i] \in ToSet(tables)
    BY <1>3
  <2>2. ToSet(tables) \subseteq Table BY InList
  <2>3. \A i \in 1..Len(part) : part[i].name \in Words /\ part[i].name \in Names(tables)
    <3> TAKE i \in 1..Len(part)
    <3>1. part[i] \in ToSet(tables) /\ part[i] \in Table BY <2>1, <2>2
    <3>2. QED BY <3>1 DEF Table, Words, Names
  <2>4. members \in Seq(Words) /\ ToSet(members) \subseteq Names(tables) /\ ToSet(members) # {}
        /\ \A m \in ToSet(members) : m \in Words
    BY <2>1, <2>3 DEF ToSet
  <2> HIDE DEF members
  <2>5. name \in Words /\ name \notin acc.taken BY <1>1, <2>4, NewViewName
  <2>6. status \in {"active", "rejected"} /\ (name \in rejected => status = "rejected") OBVIOUS
  <2>7. NamePart(acc, part, rejected) =
          [taken |-> acc.taken \cup {name},
           fallbacks |-> acc.fallbacks + (IF name[1] = "combined" THEN 1 ELSE 0),
           found |-> Append(acc.found, view)]
    BY <1>3 DEF NamePart, members
  <2> HIDE DEF name, status
  <2>8. view \in U BY <1>1, <2>4, <2>5, <2>6 DEF Findable, Union, Words
  <2>9. acc.taken \cup {name} \in {x \in SUBSET Words : IsFiniteSet(x) /\ Names(tables) \subseteq x}
    BY <1>1, <2>5, FS_AddElement
  <2>10. acc.fallbacks + (IF name[1] = "combined" THEN 1 ELSE 0) \in Nat BY <1>1
  <2> HIDE DEF view, U
  <2>11. Append(acc.found, view) \in Seq(U) BY <1>1, <2>8
  <2>12. QED BY <2>7, <2>9, <2>10, <2>11 DEF Naming, U
<1>4. QED BY <1>2, <1>3

(* The lists of tables the views stack, and tables each with a name.          *)
Stacks(found) == [i \in DOMAIN found |-> found[i].tables]
OneName(tables) == \A t, v \in ToSet(tables) : t.name = v.name => t = v

LEMMA NamePartApart ==
  ASSUME Spelling, NEW tables \in Seq(Table), NEW rejected, NEW acc \in Naming(tables, rejected),
         NEW part \in Seq(ToSet(tables)), IsInjective(part), OneName(tables),
         NEW S \in SUBSET ToSet(tables), ToSet(part) \cap S = {},
         Apart(Stacks(acc.found)), Held(Stacks(acc.found)) \subseteq {t.name : t \in S}
  PROVE  LET r == NamePart(acc, part, rejected)
         IN  Apart(Stacks(r.found)) /\ Held(Stacks(r.found)) \subseteq {t.name : t \in S \cup ToSet(part)}
<1> DEFINE members == [i \in DOMAIN part |-> part[i].name]
           name == ViewName(ToSet(members), acc.taken, acc.fallbacks + 1)
           view == [id |-> name, tables |-> members, status |-> IF name \in rejected THEN "rejected" ELSE "active"]
<1>1. acc.found \in Seq(Union)
  <2>1. acc.found \in Seq(Findable(tables, rejected)) BY DEF Naming
  <2>2. QED BY <2>1 DEF Findable
<1>2. CASE Len(part) < 2
  <2>1. NamePart(acc, part, rejected) = acc BY <1>2 DEF NamePart
  <2>2. QED BY <2>1
<1>3. CASE ~(Len(part) < 2)
  <2>1. Len(part) \in Nat /\ DOMAIN part = 1..Len(part) /\ \A x : x \in ToSet(part) <=> \E i \in 1..Len(part) : part[i] = x
    BY InList
  <2>2. ToSet(tables) \subseteq Table /\ ToSet(part) \subseteq ToSet(tables) BY InList
  <2>3. \A i \in 1..Len(part) : part[i].name \in Words
    <3> TAKE i \in 1..Len(part)
    <3>1. part[i] \in Table BY <2>1, <2>2
    <3>2. QED BY <3>1 DEF Table, Words
  <2>4. members \in Seq(Words) /\ ToSet(members) = {t.name : t \in ToSet(part)}
    BY <2>1, <2>3 DEF ToSet
  <2>5. IsInjective(members)
    <3> SUFFICES ASSUME NEW i \in 1..Len(part), NEW j \in 1..Len(part), part[i].name = part[j].name PROVE i = j
      BY <2>1 DEF IsInjective
    <3>1. part[i] = part[j] BY <2>1, <2>2 DEF OneName
    <3>2. QED BY <2>1, <3>1 DEF IsInjective
  <2>6. ToSet(members) \cap Held(Stacks(acc.found)) = {}
    <3> SUFFICES ASSUME NEW t \in ToSet(part), NEW v \in S, t.name = v.name PROVE FALSE BY <2>4
    <3>1. t = v BY <2>2 DEF OneName
    <3>2. QED BY <3>1
  <2>7. NamePart(acc, part, rejected).found = Append(acc.found, view) BY <1>3 DEF NamePart
  <2>8. view.tables = members OBVIOUS
  <2> HIDE DEF view, members
  <2>9. /\ Len(acc.found) \in Nat /\ DOMAIN acc.found = 1..Len(acc.found)
        /\ \A i \in 1..Len(acc.found) : acc.found[i] \in Union
    BY <1>1, InList
  <2>10. Stacks(acc.found) \in Seq(Seq(Words)) /\ Len(Stacks(acc.found)) = Len(acc.found)
    <3>1. \A i \in 1..Len(acc.found) : acc.found[i].tables \in Seq(Words)
      <4> TAKE i \in 1..Len(acc.found)
      <4>1. acc.found[i] \in Union BY <2>9
      <4>2. QED BY <4>1 DEF Union, Words
    <3>2. QED BY <2>9, <3>1 DEF Stacks
  <2>11. Stacks(Append(acc.found, view)) = Append(Stacks(acc.found), members)
    <3> DEFINE n == Len(acc.found)
    <3>1. PICK f : f = Append(acc.found, view) OBVIOUS
    <3>2. DOMAIN f = 1..(n + 1) /\ f[n + 1] = view /\ \A i \in 1..n : f[i] = acc.found[i] BY <2>9, <3>1
    <3>3. PICK g : g = Append(Stacks(acc.found), members) OBVIOUS
    <3>4. /\ DOMAIN g = 1..(n + 1) /\ g[n + 1] = members /\ \A i \in 1..n : g[i] = Stacks(acc.found)[i]
          /\ g = [i \in 1..(n + 1) |-> g[i]]
      BY <2>9, <2>10, <3>3
    <3>5. \A i \in 1..n : Stacks(acc.found)[i] = acc.found[i].tables BY <2>9 DEF Stacks
    <3>6. \A i \in 1..(n + 1) : i \in 1..n \/ i = n + 1 BY <2>9
    <3> HIDE DEF n
    <3>7. \A i \in 1..(n + 1) : g[i] = f[i].tables BY <2>8, <3>2, <3>4, <3>5, <3>6
    <3>8. Stacks(f) = [i \in 1..(n + 1) |-> f[i].tables] BY <3>2 DEF Stacks
    <3>9. Stacks(f) = g BY <3>4, <3>7, <3>8
    <3>10. QED BY <3>1, <3>3, <3>9
  <2>12. PICK ps \in Seq(Seq(Words)) : ps = Stacks(acc.found) BY <2>10
  <2>13. Apart(Append(ps, members)) /\ Held(Append(ps, members)) = Held(ps) \cup ToSet(members)
    BY <2>4, <2>5, <2>6, <2>12, PartAdded
  <2>14. QED BY <2>4, <2>7, <2>11, <2>12, <2>13
<1>4. QED BY <1>2, <1>3

LEMMA UnionsAre ==
  ASSUME Spelling, NEW tables \in Seq(Table), NEW existing
  PROVE  /\ DetectUnions(tables, existing) \in Seq(Union)
         /\ \A u \in ToSet(DetectUnions(tables, existing)) :
              u \in Union /\ u.id \notin Names(tables) /\ ToSet(u.tables) \subseteq Names(tables)
         /\ \A u \in ToSet(DetectUnions(tables, existing)) : u.id \in RejectedIds(existing) => u.status = "rejected"
         /\ OneName(tables) /\ IsInjective(tables) => Apart(Stacks(DetectUnions(tables, existing)))
<1> DEFINE A == Naming(tables, RejectedIds(existing))
           b == [taken |-> Names(tables), fallbacks |-> 0, found |-> <<>>]
           parts == AllParts(tables)
           n == Len(parts)
           rejected == RejectedIds(existing)
           Recurs(g) == g = [i \in 0..n |-> IF i = 0 THEN b ELSE NamePart(g[i - 1], parts[i], rejected)]
           F == [i \in 1..n |-> [a \in A |-> NamePart(a, parts[i], rejected)]]
           U == Findable(tables, RejectedIds(existing))
<1>1. tables \in Seq(ToSet(tables)) /\ ToSet(tables) \subseteq Table /\ IsFiniteSet(ToSet(tables))
  <2>1. Len(tables) \in Nat /\ DOMAIN tables = 1..Len(tables) /\ \A i \in 1..Len(tables) : tables[i] \in ToSet(tables)
    BY InList
  <2>2. tables = [i \in 1..Len(tables) |-> tables[i]] OBVIOUS
  <2>3. QED BY <2>1, <2>2, InList
<1>2. parts \in Seq(Seq(ToSet(tables))) /\ (IsInjective(tables) => Apart(parts)) BY <1>1, AllPartsAre
<1>3. n \in Nat BY <1>2
<1>4. b \in A
  <2>1. \A t \in ToSet(tables) : t.name \in Words BY <1>1 DEF Table, Words
  <2>2. IsFiniteSet(Names(tables))
    <3> DEFINE f == [t \in ToSet(tables) |-> t.name]
    <3>1. f \in Surjection(ToSet(tables), Names(tables)) BY DEF Surjection, Names
    <3>2. QED BY <1>1, <3>1, FS_Surjection
  <2>3. QED BY <2>1, <2>2 DEF Naming, Names
<1>5. \A a \in A, part \in Seq(ToSet(tables)) : NamePart(a, part, rejected) \in A BY NamePartKeeps
<1> HIDE DEF parts, b, rejected
<1>6. \A a \in A, i \in 1..n : NamePart(a, parts[i], rejected) \in A
  <2> TAKE a \in A, i \in 1..n
  <2>1. parts[i] \in Seq(ToSet(tables)) BY <1>2
  <2>2. QED BY <1>5, <2>1
<1>7. F \in [1..n -> [A -> A]] /\ \A a \in A, i \in 1..n : F[i][a] = NamePart(a, parts[i], rejected) BY <1>6
<1>8. DetectUnions(tables, existing) = (CHOOSE g : Recurs(g))[n].found BY DEF DetectUnions, parts, b, rejected
<1> HIDE DEF n, F, A
<1>9. PICK g : Follows(g, A, b, n, F) BY <1>3, <1>4, <1>7, Recursion
<1>10. Recurs(g)
  <2>1. \A i \in 0..n : i # 0 => i \in 1..n /\ i - 1 \in 0..n BY <1>3
  <2>2. \A i \in 0..n : g[i] = IF i = 0 THEN b ELSE NamePart(g[i - 1], parts[i], rejected)
    BY <1>7, <1>9, <2>1 DEF Follows
  <2>3. g = [i \in 0..n |-> g[i]] BY <1>9 DEF Follows
  <2>4. QED BY <2>2, <2>3
<1>11. PICK h : Recurs(h) /\ DetectUnions(tables, existing) = h[n].found BY <1>8, <1>10
<1>12. h[0] = b /\ \A i \in 1..n : h[i] = NamePart(h[i - 1], parts[i], rejected) BY <1>3, <1>11
<1> DEFINE Earlier(i) == UNION {ToSet(parts[j]) : j \in 1..i}
           Good(i) == /\ h[i] \in A
                      /\ OneName(tables) /\ IsInjective(tables) =>
                           /\ Apart(Stacks(h[i].found))
                           /\ Held(Stacks(h[i].found)) \subseteq {t.name : t \in Earlier(i)}
           G == {i \in 0..n : Good(i)}
<1>13. 0 \in G
  <2>1. b.found = <<>> BY DEF b
  <2>2. Stacks(<<>>) = <<>> BY DEF Stacks
  <2>3. Apart(<<>>) /\ Held(<<>>) = {} BY DEF Apart, Held
  <2>4. Good(0) BY <1>4, <1>12, <2>1, <2>2, <2>3
  <2>5. QED BY <1>3, <2>4
<1>14. ASSUME NEW i \in 1..n, i - 1 \in G PROVE i \in G
  <2>1. PICK a : a = h[i - 1] OBVIOUS
  <2>2. a \in A /\ h[i] = NamePart(a, parts[i], rejected) /\ i \in 0..n BY <1>3, <1>12, <1>14, <2>1
  <2>3. h[i] \in A BY <1>6, <2>2
  <2>4. ASSUME OneName(tables), IsInjective(tables)
        PROVE  Apart(Stacks(h[i].found)) /\ Held(Stacks(h[i].found)) \subseteq {t.name : t \in Earlier(i)}
    <3>1. Apart(Stacks(a.found)) /\ Held(Stacks(a.found)) \subseteq {t.name : t \in Earlier(i - 1)}
      BY <1>14, <2>1, <2>4
    <3> HIDE DEF G, Good
    <3>2. DOMAIN parts = 1..n /\ \A j \in 1..n : parts[j] \in Seq(ToSet(tables)) /\ ToSet(parts[j]) \subseteq ToSet(tables)
      <4>1. DOMAIN parts = 1..n /\ \A j \in 1..n : parts[j] \in Seq(ToSet(tables)) BY <1>2, InList DEF n
      <4>2. QED BY <4>1, InList
    <3>3. (\A j \in 1..(i - 1) : j \in 1..n /\ j # i /\ j \in 1..i) /\ i \in 1..i BY <1>3
    <3>4. IsInjective(parts[i]) /\ \A j \in 1..(i - 1) : ToSet(parts[j]) \cap ToSet(parts[i]) = {}
      BY <1>2, <2>4, <3>2, <3>3 DEF Apart
    <3>5. Earlier(i - 1) \in SUBSET ToSet(tables) /\ ToSet(parts[i]) \cap Earlier(i - 1) = {}
      BY <3>2, <3>3, <3>4
    <3>6. Earlier(i - 1) \cup ToSet(parts[i]) \subseteq Earlier(i) BY <3>3
    <3> HIDE DEF Earlier
    <3>7. /\ Apart(Stacks(h[i].found))
          /\ Held(Stacks(h[i].found)) \subseteq {t.name : t \in Earlier(i - 1) \cup ToSet(parts[i])}
      BY <2>2, <2>4, <3>1, <3>2, <3>4, <3>5, NamePartApart DEF A, rejected
    <3>8. QED BY <3>6, <3>7
  <2>5. QED BY <2>2, <2>3, <2>4
<1> HIDE DEF G
<1>15. n \in G
  <2>1. \A i \in 0..n : i \in G BY <1>3, <1>13, <1>14, Throughout
  <2>2. QED BY <1>3, <2>1
<1>16. Good(n) BY <1>15 DEF G
<1>17. h[n].found \in Seq(U) BY <1>16 DEF A, Naming
<1>18. PICK us \in Seq(U) : us = DetectUnions(tables, existing) BY <1>11, <1>17
<1>19. us \in Seq(Union) BY <1>18 DEF Findable
<1>20. ToSet(us) \subseteq U BY InList
<1>21. OneName(tables) /\ IsInjective(tables) => Apart(Stacks(us)) BY <1>11, <1>18, <1>16
<1>22. QED BY <1>18, <1>19, <1>20, <1>21 DEF Findable

------------------------------------------------------------------------------
(* The catalog and the database.  No two tables share a name, and no view has *)
(* a table's.                                                                 *)
NamesDiffer == \A t, v \in ToSet(base) : t.name = v.name => t = v
ViewsAreOver ==
  \A u \in ToSet(unions) : u.id \notin Names(base) /\ ToSet(u.tables) \subseteq Names(base)
BookTyped == uploads \subseteq FileNames \X Contents /\ base \in Seq(Table) /\ unions \in Seq(Union)
CatalogInv ==
  /\ BookTyped
  /\ NamesDiffer /\ ViewsAreOver
  /\ DOMAIN stored = Names(base) /\ \A t \in ToSet(base) : stored[t.name] = t.bytes
  /\ views = ViewsOf(unions)

(* An upload brings at most one new version of a file the session has.        *)
OneNewVersion(batch) ==
  \A up, other \in ToSet(batch) \ uploads :
    up[1] = other[1] /\ (\E u \in uploads : u[1] = up[1]) => up = other

(* Every upload of a run does.  The code does not see to it: sessions.py      *)
(* gives two new versions chosen together one table name, and BothKept fails. *)
OneNewVersionEach == \A batch \in Batches : AddFiles(batch) => OneNewVersion(batch)

(* Tables that are each an upload of their own, and the uploads they were     *)
(* read from.                                                                 *)
OneFile(tables) == \A t, v \in ToSet(tables) : t.file = v.file /\ t.bytes = v.bytes => t = v
Loaded(tables) == {<<t.file, t.bytes>> : t \in ToSet(tables)}

(* What is read of a batch, whatever is in it.                                *)
Reading(batch) ==
  {a \in [seen : SUBSET (FileNames \X Contents), taken : SUBSET Words, tables : Seq(Table),
          new : SUBSET ToSet(batch), bad : BOOLEAN] : IsFiniteSet(a.taken)}

(* While a batch is read: the new tables' names are taken and differ from     *)
(* each other, and from those of every table that will stay; and each new     *)
(* file has been read into one table.                                         *)
Staging(batch) ==
  {a \in Reading(batch) :
     /\ a.seen = uploads \cup a.new /\ a.new \cap uploads = {}
     /\ \A t \in ToSet(a.tables) : t.name \in a.taken
     /\ \A t, v \in ToSet(a.tables) : t.name = v.name => t = v
     /\ \A x \in ToSet(base) :
          x.file \in Replaced(a.new) \/ (x.name \in a.taken /\ \A t \in ToSet(a.tables) : t.name # x.name)
     /\ IsInjective(a.tables) /\ OneFile(a.tables) /\ Loaded(a.tables) = a.new}

(* A file more: its table gets a name that is not taken, once the tables of   *)
(* the file it replaces have given theirs back.                               *)
OwnNames(up) == {t.name : t \in {x \in ToSet(base) : x.file = up[1]}}
TakenFor(a, up) == IF \E u \in uploads : u[1] = up[1] THEN a.taken \ OwnNames(up) ELSE a.taken
AddsTable(batch, a, up, r, row) ==
  /\ row.file = up[1] /\ row.bytes = up[2] /\ row.name \notin TakenFor(a, up)
  /\ r \in Reading(batch) /\ r.seen = a.seen \cup {up} /\ r.new = a.new \cup {up}
  /\ r.taken = TakenFor(a, up) \cup {row.name} /\ r.tables = Append(a.tables, row)
  /\ ToSet(r.tables) = ToSet(a.tables) \cup {row}

LEMMA ReadFileIs ==
  ASSUME BookTyped, Spelling, NEW batch \in Batches, NEW a \in Reading(batch), NEW up \in ToSet(batch),
         up \notin a.seen
  PROVE  \E row \in Table : AddsTable(batch, a, up, ReadFile(a, up), row)
<1> DEFINE taken == TakenFor(a, up)
           name == FirstFree(Stem[up[1]], taken)
           row == [name |-> name, file |-> up[1], bytes |-> up[2]]
<1>1. batch \in Seq(FileNames \X Contents) BY WorkbookAssumption
<1>2. up \in FileNames \X Contents /\ up[1] \in FileNames /\ up[2] \in Contents BY <1>1, InList
<1>3. /\ a.seen \subseteq FileNames \X Contents /\ a.taken \subseteq Words /\ a.tables \in Seq(Table)
      /\ a.new \subseteq ToSet(batch) /\ a.bad \in BOOLEAN /\ IsFiniteSet(a.taken)
  BY DEF Reading
<1>4. ReadFile(a, up) = [seen |-> a.seen \cup {up}, taken |-> taken \cup {name}, tables |-> Append(a.tables, row),
                         new |-> a.new \cup {up}, bad |-> a.bad \/ up[2] \notin Readable]
  BY DEF ReadFile, TakenFor, OwnNames
<1>5. taken \subseteq Words /\ IsFiniteSet(taken) BY <1>3, FS_Subset DEF TakenFor
<1>6. Stem[up[1]] \in Words BY <1>2, WorkbookAssumption DEF Words
<1> HIDE DEF taken
<1>7. name \in Words /\ name \notin taken BY <1>5, <1>6, FreshName
<1> HIDE DEF name
<1>8. row \in Table /\ row.file = up[1] /\ row.bytes = up[2] /\ row.name = name
  BY <1>2, <1>7 DEF Table, Words
<1> HIDE DEF row
<1>9. Append(a.tables, row) \in Seq(Table) /\ ToSet(Append(a.tables, row)) = ToSet(a.tables) \cup {row}
  BY <1>3, <1>8, Appended
<1>10. PICK r : r = ReadFile(a, up) OBVIOUS
<1>11. /\ r.seen = a.seen \cup {up} /\ r.taken = taken \cup {row.name} /\ r.new = a.new \cup {up}
       /\ r.tables = Append(a.tables, row) /\ ToSet(r.tables) = ToSet(a.tables) \cup {row}
  BY <1>4, <1>8, <1>9, <1>10
<1>12. r \in [seen : SUBSET (FileNames \X Contents), taken : SUBSET Words, tables : Seq(Table),
              new : SUBSET ToSet(batch), bad : BOOLEAN]
  <2>1. PICK list \in Seq(Table) : list = Append(a.tables, row) BY <1>9
  <2>2. (a.bad \/ up[2] \notin Readable) \in BOOLEAN OBVIOUS
  <2>3. QED BY <1>2, <1>3, <1>4, <1>5, <1>7, <1>10, <2>1, <2>2
<1>13. IsFiniteSet(r.taken) BY <1>5, <1>11, FS_AddElement
<1>14. r \in Reading(batch) BY <1>12, <1>13 DEF Reading
<1>15. QED BY <1>7, <1>8, <1>10, <1>11, <1>14 DEF taken, AddsTable

LEMMA ReadFileReads ==
  ASSUME BookTyped, Spelling, NEW batch \in Batches, NEW a \in Reading(batch), NEW up \in ToSet(batch)
  PROVE  ReadFile(a, up) \in Reading(batch)
<1>1. CASE up \in a.seen BY <1>1 DEF ReadFile
<1>2. CASE up \notin a.seen
  <2>1. PICK row \in Table : AddsTable(batch, a, up, ReadFile(a, up), row) BY <1>2, ReadFileIs
  <2>2. QED BY <2>1 DEF AddsTable
<1>3. QED BY <1>1, <1>2

LEMMA ReadFileKeeps ==
  ASSUME CatalogInv, Spelling, NEW batch \in Batches, OneNewVersion(batch),
         NEW a \in Staging(batch), NEW up \in ToSet(batch)
  PROVE  ReadFile(a, up) \in Staging(batch)
<1> DEFINE own == {t.name : t \in {x \in ToSet(base) : x.file = up[1]}}
           again == \E u \in uploads : u[1] = up[1]
           taken == IF again THEN a.taken \ own ELSE a.taken
           r == ReadFile(a, up)
<1>1. CASE up \in a.seen BY <1>1 DEF ReadFile
<1>2. CASE up \notin a.seen
  <2>1. /\ a \in Reading(batch) /\ a.tables \in Seq(Table) /\ a.new \subseteq ToSet(batch)
        /\ a.seen = uploads \cup a.new /\ a.new \cap uploads = {}
        /\ \A t \in ToSet(a.tables) : t.name \in a.taken
        /\ \A t, v \in ToSet(a.tables) : t.name = v.name => t = v
        /\ \A x \in ToSet(base) :
             x.file \in Replaced(a.new) \/ (x.name \in a.taken /\ \A t \in ToSet(a.tables) : t.name # x.name)
        /\ IsInjective(a.tables) /\ OneFile(a.tables) /\ Loaded(a.tables) = a.new
    BY DEF Staging, Reading
  <2>2. \A m \in own : \E x \in ToSet(base) : x.file = up[1] /\ x.name = m OBVIOUS
  <2>3. PICK row \in Table : AddsTable(batch, a, up, r, row)
    <3>1. BookTyped BY DEF CatalogInv
    <3>2. a \in Reading(batch) BY <2>1
    <3>3. QED BY <1>2, <3>1, <3>2, ReadFileIs
  <2> HIDE DEF r
  <2>a. /\ row.file = up[1] /\ row.bytes = up[2] /\ row.name \notin taken
        /\ r \in Reading(batch) /\ r.seen = a.seen \cup {up} /\ r.new = a.new \cup {up}
        /\ r.taken = taken \cup {row.name} /\ r.tables = Append(a.tables, row)
        /\ ToSet(r.tables) = ToSet(a.tables) \cup {row}
    BY <2>3 DEF AddsTable, TakenFor, OwnNames
  <2>4. up \notin uploads /\ up \notin a.new /\ up \in ToSet(batch) BY <1>2, <2>1
  <2>5. up[1] \notin Replaced(a.new)
    <3> SUFFICES ASSUME NEW u \in a.new, u[1] = up[1], again PROVE FALSE BY DEF Replaced
    <3>1. u \in ToSet(batch) \ uploads BY <2>1
    <3>2. u = up BY <2>4, <3>1 DEF OneNewVersion
    <3>3. QED BY <2>4, <3>2
  <2> HIDE DEF own
  <2>6. /\ Replaced(a.new) \subseteq Replaced(r.new) /\ (again => up[1] \in Replaced(r.new))
    BY <2>a DEF Replaced
  <2>7. \A t \in ToSet(a.tables) : t.name \in taken
    <3> SUFFICES ASSUME NEW t \in ToSet(a.tables) PROVE t.name \in taken OBVIOUS
    <3>1. t.name \notin own BY <2>1, <2>2, <2>5
    <3>2. QED BY <2>1, <3>1
  <2>8. ASSUME NEW x \in ToSet(base), x.file \notin Replaced(r.new)
        PROVE  x.name \in taken /\ \A t \in ToSet(a.tables) : t.name # x.name
    <3>1. x.name \in a.taken /\ \A t \in ToSet(a.tables) : t.name # x.name BY <2>1, <2>6, <2>8
    <3>2. again => x.file # up[1] BY <2>6, <2>8
    <3>3. again => x.name \notin own BY <2>2, <3>2 DEF CatalogInv, NamesDiffer
    <3>4. QED BY <3>1, <3>3
  <2> HIDE DEF taken, again
  <2>9. r.seen = uploads \cup r.new /\ r.new \cap uploads = {} BY <2>1, <2>a, <2>4
  <2>10. \A t \in ToSet(r.tables) : t.name \in r.taken BY <2>a, <2>7
  <2>11. \A t, v \in ToSet(r.tables) : t.name = v.name => t = v BY <2>1, <2>a, <2>7
  <2>12. \A x \in ToSet(base) :
           x.file \in Replaced(r.new) \/ (x.name \in r.taken /\ \A t \in ToSet(r.tables) : t.name # x.name)
    BY <2>a, <2>8
  <2>13. <<row.file, row.bytes>> = up
    <3>1. batch \in Seq(FileNames \X Contents) BY WorkbookAssumption
    <3>2. up \in FileNames \X Contents BY <3>1, InList
    <3>3. QED BY <2>a, <3>2
  <2>14. \A t \in ToSet(a.tables) : <<t.file, t.bytes>> # up BY <2>1, <2>4 DEF Loaded
  <2>15. row \notin ToSet(a.tables) BY <2>13, <2>14
  <2>16. IsInjective(r.tables) BY <2>1, <2>a, <2>15, AppendedOnce
  <2>17. OneFile(r.tables)
    <3>1. \A t \in ToSet(a.tables) : ~(t.file = row.file /\ t.bytes = row.bytes) BY <2>13, <2>14
    <3>2. QED BY <2>1, <2>a, <3>1 DEF OneFile
  <2>18. Loaded(r.tables) = r.new BY <2>1, <2>a, <2>13 DEF Loaded
  <2>19. r \in Staging(batch)
    BY <2>a, <2>9, <2>10, <2>11, <2>12, <2>16, <2>17, <2>18 DEF Staging
  <2>20. QED BY <2>19 DEF r
<1>3. QED BY <1>1, <1>2

(* What every file of a batch keeps, the reading of it all keeps.             *)
StageStart ==
  [seen |-> uploads, taken |-> Names(base) \cup ActiveViews(unions), tables |-> <<>>, new |-> {}, bad |-> FALSE]

LEMMA StageFrom ==
  ASSUME NEW batch \in Batches, NEW A, StageStart \in A,
         \A a \in A, up \in ToSet(batch) : ReadFile(a, up) \in A
  PROVE  Stage(batch) \in A
<1> DEFINE n == Len(batch)
           b == StageStart
           Recurs(g) == g = [i \in 0..n |-> IF i = 0 THEN b ELSE ReadFile(g[i - 1], batch[i])]
           F == [i \in 1..n |-> [a \in A |-> ReadFile(a, batch[i])]]
<1>1. batch \in Seq(FileNames \X Contents) BY WorkbookAssumption
<1>2. n \in Nat /\ \A i \in 1..n : batch[i] \in ToSet(batch) BY <1>1, InList
<1>3. b \in A OBVIOUS
<1>4. \A a \in A, i \in 1..n : ReadFile(a, batch[i]) \in A BY <1>2
<1>5. F \in [1..n -> [A -> A]] /\ \A a \in A, i \in 1..n : F[i][a] = ReadFile(a, batch[i]) BY <1>4
<1>6. Stage(batch) = (CHOOSE g : Recurs(g))[n] BY DEF Stage, StageStart
<1> HIDE DEF n, F, b
<1>7. PICK g : Follows(g, A, b, n, F) BY <1>2, <1>3, <1>5, Recursion
<1>8. Recurs(g)
  <2>1. \A i \in 0..n : i # 0 => i \in 1..n /\ i - 1 \in 0..n BY <1>2
  <2>2. \A i \in 0..n : g[i] = IF i = 0 THEN b ELSE ReadFile(g[i - 1], batch[i])
    BY <1>5, <1>7, <2>1 DEF Follows
  <2>3. g = [i \in 0..n |-> g[i]] BY <1>7 DEF Follows
  <2>4. QED BY <2>2, <2>3
<1>9. PICK h : Recurs(h) /\ Stage(batch) = h[n] BY <1>6, <1>8
<1>10. h[0] = b /\ \A i \in 1..n : h[i] = ReadFile(h[i - 1], batch[i]) BY <1>2, <1>9
<1> DEFINE G == {i \in 0..n : h[i] \in A}
<1>11. 0 \in G /\ \A i \in 1..n : i - 1 \in G => i \in G BY <1>2, <1>3, <1>4, <1>10
<1> HIDE DEF G
<1>12. n \in G
  <2>1. \A i \in 0..n : i \in G BY <1>2, <1>11, Throughout
  <2>2. QED BY <1>2, <2>1
<1>13. QED BY <1>9, <1>12 DEF G

LEMMA StageReads ==
  ASSUME BookTyped, Spelling, NEW batch \in Batches
  PROVE  StageStart \in Reading(batch) /\ Stage(batch) \in Reading(batch)
<1> DEFINE b == StageStart
<1>1. b \in Reading(batch)
  <2>1. base \in Seq(Table) /\ unions \in Seq(Union) /\ uploads \subseteq FileNames \X Contents BY DEF BookTyped
  <2>2. /\ ToSet(base) \subseteq Table /\ IsFiniteSet(ToSet(base))
        /\ ToSet(unions) \subseteq Union /\ IsFiniteSet(ToSet(unions))
    BY <2>1, InList
  <2>3. IsFiniteSet(Names(base)) /\ Names(base) \subseteq Words
    <3> DEFINE f == [t \in ToSet(base) |-> t.name]
    <3>1. f \in Surjection(ToSet(base), Names(base)) BY DEF Surjection, Names
    <3>2. Names(base) \subseteq Words BY <2>2 DEF Names, Table, Words
    <3>3. QED BY <2>2, <3>1, <3>2, FS_Surjection
  <2>4. IsFiniteSet(ActiveViews(unions)) /\ ActiveViews(unions) \subseteq Words
    <3> DEFINE shown == {u \in ToSet(unions) : u.status = "active"}
               f == [u \in shown |-> u.id]
    <3>1. IsFiniteSet(shown) BY <2>2, FS_Subset
    <3>2. f \in Surjection(shown, ActiveViews(unions)) BY DEF Surjection, ActiveViews
    <3>3. ActiveViews(unions) \subseteq Words BY <2>2 DEF ActiveViews, Union, Words
    <3>4. QED BY <3>1, <3>2, <3>3, FS_Surjection
  <2>5. IsFiniteSet(b.taken) BY <2>3, <2>4, FS_Union DEF StageStart
  <2>6. b \in [seen : SUBSET (FileNames \X Contents), taken : SUBSET Words, tables : Seq(Table),
               new : SUBSET ToSet(batch), bad : BOOLEAN]
    BY <2>1, <2>3, <2>4 DEF StageStart
  <2>7. QED BY <2>5, <2>6 DEF Reading
<1> HIDE DEF b
<1>2. \A a \in Reading(batch), up \in ToSet(batch) : ReadFile(a, up) \in Reading(batch) BY ReadFileReads
<1>3. PICK A : A = Reading(batch) OBVIOUS
<1>4. Stage(batch) \in A BY <1>1, <1>2, <1>3, StageFrom DEF b
<1>5. QED BY <1>1, <1>3, <1>4 DEF b

LEMMA StageIs ==
  ASSUME CatalogInv, Spelling, NEW batch \in Batches, OneNewVersion(batch)
  PROVE  Stage(batch) \in Staging(batch)
<1> DEFINE b == StageStart
<1>1. b \in Staging(batch)
  <2>1. b \in Reading(batch) BY StageReads DEF CatalogInv
  <2>2. /\ b.seen = uploads \cup b.new /\ b.new = {} /\ b.tables = <<>>
        /\ b.taken = Names(base) \cup ActiveViews(unions)
    BY DEF StageStart
  <2> HIDE DEF b
  <2>3. ToSet(b.tables) = {} /\ IsInjective(b.tables) BY <2>2 DEF ToSet, IsInjective
  <2>4. \A x \in ToSet(base) : x.name \in b.taken BY <2>2 DEF Names
  <2>5. OneFile(b.tables) /\ Loaded(b.tables) = {} BY <2>3 DEF OneFile, Loaded
  <2>6. QED BY <2>1, <2>2, <2>3, <2>4, <2>5 DEF Staging
<1>2. \A a \in Staging(batch), up \in ToSet(batch) : ReadFile(a, up) \in Staging(batch) BY ReadFileKeeps
<1> HIDE DEF b
<1>3. PICK A : A = Staging(batch) OBVIOUS
<1>4. Stage(batch) \in A BY <1>1, <1>2, <1>3, StageFrom DEF b
<1>5. QED BY <1>3, <1>4

(* The session after a rebuild: the unions found are over the tables there    *)
(* are, and the database gets exactly their views.                            *)
LEMMA RebuildKeeps ==
  ASSUME Spelling, NEW tables \in Seq(Table), NEW ls, NEW us, Rebuild(tables, ls, us)
  PROVE  /\ base' = tables /\ unions' \in Seq(Union) /\ ViewsAreOver' /\ views' = ViewsOf(unions')
<1>1. base' = tables /\ unions' = DetectUnions(tables, us) /\ views' = ViewsOf(unions') BY DEF Rebuild
<1>2. /\ unions' \in Seq(Union)
      /\ \A u \in ToSet(unions') : u.id \notin Names(tables) /\ ToSet(u.tables) \subseteq Names(tables)
  BY <1>1, UnionsAre
<1>3. ViewsAreOver' BY <1>1, <1>2 DEF ViewsAreOver
<1>4. QED BY <1>1, <1>2, <1>3

(* The tables that stay and those that come.                                  *)
LEMMA UploadRebuilds ==
  ASSUME BookTyped, Spelling, NEW batch \in Batches, AddFiles(batch)
  PROVE  \E tables \in Seq(Table) : Rebuild(tables, links, unions)
<1> DEFINE s == Stage(batch)
           stay == Among(base, {t \in ToSet(base) : t.file \notin Replaced(s.new)})
<1>1. base \in Seq(Table) BY DEF BookTyped
<1>2. Rebuild(stay \o s.tables, links, unions) BY DEF AddFiles
<1>3. s.tables \in Seq(Table)
  <2>1. s \in Reading(batch) BY StageReads
  <2> HIDE DEF s
  <2>2. QED BY <2>1 DEF Reading
<1>4. stay \in Seq(Table) BY <1>1, AmongIs
<1> HIDE DEF s, stay
<1>5. stay \o s.tables \in Seq(Table) BY <1>3, <1>4, Joined
<1>6. QED BY <1>2, <1>5

LEMMA UploadKeeps ==
  ASSUME CatalogInv, Spelling, NEW batch \in Batches, OneNewVersion(batch), AddFiles(batch)
  PROVE  CatalogInv'
<1> DEFINE s == Stage(batch)
           R == Replaced(s.new)
           gone == Among(base, {t \in ToSet(base) : t.file \in R})
           stay == Among(base, {t \in ToSet(base) : t.file \notin R})
           Named(n, j) == s.tables[j].name = n /\ \A k \in (j + 1)..Len(s.tables) : s.tables[k].name # n
           Bytes(n) == LET i == CHOOSE j \in DOMAIN s.tables : Named(n, j) IN s.tables[i].bytes
           kept == DOMAIN stored \ Names(gone)
           tables == stay \o s.tables
           loaded == [n \in kept \cup Names(s.tables) |-> IF n \in Names(s.tables) THEN Bytes(n) ELSE stored[n]]
<1>1. base \in Seq(Table) /\ NamesDiffer /\ uploads \subseteq FileNames \X Contents
      /\ DOMAIN stored = Names(base) /\ \A t \in ToSet(base) : stored[t.name] = t.bytes
  BY DEF CatalogInv, BookTyped
<1>2. stored' = loaded /\ uploads' = {u \in uploads : u[1] \notin R} \cup s.new /\ Rebuild(tables, links, unions)
  BY DEF AddFiles
<1>3. s \in Staging(batch) BY StageIs
<1> HIDE DEF s
<1>4. /\ s.tables \in Seq(Table) /\ s.new \subseteq ToSet(batch)
      /\ \A t, v \in ToSet(s.tables) : t.name = v.name => t = v
      /\ \A x \in ToSet(base) : x.file \in R \/ \A t \in ToSet(s.tables) : t.name # x.name
  BY <1>3 DEF Staging, Reading
<1> HIDE DEF R
<1>5. stay \in Seq(Table) /\ ToSet(stay) = {t \in ToSet(base) : t.file \notin R}
      /\ ToSet(gone) = {t \in ToSet(base) : t.file \in R}
  BY <1>1, AmongIs
<1> HIDE DEF stay, gone
<1>6. tables \in Seq(Table) /\ ToSet(tables) = ToSet(stay) \cup ToSet(s.tables) BY <1>4, <1>5, Joined
<1> HIDE DEF tables
<1>7. base' = tables /\ unions' \in Seq(Union) /\ ViewsAreOver' /\ views' = ViewsOf(unions')
  BY <1>2, <1>6, RebuildKeeps
<1>8. uploads' \subseteq FileNames \X Contents
  <2>1. batch \in Seq(FileNames \X Contents) BY WorkbookAssumption
  <2>2. ToSet(batch) \subseteq FileNames \X Contents BY <2>1, InList
  <2>3. QED BY <1>1, <1>2, <1>4, <2>2
<1>9. \A t, v \in ToSet(tables) : t.name = v.name => t = v
  <2> TAKE t, v \in ToSet(tables)
  <2>1. CASE t \in ToSet(stay) /\ v \in ToSet(stay) BY <1>1, <1>5, <2>1 DEF NamesDiffer
  <2>2. CASE t \in ToSet(stay) /\ v \in ToSet(s.tables) BY <1>4, <1>5, <2>2
  <2>3. CASE t \in ToSet(s.tables) /\ v \in ToSet(stay) BY <1>4, <1>5, <2>3
  <2>4. CASE t \in ToSet(s.tables) /\ v \in ToSet(s.tables) BY <1>4, <2>4
  <2>5. QED BY <1>6, <2>1, <2>2, <2>3, <2>4
<1>10. Names(tables) = Names(stay) \cup Names(s.tables) BY <1>6 DEF Names
<1>11. kept = Names(stay)
  <2>1. ASSUME NEW n \in kept PROVE n \in Names(stay)
    <3>1. PICK t \in ToSet(base) : t.name = n BY <1>1 DEF Names
    <3>2. t \notin ToSet(gone) BY <3>1 DEF Names
    <3>3. QED BY <1>5, <3>1, <3>2 DEF Names
  <2>2. ASSUME NEW t \in ToSet(stay) PROVE t.name \in kept
    <3>1. t \in ToSet(base) /\ t \notin ToSet(gone) BY <1>5
    <3>2. t.name \in DOMAIN stored BY <1>1, <3>1 DEF Names
    <3>3. \A v \in ToSet(gone) : v.name # t.name BY <1>1, <1>5, <3>1 DEF NamesDiffer
    <3>4. QED BY <3>2, <3>3 DEF Names
  <2>3. QED BY <2>1, <2>2 DEF Names
<1> HIDE DEF kept
<1>12. ASSUME NEW t \in ToSet(s.tables) PROVE Bytes(t.name) = t.bytes
  <2> DEFINE n == Len(s.tables)
             Here == {j \in 1..n : s.tables[j].name = t.name}
             Back == {n - j : j \in Here}
  <2>1. n \in Nat /\ DOMAIN s.tables = 1..n /\ \A j \in 1..n : s.tables[j] \in ToSet(s.tables)
    BY <1>4, InList
  <2>2. \E i \in 1..n : s.tables[i] = t BY <1>4, InList
  <2>3. Here # {} BY <2>2
  <2> HIDE DEF n
  <2>a. \A j \in 1..n : n - j \in Nat BY <2>1
  <2>b. \A j \in Here : j \in 1..n OBVIOUS
  <2>c. \A k \in Back : \E j \in Here : k = n - j OBVIOUS
  <2>4. Back \subseteq Nat /\ Back # {} BY <2>3, <2>a, <2>b, <2>c
  <2>5. PICK m \in Back : \A k \in Back : m <= k BY <2>4, Least
  <2>6. PICK j \in Here : m = n - j OBVIOUS
  <2>7. ASSUME NEW k \in (j + 1)..n PROVE s.tables[k].name # t.name
    <3>1. k \in 1..n /\ n - k < n - j BY <2>1
    <3>2. k \in Here => n - k \in Back OBVIOUS
    <3>a. j \in 1..n BY <2>b
    <3>b. n \in Int /\ j \in Int /\ k \in Int BY <2>1, <3>a
    <3>c. n - k \in Back => n - j <= n - k BY <2>5, <2>6
    <3>3. k \notin Here BY <3>1, <3>2, <3>b, <3>c
    <3>4. QED BY <3>1, <3>3
  <2>8. \E i \in DOMAIN s.tables : Named(t.name, i) BY <2>1, <2>6, <2>7
  <2> DEFINE i == CHOOSE i \in DOMAIN s.tables : Named(t.name, i)
  <2>9. i \in DOMAIN s.tables /\ Named(t.name, i) BY <2>8
  <2> HIDE DEF i
  <2>10. s.tables[i] = t BY <1>4, <2>1, <2>9
  <2>11. Bytes(t.name) = s.tables[i].bytes BY DEF i
  <2>12. QED BY <2>10, <2>11
<1> HIDE DEF Bytes
<1>13. DOMAIN stored' = Names(base') BY <1>2, <1>7, <1>10, <1>11
<1>14. ASSUME NEW t \in ToSet(tables) PROVE stored'[t.name] = t.bytes
  <2>1. t.name \in kept \cup Names(s.tables) BY <1>10, <1>11 DEF Names
  <2>2. CASE t \in ToSet(s.tables)
    <3>1. t.name \in Names(s.tables) BY <2>2 DEF Names
    <3>2. QED BY <1>2, <1>12, <2>1, <2>2, <3>1
  <2>3. CASE t \in ToSet(stay)
    <3>1. t \in ToSet(base) /\ t.file \notin R BY <1>5, <2>3
    <3>2. t.name \notin Names(s.tables) BY <1>4, <3>1 DEF Names
    <3>3. QED BY <1>1, <1>2, <2>1, <3>1, <3>2
  <2>4. QED BY <1>6, <2>2, <2>3
<1>15. NamesDiffer' BY <1>7, <1>9 DEF NamesDiffer
<1>16. QED BY <1>6, <1>7, <1>8, <1>13, <1>14, <1>15 DEF CatalogInv, BookTyped

(* A decision rebuilds the catalog over the same tables.                      *)
LEMMA DecisionKeeps ==
  ASSUME CatalogInv, Spelling, NEW ls, NEW us, Rebuild(base, ls, us), UNCHANGED <<uploads, stored>>
  PROVE  CatalogInv'
<1>1. base \in Seq(Table) BY DEF CatalogInv, BookTyped
<1>2. base' = base /\ unions' \in Seq(Union) /\ ViewsAreOver' /\ views' = ViewsOf(unions') BY <1>1, RebuildKeeps
<1>3. NamesDiffer' BY <1>2 DEF CatalogInv, NamesDiffer
<1>4. QED BY <1>1, <1>2, <1>3 DEF CatalogInv, BookTyped

LEMMA CatalogIsInductive ==
  ASSUME Spelling
  PROVE  /\ BookInit => CatalogInv
         /\ CatalogInv /\ [BookNext]_bookVars /\ [OneNewVersionEach]_bookVars => CatalogInv'
         /\ CatalogInv => CatalogIsDatabase
<1>1. BookInit => CatalogInv
  <2> SUFFICES ASSUME BookInit PROVE CatalogInv OBVIOUS
  <2>1. uploads = {} /\ base = <<>> /\ unions = <<>> /\ stored = <<>> /\ views = <<>> BY DEF BookInit
  <2>2. ToSet(base) = {} /\ ToSet(unions) = {} BY <2>1 DEF ToSet
  <2>3. Names(base) = {} /\ ActiveViews(unions) = {} BY <2>2 DEF Names, ActiveViews
  <2>4. DOMAIN stored = {} BY <2>1
  <2>5. views = ViewsOf(unions)
    <3>1. ViewsOf(unions) = [v \in {} |-> (CHOOSE u \in ToSet(unions) : u.id = v).tables] BY <2>3 DEF ViewsOf
    <3>2. \A f : <<>> = [v \in {} |-> f] OBVIOUS
    <3>3. QED BY <2>1, <3>1
  <2>6. base \in Seq(Table) /\ unions \in Seq(Union) BY <2>1
  <2>7. QED BY <2>1, <2>2, <2>3, <2>4, <2>5, <2>6 DEF CatalogInv, BookTyped, NamesDiffer, ViewsAreOver
<1>2. CatalogInv /\ [BookNext]_bookVars /\ [OneNewVersionEach]_bookVars => CatalogInv'
  <2> SUFFICES ASSUME CatalogInv, [BookNext]_bookVars, [OneNewVersionEach]_bookVars PROVE CatalogInv' OBVIOUS
  <2>1. ASSUME NEW batch \in Batches, AddFiles(batch) PROVE CatalogInv'
    <3>1. CASE UNCHANGED bookVars BY <3>1 DEF bookVars, CatalogInv, BookTyped, NamesDiffer, ViewsAreOver
    <3>2. CASE OneNewVersionEach BY <2>1, <3>2, UploadKeeps DEF OneNewVersionEach
    <3>3. QED BY <3>1, <3>2
  <2>2. ASSUME NEW id, NEW status, SetLinkStatus(id, status) PROVE CatalogInv'
    BY <2>2, DecisionKeeps DEF SetLinkStatus
  <2>3. ASSUME NEW id, NEW status, SetUnionStatus(id, status) PROVE CatalogInv'
    BY <2>3, DecisionKeeps DEF SetUnionStatus
  <2>4. CASE UNCHANGED bookVars
    BY <2>4 DEF bookVars, CatalogInv, BookTyped, NamesDiffer, ViewsAreOver
  <2>5. QED BY <2>1, <2>2, <2>3, <2>4 DEF BookNext
<1>3. CatalogInv => CatalogIsDatabase
  <2> SUFFICES ASSUME CatalogInv PROVE CatalogIsDatabase OBVIOUS
  <2>1. DOMAIN views = ActiveViews(unions) BY DEF CatalogInv, ViewsOf
  <2>2. \A v \in ActiveViews(unions) : \E u \in ToSet(unions) : u.id = v BY DEF ActiveViews
  <2>3. DOMAIN stored \cap DOMAIN views = {} BY <2>1, <2>2 DEF CatalogInv, ViewsAreOver
  <2>4. ASSUME NEW v \in DOMAIN views PROVE ToSet(views[v]) \subseteq DOMAIN stored
    <3>1. PICK w : w = CHOOSE u \in ToSet(unions) : u.id = v OBVIOUS
    <3>2. w \in ToSet(unions) BY <2>1, <2>2, <3>1
    <3>3. views[v] = w.tables BY <2>1, <3>1 DEF CatalogInv, ViewsOf
    <3>4. QED BY <3>2, <3>3 DEF CatalogInv, ViewsAreOver
  <2>5. QED BY <2>1, <2>3, <2>4 DEF CatalogInv, CatalogIsDatabase
<1>4. QED BY <1>1, <1>2, <1>3

(* The catalog describes the database, whatever is uploaded, replaced and     *)
(* decided: the tables it lists are those of the database with the bytes it   *)
(* says, and a view stands for each active union, over tables there are.  It  *)
(* is so in every run whose uploads bring one new version of a file at a time *)
(* (the code does not see to that; with two it fails, which BothKept shows).  *)
THEOREM CatalogMeansDatabase ==
  ASSUME Spelling
  PROVE  BookSpec /\ [][OneNewVersionEach]_bookVars => []CatalogIsDatabase
<1>1. BookInit => CatalogInv BY CatalogIsInductive
<1>2. CatalogInv /\ [BookNext]_bookVars /\ [OneNewVersionEach]_bookVars => CatalogInv' BY CatalogIsInductive
<1>3. CatalogInv => CatalogIsDatabase BY CatalogIsInductive
<1>4. QED BY <1>1, <1>2, <1>3, PTL DEF BookSpec

(* Whatever the uploads are, the catalog lists tables and unions.             *)
LEMMA BookIsTyped ==
  ASSUME Spelling
  PROVE  /\ BookInit => BookTyped
         /\ BookTyped /\ [BookNext]_bookVars => BookTyped'
<1>1. BookInit => BookTyped BY DEF BookInit, BookTyped
<1>2. BookTyped /\ [BookNext]_bookVars => BookTyped'
  <2> SUFFICES ASSUME BookTyped, [BookNext]_bookVars PROVE BookTyped' OBVIOUS
  <2>1. ASSUME NEW tables \in Seq(Table), NEW ls, NEW us, Rebuild(tables, ls, us)
        PROVE  base' \in Seq(Table) /\ unions' \in Seq(Union)
    BY <2>1, RebuildKeeps
  <2>2. ASSUME NEW batch \in Batches, AddFiles(batch) PROVE BookTyped'
    <3> DEFINE s == Stage(batch)
    <3>1. s \in Reading(batch) BY StageReads
    <3>2. uploads' = {u \in uploads : u[1] \notin Replaced(s.new)} \cup s.new BY <2>2 DEF AddFiles
    <3> HIDE DEF s
    <3>3. s.new \subseteq ToSet(batch) BY <3>1 DEF Reading
    <3>4. batch \in Seq(FileNames \X Contents) BY WorkbookAssumption
    <3>5. ToSet(batch) \subseteq FileNames \X Contents BY <3>4, InList
    <3>6. uploads' \subseteq FileNames \X Contents BY <3>2, <3>3, <3>5 DEF BookTyped
    <3>7. \E tables \in Seq(Table) : Rebuild(tables, links, unions) BY <2>2, UploadRebuilds
    <3>8. QED BY <2>1, <3>6, <3>7 DEF BookTyped
  <2>3. ASSUME NEW id, NEW status, SetLinkStatus(id, status) PROVE BookTyped'
    <3>1. uploads' = uploads /\ \E ls : Rebuild(base, ls, unions) BY <2>3 DEF SetLinkStatus
    <3>2. QED BY <2>1, <3>1 DEF BookTyped
  <2>4. ASSUME NEW id, NEW status, SetUnionStatus(id, status) PROVE BookTyped'
    <3>1. uploads' = uploads /\ \E us : Rebuild(base, links, us) BY <2>4 DEF SetUnionStatus
    <3>2. QED BY <2>1, <3>1 DEF BookTyped
  <2>5. CASE UNCHANGED bookVars BY <2>5 DEF bookVars, BookTyped
  <2>6. QED BY <2>2, <2>3, <2>4, <2>5 DEF BookNext
<1>3. QED BY <1>1, <1>2

(* What a rebuild over the tables there are, or over new ones, finds of the   *)
(* unions that were rejected.                                                 *)
LEMMA RejectedAgain ==
  ASSUME Spelling, NEW tables \in Seq(Table), NEW ls, NEW us, Rebuild(tables, ls, us),
         NEW v \in ToSet(unions'), v.id \in RejectedIds(us)
  PROVE  v.status = "rejected"
<1>1. unions' = DetectUnions(tables, us) BY DEF Rebuild
<1>2. QED BY <1>1, UnionsAre

(* "A union the user rejected stays rejected": no upload, no decision on a    *)
(* link and no decision on another union offers it again, however the tables  *)
(* it was found over are grouped by then, and whatever the uploads are.       *)
THEOREM RejectionsLast ==
  ASSUME Spelling
  PROVE  BookSpec => UnionsStayRejected
<1> DEFINE Stays == \A u \in ToSet(unions), v \in ToSet(unions') :
                      u.id = v.id /\ v.id \in vetoed' /\ (u.status = "rejected" \/ v.id \notin vetoed)
                        => v.status = "rejected"
<1>1. BookTyped /\ [BookNext]_bookVars => [Stays]_bookVars
  <2> SUFFICES ASSUME BookTyped, BookNext,
                      NEW u \in ToSet(unions), NEW v \in ToSet(unions'),
                      u.id = v.id, v.id \in vetoed', u.status = "rejected" \/ v.id \notin vetoed
               PROVE  v.status = "rejected"
    OBVIOUS
  <2>1. base \in Seq(Table) /\ unions \in Seq(Union) BY DEF BookTyped
  <2>2. u.status = "rejected" => v.id \in RejectedIds(unions) BY DEF RejectedIds
  <2>3. ASSUME NEW batch \in Batches, AddFiles(batch) PROVE v.status = "rejected"
    <3>1. \E tables \in Seq(Table) : Rebuild(tables, links, unions) BY <2>3, UploadRebuilds
    <3>2. vetoed' = vetoed BY <2>3 DEF AddFiles
    <3>3. QED BY <2>2, <3>1, <3>2, RejectedAgain
  <2>4. ASSUME NEW id, NEW status, SetLinkStatus(id, status) PROVE v.status = "rejected"
    <3>1. vetoed' = vetoed BY <2>4 DEF SetLinkStatus
    <3>2. \E ls : Rebuild(base, ls, unions) BY <2>4 DEF SetLinkStatus
    <3>3. QED BY <2>1, <2>2, <3>1, <3>2, RejectedAgain
  <2>5. ASSUME NEW id, NEW status, SetUnionStatus(id, status) PROVE v.status = "rejected"
    <3> DEFINE us == [i \in DOMAIN unions |->
                        IF unions[i].id = id THEN [unions[i] EXCEPT !.status = status] ELSE unions[i]]
    <3>1. Rebuild(base, links, us) BY <2>5 DEF SetUnionStatus
    <3>2. vetoed' = IF status = "rejected" THEN vetoed \cup {id} ELSE vetoed \ {id}
      BY <2>5 DEF SetUnionStatus
    <3>3. PICK i \in DOMAIN unions : unions[i] = u BY DEF ToSet
    <3>4. u \in Union /\ u = unions[i]
      <4>1. ToSet(unions) \subseteq Union BY <2>1, InList
      <4>2. QED BY <3>3, <4>1
    <3>5. us[i].id = v.id /\ us[i].status = "rejected"
      <4>1. CASE u.id = id
        <5>1. status = "rejected" BY <3>2, <4>1
        <5>2. us[i] = [u EXCEPT !.status = status] BY <3>4, <4>1
        <5>3. QED BY <3>4, <5>1, <5>2 DEF Union
      <4>2. CASE u.id # id
        <5>1. us[i] = u BY <3>4, <4>2
        <5>2. v.id \in vetoed BY <3>2, <4>2
        <5>3. QED BY <5>1, <5>2
      <4>3. QED BY <4>1, <4>2
    <3>6. v.id \in RejectedIds(us)
      <4>1. i \in DOMAIN us OBVIOUS
      <4> HIDE DEF us
      <4>2. us[i] \in ToSet(us) BY <4>1 DEF ToSet
      <4>3. QED BY <3>5, <4>2 DEF RejectedIds
    <3> HIDE DEF us
    <3>7. QED BY <2>1, <3>1, <3>6, RejectedAgain
  <2>6. QED BY <2>3, <2>4, <2>5 DEF BookNext
<1>2. BookInit => BookTyped BY BookIsTyped
<1>3. BookTyped /\ [BookNext]_bookVars => BookTyped' BY BookIsTyped
<1>4. QED BY <1>1, <1>2, <1>3, PTL DEF BookSpec, UnionsStayRejected

------------------------------------------------------------------------------
(* Nothing is counted twice: a table is a file the session holds, each one    *)
(* once, and the views stack lists of tables that share none.                 *)
CountInv ==
  /\ CatalogInv
  /\ IsInjective(base) /\ OneFile(base) /\ uploads = Loaded(base)
  /\ Apart(Stacks(unions))

(* The views found over such tables stack none of them twice.                 *)
LEMMA RebuildStacks ==
  ASSUME Spelling, NEW tables \in Seq(Table), NEW ls, NEW us, Rebuild(tables, ls, us),
         OneName(tables), IsInjective(tables)
  PROVE  Apart(Stacks(unions'))
<1>1. unions' = DetectUnions(tables, us) BY DEF Rebuild
<1>2. QED BY <1>1, UnionsAre

LEMMA UploadCounts ==
  ASSUME CountInv, Spelling, NEW batch \in Batches, OneNewVersion(batch), AddFiles(batch)
  PROVE  CountInv'
<1> DEFINE s == Stage(batch)
           R == Replaced(s.new)
           stay == Among(base, {t \in ToSet(base) : t.file \notin R})
           tables == stay \o s.tables
<1>1. CatalogInv /\ IsInjective(base) /\ OneFile(base) /\ uploads = Loaded(base) /\ base \in Seq(Table)
  BY DEF CountInv, CatalogInv, BookTyped
<1>2. CatalogInv' BY <1>1, UploadKeeps
<1>3. uploads' = {u \in uploads : u[1] \notin R} \cup s.new /\ Rebuild(tables, links, unions) BY DEF AddFiles
<1>4. s \in Staging(batch) BY <1>1, StageIs
<1>5. R = {u[1] : u \in uploads} \cap {u[1] : u \in s.new} BY DEF Replaced
<1> HIDE DEF s
<1>6. s.tables \in Seq(Table) /\ IsInjective(s.tables) /\ OneFile(s.tables) /\ Loaded(s.tables) = s.new
  BY <1>4 DEF Staging, Reading
<1> HIDE DEF R
<1>7. stay \in Seq(Table) /\ ToSet(stay) = {t \in ToSet(base) : t.file \notin R} /\ IsInjective(stay)
  BY <1>1, AmongIs
<1> HIDE DEF stay
<1>8. tables \in Seq(Table) /\ ToSet(tables) = ToSet(stay) \cup ToSet(s.tables) BY <1>6, <1>7, Joined
<1>9. ASSUME NEW t \in ToSet(stay), NEW v \in ToSet(s.tables) PROVE t.file # v.file
  <2> SUFFICES ASSUME t.file = v.file PROVE FALSE OBVIOUS
  <2>1. <<t.file, t.bytes>> \in uploads /\ t.file \notin R BY <1>1, <1>7 DEF Loaded
  <2>2. <<v.file, v.bytes>> \in s.new BY <1>6 DEF Loaded
  <2>3. <<t.file, t.bytes>>[1] = t.file /\ <<v.file, v.bytes>>[1] = v.file OBVIOUS
  <2>4. t.file \in R BY <1>5, <2>1, <2>2, <2>3
  <2>5. QED BY <2>1, <2>4
<1>10. IsInjective(tables) BY <1>6, <1>7, <1>9, JoinedOnce
<1> HIDE DEF tables
<1>11. base' = tables BY <1>3 DEF Rebuild
<1>12. OneFile(tables)
  <2>1. \A t, v \in ToSet(stay) : t.file = v.file /\ t.bytes = v.bytes => t = v BY <1>1, <1>7 DEF OneFile
  <2>2. \A t, v \in ToSet(s.tables) : t.file = v.file /\ t.bytes = v.bytes => t = v BY <1>6 DEF OneFile
  <2>3. QED BY <1>8, <1>9, <2>1, <2>2 DEF OneFile
<1>13. uploads' = Loaded(tables)
  <2>1. {u \in uploads : u[1] \notin R} = Loaded(stay)
    <3>1. ASSUME NEW t \in ToSet(base) PROVE <<t.file, t.bytes>>[1] = t.file OBVIOUS
    <3>2. QED BY <1>1, <1>7, <3>1 DEF Loaded
  <2>2. Loaded(tables) = Loaded(stay) \cup Loaded(s.tables) BY <1>8 DEF Loaded
  <2>3. QED BY <1>3, <1>6, <2>1, <2>2
<1>14. OneName(tables) BY <1>2, <1>11 DEF CatalogInv, NamesDiffer, OneName
<1>15. Apart(Stacks(unions')) BY <1>3, <1>8, <1>10, <1>14, RebuildStacks
<1>16. QED BY <1>2, <1>10, <1>11, <1>12, <1>13, <1>15 DEF CountInv

LEMMA DecisionCounts ==
  ASSUME CountInv, Spelling, NEW ls, NEW us, Rebuild(base, ls, us), UNCHANGED <<uploads, stored>>
  PROVE  CountInv'
<1>1. CatalogInv /\ base \in Seq(Table) /\ OneName(base)
  BY DEF CountInv, CatalogInv, BookTyped, NamesDiffer, OneName
<1>2. CatalogInv' BY <1>1, DecisionKeeps
<1>3. base' = base BY DEF Rebuild
<1>4. Apart(Stacks(unions')) BY <1>1, RebuildStacks DEF CountInv
<1>5. QED BY <1>2, <1>3, <1>4 DEF CountInv

(* "Keeping both would stack them in a union view and count every employee    *)
(* twice": whatever is uploaded again, renamed, replaced or decided, every    *)
(* upload the session counts as loaded is one table, every table one upload,  *)
(* and no table stands twice in the views, whichever first-fit part it is in. *)
(* The one exception is an upload with two new versions of a file the session *)
(* has: those end under one table name (BothKept), and nothing is claimed of  *)
(* a run that has such an upload.                                             *)
THEOREM NobodyIsCountedTwice ==
  ASSUME Spelling
  PROVE  BookSpec /\ [][OneNewVersionEach]_bookVars => []NothingCountedTwice
<1>1. BookInit => CountInv
  <2> SUFFICES ASSUME BookInit PROVE CountInv OBVIOUS
  <2>1. CatalogInv BY CatalogIsInductive
  <2>2. uploads = {} /\ base = <<>> /\ unions = <<>> BY DEF BookInit
  <2>3. ToSet(base) = {} /\ IsInjective(base) BY <2>2 DEF ToSet, IsInjective
  <2>4. OneFile(base) /\ Loaded(base) = {} BY <2>3 DEF OneFile, Loaded
  <2>5. Stacks(unions) = <<>> BY <2>2 DEF Stacks
  <2>6. Apart(<<>>) BY DEF Apart
  <2>7. QED BY <2>1, <2>2, <2>3, <2>4, <2>5, <2>6 DEF CountInv
<1>2. CountInv /\ [BookNext]_bookVars /\ [OneNewVersionEach]_bookVars => CountInv'
  <2> SUFFICES ASSUME CountInv, [BookNext]_bookVars, [OneNewVersionEach]_bookVars PROVE CountInv' OBVIOUS
  <2>1. ASSUME NEW batch \in Batches, AddFiles(batch), OneNewVersionEach PROVE CountInv'
    BY <2>1, UploadCounts DEF OneNewVersionEach
  <2>2. ASSUME NEW id, NEW status, SetLinkStatus(id, status) PROVE CountInv'
    BY <2>2, DecisionCounts DEF SetLinkStatus
  <2>3. ASSUME NEW id, NEW status, SetUnionStatus(id, status) PROVE CountInv'
    BY <2>3, DecisionCounts DEF SetUnionStatus
  <2>4. CASE UNCHANGED bookVars
    <3>1. CatalogInv' BY <2>4, CatalogIsInductive DEF CountInv
    <3>2. QED BY <2>4, <3>1 DEF bookVars, CountInv
  <2>5. QED BY <2>1, <2>2, <2>3, <2>4 DEF BookNext
<1>3. CountInv => NothingCountedTwice
  <2> SUFFICES ASSUME CountInv PROVE NothingCountedTwice OBVIOUS
  <2>1. base \in Seq(Table) /\ unions \in Seq(Union) BY DEF CountInv, CatalogInv, BookTyped
  <2>2. Cardinality(uploads) = Len(base)
    <3> DEFINE f == [i \in 1..Len(base) |-> <<base[i].file, base[i].bytes>>]
    <3>1. /\ Len(base) \in Nat /\ DOMAIN base = 1..Len(base) /\ \A i \in 1..Len(base) : base[i] \in ToSet(base)
          /\ \A t : t \in ToSet(base) <=> \E i \in 1..Len(base) : base[i] = t
      BY <2>1, InList
    <3>2. uploads = Loaded(base) /\ OneFile(base) /\ IsInjective(base) BY DEF CountInv
    <3>3. f \in [1..Len(base) -> uploads] BY <3>1, <3>2 DEF Loaded
    <3>4. \A u \in uploads : \E i \in 1..Len(base) : f[i] = u BY <3>1, <3>2 DEF Loaded
    <3>5. ASSUME NEW i \in 1..Len(base), NEW j \in 1..Len(base), f[i] = f[j] PROVE i = j
      <4>1. base[i].file = base[j].file /\ base[i].bytes = base[j].bytes BY <3>5
      <4>2. base[i] = base[j] BY <3>1, <3>2, <4>1 DEF OneFile
      <4>3. QED BY <3>1, <3>2, <4>2 DEF IsInjective
    <3> HIDE DEF f
    <3>6. f \in Bijection(1..Len(base), uploads)
      BY <3>3, <3>4, <3>5 DEF Bijection, Injection, Surjection, IsInjective
    <3>7. QED BY <3>1, <3>6, FS_CountingElements DEF ExistsBijection
  <2>3. /\ DOMAIN unions = 1..Len(unions) /\ DOMAIN Stacks(unions) = DOMAIN unions
        /\ \A i \in DOMAIN unions : Stacks(unions)[i] = unions[i].tables
        /\ \A u \in ToSet(unions) : \E i \in DOMAIN unions : unions[i] = u
    BY <2>1, InList DEF Stacks
  <2>4. \A u \in ToSet(unions) : IsInjective(u.tables) BY <2>3 DEF CountInv, Apart
  <2>5. ASSUME NEW u \in ToSet(unions), NEW v \in ToSet(unions), u # v
        PROVE  ToSet(u.tables) \cap ToSet(v.tables) = {}
    <3>1. PICK i \in DOMAIN unions, j \in DOMAIN unions : unions[i] = u /\ unions[j] = v BY <2>3
    <3>2. i # j BY <2>5, <3>1
    <3>3. ToSet(Stacks(unions)[i]) \cap ToSet(Stacks(unions)[j]) = {} BY <2>3, <3>2 DEF CountInv, Apart
    <3>4. QED BY <2>3, <3>1, <3>3
  <2>6. uploads = {<<t.file, t.bytes>> : t \in ToSet(base)} BY DEF CountInv, Loaded
  <2>7. QED BY <2>2, <2>4, <2>5, <2>6 DEF NothingCountedTwice
<1>4. QED BY <1>1, <1>2, <1>3, PTL DEF BookSpec
=============================================================================
