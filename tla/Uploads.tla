------------------------------- MODULE Uploads -------------------------------
(* Files on their way from the browser into a session: upload_files,        *)
(* _save_upload, _read_in and load_sample (backend/app/main.py), the one     *)
(* reading slot (Limits.ingest in limits.py) and the closing of a session    *)
(* that takes its folder along (Session.close in sessions.py).  An upload is *)
(* a request; every file is saved, and later read, in a step of its own.     *)
EXTENDS Integers, Sequences, FiniteSets

CONSTANTS
  Uploaders,    \* the requests
  SessionOf,    \* [Uploaders -> a session]
  Files,        \* [Uploaders -> Nat]: how many files it carries; 0 is the sample
  WaitS,        \* INGEST_WAIT_S
  MayCrash      \* whether the process can be killed

ASSUME UploadsAssumption ==
  /\ Files \in [Uploaders -> Nat]
  /\ WaitS \in Nat
  /\ MayCrash \in BOOLEAN

Sessions == {SessionOf[u] : u \in Uploaders}

VARIABLES
  open,       \* the sessions the store still has
  folders,    \* the sessions whose folder work_dir/<id>/uploads exists
  disk,       \* the raw files in those folders: <<upload, number>>
  slotFree,   \* _ingest_slot
  pc, at,     \* where an upload is, and at which of its files
  patience,   \* the seconds it still waits for the slot
  outcome,    \* what it is answered
  orphans     \* history: raw files a killed process left behind

vars == <<open, folders, disk, slotFree, pc, at, patience, outcome, orphans>>

\* The last four are server errors: the folder has gone when a file is to be saved, a saved file
\* when it is to be read, the connection when the tables are to be loaded, or the process.
Outcomes == {"none", "loaded", "no session", "too large", "bad file", "busy",
             "no folder", "no file", "closed", "lost"}

Init ==
  /\ open = Sessions
  /\ folders = {}
  /\ disk = {}
  /\ slotFree = TRUE
  /\ pc = [u \in Uploaders |-> "new"]
  /\ at = [u \in Uploaders |-> 1]
  /\ patience = [u \in Uploaders |-> WaitS]
  /\ outcome = [u \in Uploaders |-> "none"]
  /\ orphans = {}

Goto(u, place) == pc' = [pc EXCEPT ![u] = place]
Answer(u, what) == outcome' = [outcome EXCEPT ![u] = what]
IsSample(u) == Files[u] = 0
FilesOf(s) == {f \in disk : SessionOf[f[1]] = s}

(* _session, then mkdir(parents=True, exist_ok=True).                         *)
Arrive(u) ==
  /\ pc[u] = "new"
  /\ IF SessionOf[u] \notin open
     THEN Goto(u, "done") /\ Answer(u, "no session") /\ UNCHANGED folders
     ELSE /\ Goto(u, IF IsSample(u) THEN "waiting" ELSE "saving")
          /\ folders' = IF IsSample(u) THEN folders ELSE folders \cup {SessionOf[u]}
          /\ UNCHANGED outcome
  /\ UNCHANGED <<open, disk, slotFree, at, patience, orphans>>

Onward(u) == IF at[u] < Files[u]
             THEN at' = [at EXCEPT ![u] = @ + 1] /\ UNCHANGED pc
             ELSE at' = [at EXCEPT ![u] = 1] /\ Goto(u, "waiting")

(* target.open("wb") fails when the folder has gone.                          *)
Save(u) ==
  /\ pc[u] = "saving"
  /\ IF SessionOf[u] \in folders
     THEN disk' = disk \cup {<<u, at[u]>>} /\ Onward(u) /\ UNCHANGED outcome
     ELSE Goto(u, "cleanup") /\ Answer(u, "no folder") /\ UNCHANGED <<disk, at>>
  /\ UNCHANGED <<open, folders, slotFree, patience, orphans>>

(* The hard cap: the half-written file is unlinked.                           *)
TooLarge(u) ==
  /\ pc[u] = "saving"
  /\ Goto(u, "cleanup")
  /\ Answer(u, "too large")
  /\ UNCHANGED <<open, folders, disk, slotFree, at, patience, orphans>>

(* acquire(timeout=wait_s): the slot, or the end of patience.                 *)
TakeSlot(u) ==
  /\ pc[u] = "waiting"
  /\ slotFree
  /\ slotFree' = FALSE
  /\ Goto(u, "reading")
  /\ UNCHANGED <<open, folders, disk, at, patience, outcome, orphans>>

\* mutant: the finally releases a slot that was never taken
SlotAlwaysReleased == TRUE
SlotAfterRefusal == slotFree

GiveUp(u) ==
  /\ pc[u] = "waiting"
  /\ patience[u] = 0
  /\ slotFree' = SlotAfterRefusal
  /\ Goto(u, "cleanup")
  /\ Answer(u, "busy")
  /\ UNCHANGED <<open, folders, disk, at, patience, orphans>>

(* add_files reads one file: a missing one raises out of _sha256, a damaged  *)
(* one is an IngestError; the slot is released either way.                    *)
Leave(u, what) == slotFree' = TRUE /\ Goto(u, "cleanup") /\ Answer(u, what)

Missing(u) == ~IsSample(u) /\ <<u, at[u]>> \notin disk

Read(u) ==
  /\ pc[u] = "reading"
  /\ at[u] <= Files[u]
  /\ ~Missing(u)
  /\ \/ at' = [at EXCEPT ![u] = @ + 1] /\ UNCHANGED <<slotFree, pc, outcome>>
     \/ Leave(u, "bad file") /\ UNCHANGED at
  /\ UNCHANGED <<open, folders, disk, patience, orphans>>

ReadMissing(u) ==
  /\ pc[u] = "reading"
  /\ at[u] <= Files[u]
  /\ Missing(u)
  /\ Leave(u, "no file")
  /\ UNCHANGED <<open, folders, disk, at, patience, orphans>>

(* All are read: the tables are loaded, on a connection that may have been    *)
(* closed since.                                                              *)
Load(u) ==
  /\ pc[u] = "reading"
  /\ at[u] > Files[u]
  /\ Leave(u, IF SessionOf[u] \in open THEN "loaded" ELSE "closed")
  /\ UNCHANGED <<open, folders, disk, at, patience, orphans>>

(* finally: shutil.rmtree(folder).                                           *)
Removed(u) == FilesOf(SessionOf[u])

Cleanup(u) ==
  /\ pc[u] = "cleanup"
  /\ Goto(u, "done")
  /\ IF IsSample(u) THEN UNCHANGED <<folders, disk>>
     ELSE folders' = folders \ {SessionOf[u]} /\ disk' = disk \ Removed(u)
  /\ UNCHANGED <<open, slotFree, at, patience, outcome, orphans>>

(* The session is deleted or dropped from the store, with its folder.        *)
Close(s) ==
  /\ s \in open
  /\ open' = open \ {s}
  /\ folders' = folders \ {s}
  /\ disk' = disk \ FilesOf(s)
  /\ UNCHANGED <<slotFree, pc, at, patience, outcome, orphans>>

Waits(u) == pc[u] = "waiting" /\ patience[u] > 0

Second ==
  /\ \E u \in Uploaders : Waits(u)
  /\ patience' = [u \in Uploaders |-> IF Waits(u) THEN patience[u] - 1 ELSE patience[u]]
  /\ UNCHANGED <<open, folders, disk, slotFree, pc, at, outcome, orphans>>

Underway == {u \in Uploaders : pc[u] \notin {"new", "done"}}

(* The process is killed and started again: memory is gone, the disk is not. *)
Crash ==
  /\ MayCrash
  /\ orphans' = orphans \cup disk
  /\ open' = {}
  /\ slotFree' = TRUE
  /\ pc' = [u \in Uploaders |-> IF u \in Underway THEN "done" ELSE pc[u]]
  /\ outcome' = [u \in Uploaders |-> IF u \in Underway THEN "lost" ELSE outcome[u]]
  /\ UNCHANGED <<folders, disk, at, patience>>

Step(u) == Arrive(u) \/ Save(u) \/ TooLarge(u) \/ TakeSlot(u) \/ GiveUp(u) \/ Read(u)
           \/ ReadMissing(u) \/ Load(u) \/ Cleanup(u)

Next == (\E u \in Uploaders : Step(u)) \/ (\E s \in Sessions : Close(s)) \/ Second \/ Crash

(* Requests run on the thread pool and the clock runs.                       *)
Spec == Init /\ [][Next]_vars /\ WF_vars(Second) /\ \A u \in Uploaders : WF_vars(Step(u))

----------------------------------------------------------------------------
(* Every variable has its type: the state of the code named above.            *)
TypeOK ==
  /\ open \subseteq Sessions
  /\ folders \subseteq Sessions
  /\ disk \subseteq Uploaders \X Nat
  /\ slotFree \in BOOLEAN
  /\ pc \in [Uploaders -> {"new", "saving", "waiting", "reading", "cleanup", "done"}]
  /\ at \in [Uploaders -> Nat]
  /\ patience \in [Uploaders -> 0..WaitS]
  /\ outcome \in [Uploaders -> Outcomes]
  /\ orphans \subseteq disk

Readers == {u \in Uploaders : pc[u] = "reading"}

(* "One file read at a time, for everybody": the slot is free exactly when   *)
(* nobody reads, however the readers and those who waited leave.             *)
OneReader == /\ \A u, v \in Readers : u = v
             /\ slotFree <=> Readers = {}

(* "Raw uploads are not kept": a raw file on the disk belongs to an upload   *)
(* that is underway, unless a killed process left it there.                  *)
RawFilesAreUnderway == \A f \in disk \ orphans : f[1] \in Underway

(* "A second reader waits wait_s for its turn and is refused only after     *)
(* that": an upload that has saved its files and then had the slot finds     *)
(* every one of them, unless its session was closed meanwhile.               *)
FilesStay == \A u \in Uploaders : outcome[u] = "no file" => SessionOf[u] \notin open
=============================================================================
