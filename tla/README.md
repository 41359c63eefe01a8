# DarwinLens in TLA+

DarwinLens answers plain-English questions about spreadsheets that people upload. A
language model writes SQL; everything else - admission, sessions, the catalog, the cache of
answers, the pool of model endpoints, the checks of what the model wrote - is ordinary Python
that several threads run at once. This directory models that part of the backend
(`src/backend/app`), checks it with TLC and proves its central claims with TLAPS.

## The system

One process. FastAPI routes run on an event loop or in a thread pool; every question has a
thread of its own. All state is in memory, except the accounts (SQLite) and upload folders.

| component | state it keeps | operations | who else touches it | what is hard |
|---|---|---|---|---|
| Rate limits `limits.py` | `SlidingWindow._hits` per counter | `allow`, `refund` | every route | expiry, refunds and eviction of keys interact; the clock is read before the lock |
| Admission `limits.py`, `main.py`, `mcp_server.py` | `ConcurrencyGate._in_flight`, five counters per question | `question`, `refund_question`, the `ask` route, the MCP tool | event loop and worker threads | five locks taken one by one; failure after some of them; the slot must be free before the answer is sent |
| Uploads `main.py`, `limits.py` | a folder per session, one ingest slot | `upload_files`, `load_sample`, `ingest`, `close` | two uploads of one session | the folder is shared and deleted by whoever ends first; time-outs; a killed process |
| Session workbook `sessions.py`, `catalog/unions.py`, `catalog/relationships.py` | `uploads`, `catalog`, the DuckDB tables and views | `add_files`, `set_link_status`, `set_glossary` | questions read it without a lock | replacement of files, names, decisions that must survive |
| Session store `sessions.py` | `OrderedDict` of sessions, `last_used` | `create`, `get`, `delete` | routes, account deletion | clock read before the lock; connections closed outside it |
| Questions and answer cache `query/pipeline.py` | `_SHARED_CACHE`, `Session.history` | `answer_question`, `_run`, `_remember` | all sessions share the cache | reads of catalog, history, database and cache at different times |
| Repair loop `query/pipeline.py`, `query/generator.py` | local counters and a deadline | `_generate_and_execute`, the rest of `_run` | the pool | must end, within budgets, and say truly what it did |
| Pool of models `llm/client.py` | cooldowns, allowances, reservations, daily budget | `_complete` | every question | check and reservation in two locked sections; overlapping cooldowns |
| Accounts `auth.py` | SQLite rows | `create_guest`, `signup`, `login`, `delete_me`, `prune_guests` | sessions | a request checks its token in one statement and acts in another |
| MCP `mcp_server.py` | none of its own | tools over the above | the browser of the same account | batches, refusals, its own admission path, what may be shown |
| Overview `insights/dashboard.py` | `_CACHE` by session and version | `build`, `clear_cache` | routes, deletion | no lock at all; slow build between lookup and insert |
| Pure parts: ingestion, profiling, guard, verification, narration, presentation, analyses, glossary | none | functions of their input | - | rules that take precedence over each other; a claim that is true of most inputs |
| Browser `frontend/src` | stored projects | React pages | other tabs | two tabs, one store |

An upload goes through `Uploads` into a session's workbook; a question goes through admission to
the pipeline, which reads the catalog and the cache, loops over the pool, and checks and narrates the
result with the pure parts; the overview reads the same catalog; MCP and the browser are two doors
to all of it. `PROJECT.json` lists every component with its status, and every hazard at its line.

## The modules

| module | what it is | models |
|---|---|---|
| `RateLimit` | abstract: a limiter with a perfect memory | what `SlidingWindow` promises; a specification, so no lines of `map` |
| `SlidingWindow` | one counter; refines `RateLimit` | `limits.py` 88-142 |
| `Admission` | how a question is let in, charged, answered, refunded, let go | `limits.py` 145-176, 272-327; `main.py` 310-362; `mcp_server.py` 440-462 |
| `Uploads` | files on disk and the one reading slot | `main.py` 193-245; `limits.py` 214-232; `sessions.py` 343-349 |
| `Workbook` | one session's tables, views and links under uploads and decisions | `sessions.py` 179-315, `unions.py`, `relationships.py`, names of `ingest/__init__.py` |
| `SessionStore` | sessions in memory, their owners, and the overview cache that hangs on them | `sessions.py` 362-433; `main.py` 144-165; `dashboard.py` 117-165; `auth.py` 245-261, 407-420 |
| `Answering` | questions against a session that changes, and the shared cache | `pipeline.py` 60-170, 245-300; `sessions.py` publication |
| `Confidence`, `Attempts` | the score; one question from its first prompt to its badge | `confidence.py`; `pipeline.py` 189-416; `generator.py` 175-214; `executor.py` |
| `LlmPool` | the chain of models, cooldowns, reservations, naps, the budget | `llm/client.py`, `config.py` 61-79 |
| `Accounts` | the users table, tokens, the requests between them, restarts | `auth.py` |
| `McpServer` | one POST at a time from an agent, next to a browser | `mcp_server.py` |
| `TableReading`, `ColumnTyping` | a grid of cells becomes named, typed columns | `ingest/` |
| `Profile` | what is known of a table | `profile/`, spellings of `cleaning.py` |
| `Guard` | which queries pass, and what they are said to read | `query/guard.py` |
| `ResultChecks` | fan-out, empty cells, equivalence, periods | `query/verify.py` |
| `Narration`, `Presentation` | sentences, units, charts | `query/narrator.py`, `query/presentation.py` |
| `Overview`, `Insights` | tiles, headcounts; guided analyses and their facts | `insights/` |
| `Glossary` | metrics, their columns, ambiguous words | `catalog/glossary.py` |
| `Algorithms` | one question asked of the functions of the last eight rows; what may be asked | the callers of these functions |
| `Admission_proofs`, `SessionStore_proofs`, `Answering_proofs` | the theorems of the module named | |
| `WindowLoopAndPool_proofs` | the theorems of `SlidingWindow`, `Attempts` and `LlmPool` | |
| `Files_proofs`, `AccountsAndMcp_proofs` | the theorems of `Uploads` and `Workbook`; of `Accounts` and `McpServer` | |
| `SheetsAndQueries_proofs`, `Answers_proofs` | the theorems of `Algorithms`: sheets, queries and checks; what is said and shown | |
| `MC*` | instances for TLC | |

`Workbook` treats an operation of a session as one step, because all of them hold the session's
lock; `Answering` cuts the same operations at the points where a question, which takes no lock,
can see the difference: COMMIT, `history.clear()`, `_publish`. What a table is, is a bare value
there. `Admission` uses the counter of `SlidingWindow` with the eviction of keys left out, which
`SlidingWindow` shows to matter only for keys nobody has used for longest. `McpServer` counts a
question as one number, which `Admission` takes apart. `Attempts` asks "a model" and gets any
reply after any delay; `LlmPool` is what happens in between.

### SlidingWindow and RateLimit

`hits` and `order` are the `OrderedDict`; a list of times is a set of numbered hits. `allow` is
two actions, one per result, `refund` one; each is a step because each holds the lock. The time of
a call is its argument: `_charge` reads the clock (`limits.py` 325) before `allow` takes the lock
(111), so a call may be served with any time of the last `Dawdle` ticks (`Reads`), hits may be stored
out of the order of their times, and a call with a later time may have dropped hits that one with an
earlier time would still count. That is why the docstring's "`limit` hits per key in any `window_s` seconds" fails
(`InAnyWindow`, a finding), and why `WithinLimit` claims it of every span of `Window - Dawdle`:
with no wait (`Dawdle = 0`) that is the docstring. `log`, `serial` and `promise` are history.
`RateLimit` says when a request may be admitted or refused with no reference to what is stored: refused only if `Limit` hits
are younger than the window by the time the call read, admitted only if fewer are younger than the window
less `Dawdle`. `Promised == INSTANCE RateLimit WITH ...` is the refinement mapping (`now`,
`log` and `reply` are shared), and `DecidesAlike == Promised!Spec` is checked and proved.

### Admission

A question goes through `stage`s: gate, five charges (each two steps, `ReadClock` before the counter's
own lock and `Charge` under it), either the undoing of the charges made so far or the answer, then five refunds when the answer
was cached, the slot, the final event. Browser questions are admitted on one event loop, so two
of them never interleave before their threads start (`LoopFree`); MCP's do. `StartFails` is
`Thread.start` raising. A hit has the time that was read (`at`), the moment it was counted (history) and its place in
the counter's list; a refund pops the last place (`PopNewest`), whatever its time. `Tick` moves the clock; a question is never in flight for longer than
`Patience`, which the pipeline's budgets justify.

### Uploads

An upload is a request: `Arrive` (its session is looked up, the folder made), one `Save` per file,
the wait for the slot (`TakeSlot`, or `GiveUp` when its patience is over), one `Read` per file,
`Load`, and `Cleanup`, the `finally` that removes the folder whole. A sample (`Files[u] = 0`) saves
nothing and waits for the same slot. Between any two steps the session may be closed and its folder
removed, or the process killed (`Crash`: memory is gone, the disk is not). A file that is missing
when its turn to be read comes (`ReadMissing`: "no file"), or that cannot be created because the folder has gone
ends the request in a server error, a damaged one in an IngestError; both free the slot. `upload_folder` shows
the first of these: one upload is refused as too large while it saves, another of the session has saved its file and waits
for the slot, the first's `finally` removes the folder, the second gets the slot and finds no file.

### Workbook

A name is the sequence of its words, since the naming rules take common leading words and append
numbers. A file is one table, of which the model keeps column names, one column's type, the
values of one key column and whether that key is unique: what union and link detection look at.
`AddFiles` is `add_files` whole: `_stage` (skip known files, choose names, fail on anything
unreadable), drop and load tables, `_rebuild` (unions, views, links, with earlier decisions),
`_publish`. A table that has a column `source_file` of its own (`Sourced`) is stacked with none. The refusals of the database itself (`Droppable`) are external. The loops over tables and files
(`Parts`, `AllParts`, `DetectUnions`, `Stage`) are functions of the position in the list, with the body of the loop
an operator of its own (`Fit`, `NamePart`, `ReadFile`), so that the proofs have one lemma per body.

### SessionStore

A request is a thread; `pc` is where it is and `mine` its locals. Each locked section of the store
is an action (`Create`, `Get`, `Drop`, `List`), the clock is read in one before (`ReadClock`), and
connections are closed one by one after it (`Close`). The overview cache has no lock, so every
deletion and insertion is an action, and deleting a key that another thread has deleted meanwhile
ends in `raised`. Listing a dictionary's keys is one step: the `RuntimeError` of a dictionary that
changes size meanwhile is not modelled. An overview is known by the catalog version it was planned from (`of`).
`Operate` stands for every change of a session's catalog, which `Workbook` and `Answering` take apart.
What is left of a list when sessions leave it is `Only`, which keeps the places in order; the community
modules' filter is a recursive definition and out of the provers' reach. `Dawdle` bounds how long a thread waits for the store's lock, which is held for a few dictionary
operations only.

### Answering

`pc` follows one question through the reads of `answer_question`; `mine` is its locals. A question
may be anywhere while an operation of its session commits, clears, publishes. Each stored answer
carries what it was computed from (`data`, `views`), what its prompt was written with (`links`,
`glossary`, `turns`), and, as history, whether an operation or another turn of its session came
while it was computed (`disturbed`). Its kind "meta" stands for a refusal too: both are written from the catalog alone, cached, and not remembered.

### Attempts and Confidence

`Complete` is one completion inside `generate`: a readable reply or the second try. What is in a
reply is not modelled; what becomes of it is: a question back (`AsksAgain`, `NoSql`), a query
that runs and shows a set of `Facts` (`Ran`), one the guard or the database rejects (`Rejected`), one that is stopped
(`TimedOut`). The order in which problems are looked for, the flags of repairs tried once, the two
budgets and the branch that skips them are as in the code. `elapsed` saturates one past the budget: the code
compares it with nothing else. `Verify` computes caveats and signals again from the query that was kept, with the catalog `_run` read at
its start (`pipeline.py` 171) where the loop reads the session's at each attempt: when another request has published one in between (`CatalogMoves`)
the signals may be any (`moved`). Narration and
cross-check then run on threads of their own and may end in either order or fail. `Score` is the sum of
`confidence.py` in hundredths with its thresholds. `asks` is history.

### LlmPool

A call walks its chain entry by entry: `Look` (cooldown or too few tokens: skip), `Reserve`, then
inside the request `ReadToday`, `SpendOneCall`, the outcome (`RequestAnswered`, `RequestFailed`,
`FormatRejected`, which steps down a format and goes round), the release of the reservation, and
`NoteFailure`. Every locked section is one action and nothing is atomic across two. At the
end of a chain the user's own question may nap until the soonest entry is free, within two bounds;
others give up. Times are kept as seconds left, so no clock has to be bounded; `Second` counts
all of them down and may bring midnight. `parked` is history: for how long a rejected key should
still be left alone.

### Accounts

A row is written in one statement and a token made in a later step; a token is checked in one
connection and used in another, so between a request's `Arrive` and its statement any other request, a
second or a restart may come. `CanUpgrade` is the `WHERE id = ? AND kind = 'guest'` of the upgrade,
`Refused` the UNIQUE of the email column. Passwords are right or wrong. `Restart` forgets requests, may or may
not keep the secret, and prunes. `issued` and `pruned` are history.

### McpServer

`Receive` takes a POST of one message or a batch. Every message is handled in turn: well-formed or
not, a request or a notification, a known tool or not, its arguments checked before anything is
counted, then the tool. A refusal raises: alone it becomes the HTTP status, in a batch that message's own
error. `Browser` is the same account in a tab: it asks, deletes the session and lets the window
pass, between any two steps. A result has four columns, of which two are personal and one of those
was read as a number. What goes back is two things: the columns of the rows (`shown`), which are masked, and what the
sentence and insights of an answer may name (`told`), which are not masked ("the sentence is the answer and it names
them", `docs/MCP.md` 174-176) and may give any personal value of the result, whatever the flag says. A guided analysis has no personal column
to show (`Impersonal`). `billed` and `untold` are history.

### The algorithms

The remaining modules have no behaviour: they are operators translated from pure functions, each with
a statement of what the function is *for*, written without looking at how it does it: `HeaderIsFound`
plants a header under titles and asks for it back; `QuietJoinCountsOnce` evaluates the join;
`AcceptedReadsAreListed` follows a name to the scope the database would take it from; `SaidIsTrue`
judges a sentence against all the rows; `BooksBalance` does the bookkeeping of people who join and leave.
`Algorithms` puts them together: a behaviour picks a question and one of its `Inputs` (the action `Ask`), and an invariant per
part of the program says what the functions answer. `MCAlgorithms` asks every question of every small input;
the theorems are about any inputs of the shapes its assumptions describe (below). Where the code loops or recurses there is a function of the
position in the list: no operator is RECURSIVE, and an expression is the list of its nodes, the parts of each before it.
A sort is the place every row takes in it (`SortedPlace`), which is what a stable sort decides. Text
is reduced to what the function tells apart: a cell is a word, a number, a date or blank, a clause of a sentence
its rank word and the labels and numbers in it, in order.

## What the runs show

| run | bounds | states | result |
|---|---|---|---|
| `sliding_window` | 3 keys, 2 stored, limit 2, window 3, half-second ticks, 4 ticks, times read up to 1 tick before the turn | 178 000 | decides like a perfect memory; limit in every window but for what late calls cost; the retry hint is kept |
| `admission` | 3 questions sharing an address, a user, a session in pairs, one by MCP; 2 slots, 1 per address; windows that expire | 300 000 | slots exact, nothing free is counted, every caller is answered |
| `uploads` | 2 uploads of one session (one of two files), a sample elsewhere, patience 2, a crash | 151 000 | the slot is held by exactly the one that reads |
| `upload_folder` | the same | 1 800 | violation: an upload refused as too large deletes the saved file of one that waits for the slot |
| `workbook` | 7 contents under 4 file names, of which one has a `source_file` column, 9 batches, at most 3 tables, 6 operations | 3 100 | catalog equals database, links stand, decisions survive |
| `sessions` | 2 requests of any of 5 kinds, 2 users, a store of 2 that starts full, 1 session to create, overview cache of 1, 3 ticks, time to live 1 | 1 165 000 | every session is in the store, or about to be closed by one thread, or closed once; drops are due; a cached overview is served for the version it was planned from |
| `answering` | 3 questions, 2 sessions with the same files, cache of 2, one change to the first session | 594 000 | catalog equals database between operations; undisturbed entries and turns are what they are taken for |
| `attempts` | 2 repairs as in the code, a budget two slow calls use up, delays 0 and 2, two further signals, a catalog that may move once | 3 086 000 | the attempts tell the story of the loop, the badge is honest, every question ends |
| `llm_pool` | 2 calls, one with a chain that names an entry twice and may nap; every failure; one allowance; an hour shortened to 3; 3 calls a day | 130 000 | reservations are exactly the requests in flight, a rejected key rests its hour, every call ends |
| `accounts` | 2 requests at a time, 3 ids, 2 emails, 2 seconds, restarts | 586 000 | one account per email, nobody takes a member's over |
| `mcp` | batches of up to 2 of 20 messages, allowance 1, one post, a browser beside it | 372 000 | replies in turn, charged once and only when due and told, names hidden in rows and told only in answers |
| `algorithms` | inputs of two to four rows, columns, scopes or clauses over two to five values | 221 000 | what each function is for |

Why the bounds are enough. `sliding_window` needs more keys than are stored, one more tick than
a window, a limit above one so that old and new hits coexist, and a wait of one tick, which is enough for two calls to be served
out of order (and for `InAnyWindow` to fail). `admission` needs each counter to
be shared by two questions and refused to a third, and time for one window to expire. `uploads` needs
a reader, one that waits in the same session and one that waits in another, one file read while another is still to come,
and a wait that can end on the tick the slot comes free. `workbook`
needs two files that stack, one that stops stacking when it is corrected, two links to one unique
key, and enough operations to decide, replace and decide again. `sessions` needs two requests for
one session (they may both expire, evict, delete or build it), a full store and an expired session
for each way out of it, and a cache smaller than the number of sessions with an overview.
`answering` needs two questions of
one session (turns), one of another (the shared key), one more key than the cache holds, and one
operation, which has up to three steps; more operations add no new overlap of one question, which
is only ever disturbed or not. `attempts` has the code's own numbers, but for seconds, of which only "within the
budget" matters. `llm_pool` needs an entry two calls share and one only one of them has, an allowance
one of them fits and both do not, a parked entry hit by a later failure, and a budget that runs out
during a walk. `accounts` needs two sign-ups with one token or one email, and time for a
token to end between two statements. `mcp` needs two messages of a batch where the first uses up the allowance
the second needs, and each message that is wrong in one way.
In `algorithms` the numbers of the code that only scale a rule (500 charted groups, 20 slices) are cut
to two or three, and the 200 mappings tried of two results to one (`MaxMappings`), so that both sides of every limit are within the inputs.

Deadlock checking is off where the system may stop: every question is done, the operations or
versions of the bound are used up, or an input has been asked about.

Fairness. `EveryCallerIsAnswered` (`Admission!FairSpec`) is under weak fairness of each question's
`Progress`: a thread that can run does run (the interpreter's threads are pre-emptive) and
nothing in it waits for another thread. `QuestionEnds` is under weak fairness of the loop and of its two halves, which have
threads of their own: model calls and queries have time-outs. `EveryCallEnds` is under weak fairness of each call's step and of
`Second`: requests have REQUEST_TIMEOUT_S and time passes; no entry is ever assumed to answer or to come back.
Nobody is forced to ask or to upload.

Every listed property is one that some plausible slip in the code breaks (the mutants of `PROJECT.json`).
The modules state more than the runs list. These hold in the instances of their
modules (add them to the cfg; action properties as PROPERTY), and those marked * are theorems: every `TypeOK`
(`PoolTypeOK`, `BookTypeOK`); `SlidingWindow` `OrderMatches`*, `PromiseIsTight`*; `Admission` `BusyIsTrue`*;
`Workbook` `NothingCountedTwice`*, `UnionsStayRejected`*; `Answering` `CacheBounded`*; `SessionStore` `OverviewsBounded`*;
`LlmPool` `RefusedNotReplayed`*, `NapsBounded`*; `Attempts` `CallsBounded`*, `KeptForAReason`*; `Uploads`
`RawFilesAreUnderway`*; `Accounts` `DeletedStaysDeleted`*, `PrunedAreDead`*.

## What is proved

All for every value of the constants the assumptions allow. Those of the components are types of the constants and positive sizes:
`WindowAssumption`, `AdmissionAssumption` (addresses are not
users), `AnsweringAssumption`, `UploadsAssumption`, `WorkbookAssumption`, `StoreAssumption` (there are users and ids; the store
starts within its size; as in `AnsweringAssumption` there are finitely many callers at once, which the bounds of the caches
count), `McpAssumption`, `AccountsAssumption`, `AttemptsAssumption`, `PoolAssumption` (finitely many calls, no
cooldown longer than the hour). Those of the functions say what their callers hand them. TLC evaluates each of them on the
inputs of the run.

| assumption | what it says of an input, and who sees to it |
|---|---|
| `SheetsAssumption` | the rows of a grid are as wide as the widest (`readers._pad`); the header is among the rows the search looks at and has four columns or more (with three the rule fails: findings) |
| `ColumnsAssumption` | the spellings of a column are ordered, as strings are, and the empty cell is one of them |
| `QueriesAssumption` | the joins of a query are between two tables (of three: findings), each written one way round; a set operation has no source of its own (its parts have); no alias names a source in two scopes, as the guard's resolution supposes |
| `ChecksAssumption` | a result is a list of rows of one width, the narrower of two first, as `results_equivalent` sorts them; what the patterns find in a question has the numbers they ask for, a month one of twelve; a span does not end before it begins |
| `SaidAssumption` | a label is hidden wherever it stands or nowhere, its token is its own; the model was never sent a hidden label, so a reply does not name one. A name that the question itself spells out reaches the model in the question: such replies are outside |
| `ShownAssumption` | the parts of an expression come before it, as many as its operator takes; a row has a cell per column |
| `OverviewAssumption` | a section may show one tile a turn at least (`_DEPTH`); whoever has a group has one of the groups there are |
| `FactsAssumption` | the names of groups are ordered |
| `QuestionsAssumption` | what a metric requires is among the columns it names |
| `RowsAssumption`, `BarsAssumption`, `SlicesAssumption`, `BudgetAssumption`, `CatalogAssumption` | the limits of the code are numbers; no table has the name of a function |

* `WindowLoopAndPool_proofs`: of `SlidingWindow`, `WindowTypes`, `NeverOverLimit`, `WindowImplementsRateLimit`, `RetryCanSucceed`,
  `RetryIsNotTooLate`. The inductive invariant adds to the types that the order has no repeats and that store and history
  agree: every hit that is recent by the clock is stored, and of two hits the one counted later is at most `Dawdle` older. It is
  needed because `allow` counts what is stored, by a time of its own, while the claim is about all hits. For the retry hint the invariant is
  `Pending`: as long as nobody else is let in, the hit the hint was computed from is still the one whose end makes room.
* `Admission_proofs`: `GateIsExact`, `NothingFreeCounts`, `NobodyRacesThemselves`. For the gate, what is missing is that the
  count of an address is the number of its holders. `NothingFreeCounts` needs a stronger claim than its own: of the hits of a key counted after *any* moment
  there are no more than questions that have owed one since (`Covered`), because a refund takes the hit stored last,
  which may be another question's, and so moves time from one to the other. Hits are stored in the order in which they were counted
  (`Listed`), not in that of the times that were read; "recent" is said of the moment a question was counted. `NobodyRacesThemselves` needs that a
  question whose caller has been told is past its slot.
* `Answering_proofs`: `TypeCorrect`, `CatalogIsDatabase`, `CacheIsHonest`, `TurnsAreCurrent`.
  `QuestionInv` says, stage by stage, what an undisturbed question knows: the catalog it read is still
  the session's and no operation is under way; its key is that catalog; its prompt, its result
  and its turn agree with the key. `SessionInv` says what a session holds between two steps of an
  operation. A step of another thread keeps `QuestionInv` because it marks the question whenever
  it changes its session (`OthersKeep`); a question's own steps are a lemma each. `CacheStaysBounded`: a key is in the cache
  once, so a store replaces or adds one entry and makes its own thread one that will evict; an eviction takes one entry out and
  its thread off that count.
* `SessionStore_proofs`: `SessionTypes`, `OneHolderEach`, `DropsWhenDue`, `OverviewsAreCurrent`. `StoreInv` has three
  parts. `Flow`: what a request is about at each stage. `InOnePlace`: a session is in the store, in one thread's list of those to close,
  or closed, and in one of these only. `Recency`: the list is sorted by the moment of
  use and each `last_used`, read before the lock, is behind that moment by no more than `Dawdle`; without it the head of
  the list need not be the session a full store should lose. `CacheInv` says an overview's version is at most the one it was planned from and
  that at most the session's. `OverviewsStayBounded` counts likewise. Its first statement, with the threads that
  trim alone, held in every instance of two requests; the proof needed a case for a thread that raises `KeyError`, an instance
  of three requests then refuted the statement, and what is proved now counts those threads (a finding).
* `Files_proofs`: of `Uploads`, `ReadersTakeTurns`, `NoRawFileOutlivesItsUpload`: the invariant adds to the types that a sample
  saves nothing; a step either leaves the set of readers alone (`ReadersLeftAlone`) or is of the one that enters or leaves it.
  Of `Workbook`, `LinksJoinWhatStands`, `DecisionsStand`: the links are rebuilt whole, so they stand whatever the unions are; that a
  decision survives needs `LinksAgree` (two links of one name have one status unless both are guesses: the table of earlier decisions is
  keyed by name) and that a decision is one of the two there are.
  `CatalogMeansDatabase` states the workbook's `CatalogIsDatabase`. `CatalogInv` adds that no two tables share a name and that every
  view, the rejected ones too, is over tables there are and has a name none of them has. A lemma for each loop body says what it
  keeps (`FitKeeps`, `NamePartKeeps`, `ReadFileKeeps`); `Recursion` and `Throughout` carry it to the whole loop; `FreshName`
  is the pigeonhole argument that a free suffix is found. `Spelling` is what the prover is not told of strings
  (different numbers are spelt differently). `CatalogMeansDatabase` and `NobodyIsCountedTwice` are stated of the runs in which no
  upload brings two new versions of a file the session already has (`OneNewVersionEach`, an antecedent of the theorem):
  the code does not ensure it, and in exactly that case two tables get one name and the claims are false (`BothKept` below).
  Two new files of one name that the session has not seen are inside the claims. `RejectionsLast` has no such condition: what was rejected under a name is so again whenever the name is found, and only the user's own decision takes
  a name off the list. `NobodyIsCountedTwice`: `CountInv` adds that each file is one table, listed once, that the uploads are
  just those, and that the lists the views stack are `Apart`. Down to first fit each loop keeps lists apart (`PartGrown`,
  `PartAdded`, `PartsJoined`): a table is added to one part, a group is opened at the first table of its columns only, and
  names tell tables apart, so the members of the views share none (`NamePartApart`).
* `AccountsAndMcp_proofs`: of `Accounts`, `AccountsTypes`, `EmailsAreUnique`, `NobodyTakesOver`, `NobodyComesBack`. The invariant adds that
  a request about to get a token has a user. The two action properties follow step by step from what a step does to the
  table: it puts one row in, under the guard of its statement, or takes rows out. `PruningIsSafe` needs `Punctual`: the token of
  a guest is made by the request that stamped its row, at most `Dawdle` later, and nobody makes it another.
  Of `McpServer`, `TypeCorrect`, `BillsAreDue`, `NothingBilledIsLost`, `NamesAreAskedFor`, `RepliesComeInTurn`. What is missing from
  the claims is `Handling` (past a stage the current message has passed the checks before it), `Bills` (whatever is
  billed has its reply, or is the message being answered), `Masks`, and `Turns` (the replies so far are those of the messages so
  far that asked, in order).
* `WindowLoopAndPool_proofs`, of `Attempts`: `LoopTypeCorrect`, `LoopIsAffordable`, `TheStoryIsTrue`, `NothingWrongIsKeptUntried`,
  `BestBadgeIsEarned`. `Chained` says how the attempts so far relate to `why` and `repairs` within a round; `Costs` counts
  completions by rounds, of which there are the first, one per repair, and one for a repeated clarification; `Shown` ties what is
  tried to what was found. `BestBadgeIsEarned` assumes `MaxRepairs > 0` (the code's is 2; with none a period problem would be kept
  without the time having run out), excepts a catalog that moved during the loop from what it says of periods, and adds the weights up. Of `LlmPool`,
  `KeysStayParked` and `NothingStaysReserved`: a step of a call changes what is reserved by what that call holds.
  `RefusalIsFinal` and `PatienceEnds` share `WalkInv`: a walk names an entry once, those from its place on have not
  refused the request, and naps are within their number and the budget.
* `SheetsAndQueries_proofs`, `Answers_proofs`: one theorem for each invariant of `Algorithms`. No step matters but `Ask`, so the
  invariant they share is that an input is one of its question (`OnlyInputs`), and the work is in what the functions answer, for
  inputs of any size:
  `TablesAreRead` (a full header scores at least 7/10 of the best row there can be, and titles less; a free name is found by the pigeonhole
  argument; the footer ends at the last row that is no total), `MemoryIsKept` (the sizes up to each row, by `Sum`),
  `ConversionsAreKept` (who reads a cell is one of two parts of the column; day and month change places only where no text of the table decides),
  `PeopleAreKept` (a chain of foldings ends: each folded spelling is beaten by its winner, and the winner is kept; who is dropped has an equal
  before him), `JoinsAreCounted` (rows of the other side that match a row are none or one), `ReadsAreResolved` (inwards from the outermost
  scope, each scope lists what those below it answer), `ChecksAreReal` (places in a sort are a permutation, by counting, `RanksAre`; rows of equal bags take places with
  equal keys), `SentencesAreTrue` (masking and unmasking are inverse on a result; what the check passes is true row by row; what code
  writes itself names the extreme rows), `ShownIsRight` (an amount is in rupees just when its power is one, node by node), `OverviewIsRight` (as many
  tiles as turns, each the foremost of what is left; people who leave and stay are two parts), `FactsAreRight` (tops and totals; the
  slices that are cut and the one of the rest are two parts of the groups), `QuestionsAreRight` (of the spans that cover a place a longest one
  is in no other).

Sums and folds over finite sets and sequences are recursive functions. The induction they need is done by hand: the set of
lengths at which a claim fails has a least member (`Least`), and the step before it gives the contradiction (`SumFacts`, `SignalsAddUp`,
`Recursion`).

Only model-checked: what must eventually happen (`EveryCallerIsAnswered`, `QuestionEnds`, `EveryCallEnds`), since liveness
and ENABLED are out of this prover's reach. Every other property of a passing run is a theorem, and so is what is marked * above.

## Disagreements between code and its own words

`PROJECT.json` lists them as findings, with the quoted lines. `upload_folder` is a run. The others with a property can be seen
by checking it where it is refuted:

| property | how |
|---|---|
| `InAnyWindow` | INVARIANT of `MCSlidingWindow.cfg`: a call served late finds hits gone that still count by the time it read |
| `NeverOverdrawn` | `MCAdmissionRefund.tla`, `.cfg`: a refund gives back a later question's hit, although (`NobodyWaits`) every charge gets its lock at once |
| `BothKept` | `MCWorkbookSameName.cfg`: of two new files chosen together under the name of one the session has, one is lost |
| `AllowanceKept` | `MCLlmPoolAllowance.cfg` of `MCLlmPool`: two calls pass one check of the allowance |
| `CountNeverLost` | PROPERTY of `MCLlmPool.cfg` with `LastDay = 2`: a date read before midnight sets the budget back after it |
| `EntriesHonest`, `NeverRaises`, `HitsShareContext` | INVARIANT of `MCAnswering.cfg` |
| `DeletedIsGone` | INVARIANT of `MCSessionStore.cfg`: an overview comes back after its session |
| `NoLateAttempt`, `ReasonIsTold` | PROPERTY of `MCAttempts.cfg`: the branch of the repeated clarification |
| `PersonalOnlyOnRequest` | INVARIANT of `MCMcpServer.cfg`: personal numbers are shown |
| `PrunedHaveNoToken` | INVARIANT of `MCAccounts.cfg`: a guest is dropped a moment too early |

The rest are noted where a module's comment limits what it claims: a pay table no tile reads, a blank
group missing from the bars, a reporting year that is not over (`Overview`); joins of three tables,
results with two noisy measures and rows whose sort keys tie (`ResultChecks`); rows with a blank identifier (`Profile`); a header with a hole in a
table of three columns (`TableReading`); a rank that names nobody, and the "Top result" that `template_answer` says of the first
row in any order: `SaidIsTrue` holds that word only of rows that run down (`Narration`); more than ten bands;
a refill longer than the longest cooldown; replies lost to a bug in a batch and a session whose id nobody is told
(`McpServer`); raw files a killed process leaves. Others seen while modelling:

* a link decision is lost when a union hides the link for one upload (`relationships.py` 150);
* a status the detector chose itself is kept like a user's when the data change (184);
* two sessions with the same files uploaded in another order share a fingerprint but not their
  table names (`ingest/__init__.py` 93);
* a question that began before an upload appends its turn after `history.clear()`
  (`pipeline.py` 153);
* two requests that forget the same overview raise `KeyError` in the slower one, which then trims no further: the
  cache can stay over its size (`dashboard.py` 151, 155, 165; stage `raised` of `SessionStore`);
* a session created while its owner's account is deleted outlives the account (`auth.py` 417).

## Not modelled

* Text as such: prompts (`prompts.py`, `prompt_context.py`), messages, SQL as a string, the wording of titles and sentences, the
  roles of headers (`roles.py`, a list of words), the formats of dates and plain numbers.
* Bytes: encodings, delimiters, workbooks (`readers.py` down to the grid is pandas and openpyxl), and `sample_files.py`.
* In `Workbook`: files with several tables, several key columns, the caps on links and candidates, previews.
* In the overview: the data-quality tiles; of the ten analyses the builders whose SQL is one aggregate.
* sqlglot and DuckDB: what they do with names is modelled as external operators of `Guard`, and joins by definition.
* Contracts and settings, which are types and constants; the fake model of the tests.
* The browser; `eval/` and `test_files/`, which are tools that exercise the program from outside and no part of it.

## Plan

1. A composition of `Attempts` and `LlmPool`: the budget of the loop against the naps of the pool; of `McpServer` and `Admission`.
2. `NeverOverdrawn` weakened to what the window does promise under refunds that are not the refunder's own.
3. Files with several tables in `Workbook`; two sessions' names in `Answering`.
4. The stored projects of the browser.
