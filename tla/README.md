# Verification of rag_for_git

TLA+ models of `rag_for_git` (the package `reviewer`): of what its processes,
their database, task boards, code-hosting services and users have to get right
together, and of the algorithms that decide what an agent is shown; TLC
configurations that check them on small instances; and machine-checked proofs
that the properties of ten of its parts hold for instances of any size. Paths are relative to the
repository root; code paths without a directory are below `src/reviewer/`.

1. [The system](#1-the-system)
2. [Modules](#2-modules)
3. [How the models read the code](#3-how-the-models-read-the-code)
4. [Runs, bounds, fairness](#4-runs-bounds-fairness)
5. [Where code and documents disagree](#5-where-code-and-documents-disagree)
6. [Proofs](#6-proofs)
7. [What is not modelled](#7-what-is-not-modelled)
8. [Plan](#8-plan)

## 1. The system

`reviewer` indexes a git repository (chunks with embeddings in Postgres, a code
graph in Neo4j), mirrors task boards beside it, and serves an AI client over
MCP. Every client starts a `reviewer-mcp` process of its own
(`entrypoints/mcp_server.py`). The service in it (`mcp/service.py`) handles one
call at a time; concurrency arises between processes, which share Postgres and
Neo4j, and with the outside: the board, GitHub or GitLab, and the people who
use them. There is no broker and no leader. What coordinates the processes are
rows in Postgres, two kinds of advisory lock (a parent of sub-tasks, a branch
whose summaries are committed), and fingerprints and markers left in texts on
the remote side. On the user's machine, commands of `reviewer` share files with
each other, with editors and with the AI clients; what coordinates them are a
lock file, comparisons before a replacement and backups.

| component | state it keeps | operations | hard part |
|---|---|---|---|
| native sub-tasks (`tasks/subtasks.py`, `subtask_store.py`) | ledger row per idempotency key; advisory lock per parent; cards and child lists on the board | `create_subtasks`: load, insert, reconcile by marker, POST, PUT, settle, write-through | POSTs with unknown outcome, crashes, retries, two processes |
| review sessions (`mcp/service.py`, `session_store.py`, `services/review_service.py`) | session in memory, row in `review_sessions`, overlay `pr:N` in the chunk table | `prepare_review`, tool calls, rehydration, `publish_review`, cleanup | keepalive against TTL, pushes, fail-soft statements |
| garbage collection (`services/gc.py`) | none | from `prepare_review` and `reviewer gc` | reads and deletes race with the reviews of other processes |
| publication (`mcp/service.py`, `vcs/*.py`) | candidates, verdicts; comments on the PR; history | `submit_findings`, `submit_verdicts`, `publish_review` | repetition without repeating comments, failure half way |
| finding pipeline (`agent/assemble.py`, `dedup.py`, `outcomes.py`, `policy/policy.py`) | none | grounding, gate, dedup, ranking, cap, inline or summary | nothing gets lost or misplaced between the stages |
| tools of a review (`tools/*.py`, `graph/store.py`, `index/store.py`) | cache of answers per session | `search_code`, `read_file`, `find_symbol`, callers, `get_impact` | overlay over base, pushes, a base that moves |
| task sync (`tasks/sync.py`, `sync_cursor.py`, `sync_filter.py`) | watermark and filter per (board, project) in `index_meta` | `sync_board`, with filters, limits, forced passes, purge | skipping what is "unchanged", partial failures, deletion |
| task store and graph (`tasks/store.py`, `graph.py`, `service.py`) | rows of `tasks`, `:Task` nodes, PR edges | `index_batch`, `index_task`, `purge_orphaned_tasks`, `link_review` | store and graph without a common transaction |
| boards (`tasks/boards/*`) | none of their own | eleven adapters: finish, create, targets, check of the connection, listing | paging, retries of reads only, failures between two writes |
| base index (`index/freshness.py`, `store.py`, `services/review_service.py`) | chunks of the base ref, `index_meta` | `reviewer index`, self-healing in `prepare_review` | content-hash dedup across files, concurrent healing |
| code graph (`graph/*`, `services/graph_sync.py`) | symbols and edges in Neo4j | full build, incremental patch | a patch must come to what a rebuild gives |
| subsystem summaries (`graph/summaries.py`, `index/summary_store.py`, `services/summary_*.py`) | summaries, fragments, the completed layout | list, work, skeletons, commit, prune, back-fill of vectors | agents write for minutes from what they read |
| retrieval (`retrieval/*`) | none | `search_base`, `search_multi` | what falls out between ranking, fusion, nesting and cut-off |
| task context (`mcp/task_context.py`) | none | `prepare_task_context`, nine sections | outages that begin half way |
| bug reports (`bugreport/*`) | what this process was told | `report_bug` | duplicates, two processes, unknown outcomes |
| installers (`install.py`, `install_codex.py`, `install_claude.py`) | configurations of the AI clients, skills with a stamp, backups | `reviewer install`, `install-skills` | edits of users' files, failing programs, rollback |
| update and Compose (`update_lifecycle.py`, `compose_lifecycle.py`, `storage_health.py`) | package, Compose file, its recorded hash, containers | `reviewer update`, `start`, `stop`, `check` | a file the user may have changed; two updates |
| configuration layers (`config/*`) | home file, committed file, base file | merge with sources, `init`, `config migrate`, `config show` | two writers and an editor on one file |
| launcher (`launcher/*`) | screen, values, a background check | palette, form, preview, run | a late answer of a thread |
| web history, hooks, skills, evaluation | – | – | – |

What makes each correct:

* **Sub-tasks**: one idempotency key is one payload; a draft gets one card; a
  batch can always be resumed; "complete" is true; retries finish.
* **Sessions**: a review that can be resumed has the overlay it was prepared
  with; a review in progress is visible to the other processes; abandoned
  overlays are collected, and only they.
* **Publication**: nothing that survives verifier and policy is lost, a comment
  is on the code it quotes, nothing is said twice, the history tells what
  happened.
* **Tools and search**: a review sees its head and nothing older; what was found
  is shown unless there is a reason that the code names.
* **Sync**: what is skipped as unchanged is stored as it is on the board; purges
  take only what is gone; repeated syncs catch up.
* **Boards**: an error that may be retried wrote nothing; a clean answer is true;
  a complete listing is complete.
* **Base index and graph**: they are not older than `index_meta` says, and a
  patch leaves neither stale edges nor holes.
* **Summaries**: a text is about the sources of its hash, a vector is of its
  text, finishing a pass deletes nothing that is needed.
* **Context and reports**: outages are named, each once; a defect has one issue.
* **Workstation**: what the user wrote is recoverable, what he decided stays in
  force, what a command says at its end is so.

`PROJECT.json` lists all the components with their files, and under `hazards`
every place where a step of two actors, a crash, a lost answer or a stale read
can do damage, with the properties that watch it.

## 2. Modules

| module | models | composed with |
|---|---|---|
| `SubtaskPromise` | what `create_subtasks` promises, without ledger, locks or messages | abstract specification |
| `SubtaskLedger` | `SubtaskService.run`, `SubtaskOperationStore`, the YouGile calls, the board and its people | refines `SubtaskPromise` (`KeepsPromise`) |
| `SubtaskLedgerProofs` | theorems about it: one card per draft, the rows, the refinement, the parent lock | extends `SubtaskLedger` |
| `ReviewSessions` | sessions, overlays, garbage collection of several processes | – |
| `FindingPipeline` | the pure stages from candidates to comments | used by `ReviewPublish` |
| `ReviewPublish` | candidates, verdicts, publication on GitHub and GitLab, history | extends `FindingPipeline` |
| `ReviewProofs` | theorems about sessions and publication | extends `ReviewSessions`, `ReviewPublish` |
| `ReviewTools` | the tools of a review over overlay, base and cache | – |
| `Retrieval` | both searches, as operators from hits, graph and scores to the answer | – |
| `BugReports` | `report_bug` of several processes and the issues of the project | – |
| `TaskContext` | the sections of a task context and the sources behind them | – |
| `TaskSync` | sync, cursor, purge, write-through, task store and graph | – |
| `TaskSyncProofs` | theorems about it | extends `TaskSync` |
| `Boards` | the eleven adapters as programs: the requests of each operation, in order | used by `BoardCalls`, `BoardListing` |
| `BoardCalls` | agents that run these programs against cards that people change; the back link into a PR | extends `Boards` |
| `BoardCallsProofs` | theorems about the calls and the listing | extends `BoardCalls`, `BoardListing` |
| `BoardListing` | the listing of a board page by page | extends `Boards` |
| `BaseIndex` | `update_base` under both its callers, `index_meta`, the branch on the hosting service | – |
| `ServerProofs` | theorems about tools, reports, context and base index | extends `ReviewTools`, `BugReports`, `TaskContext`, `BaseIndex` |
| `GraphBuilder` | `build_graph_from_files` and the resolution of names, as operators | used by `CodeGraph` |
| `CodeGraph` | rebuild and patch of the graph, statement by statement | extends `GraphBuilder` |
| `Subsystems` | clusters, layouts, hashes and what is left to write, as operators | used by `Summaries` |
| `Summaries` | the tables of summaries and the passes of several clients | extends `Subsystems` |
| `KnowledgeProofs` | theorems about summaries and graph | extends `Summaries`, `CodeGraph` |
| `Commands` | terminals: how a command starts, ends and is killed | base of the next ten |
| `ConfigFiles` | plans and TOML surgery on the clients' files, as operators | used by `ClientInstall` |
| `ClientInstall`, `CodexInstall`, `ClaudeInstall`, `Installers` | `reviewer install` for plain clients, for Codex, for Claude Code, and the people around | each extends the one before |
| `UpdateLifecycle` | `reviewer update` and the Compose file | extends `Installers` (it reinstalls every client) |
| `Services` | `start`, `stop`, `check`, the diagnosis of a store | extends `UpdateLifecycle` |
| `HomeConfig`, `PolicyMerge`, `Launcher` | the home file and its writers; the merge of layers with its report; the palette | extend `Commands` |
| `Workstation` | all commands at several terminals of one machine | composes the ten |
| `WorkstationProofs` | theorems about the commands and what they tell | extends `Workstation` |
| `InstallerProofs` | theorems about what installers leave of the files and skills of a user | extends `WorkstationProofs` |
| `MC*` | instances for TLC | compose the parts of a run |

`ReviewSessions`, `ReviewPublish` and `ReviewTools` cut `prepare_review …
publish_review` along lines the code has too: the first keeps the life of session
and overlay and leaves out their contents, the second keeps candidates, verdicts
and comments and leaves out other processes, the third keeps what is in overlay
and base and takes a preparation as one step.

Parts that share no state are explored side by side: `MCReviews`, `MCBoards` and
`MCKnowledge` have a variable `about` that is chosen at the start, and the other
parts keep their first state. Parts that do interact are interleaved: in
`Workstation` an update reinstalls clients while the user edits their files, a
check diagnoses a store that another terminal starts, `init` writes the file
that `config migrate` rewrites.

## 3. How the models read the code

The `map` of `PROJECT.json` names for every definition the lines it stands for.
In general: one SQL statement, one Cypher batch or one HTTP request is one
step, because each is a transaction of its own in the code; what a handler does
between two of them is part of the step before. A statement the code lets fail
(`except Exception: log.warning`) has a disjunct in which it fails, and what the
code does then.

**SubtaskLedger.** A runner is one execution of `create_subtasks`; `loc` holds
its program counter and locals, above all `cur`, the row as it was last loaded
or written. `Checkpoint` is the compare-and-swap `UPDATE … WHERE revision = %s`;
a runner that loses it returns with an error. A slot, a request and a draft
position, stands for the marker written into the card. POSTs and PUTs are
messages: when the sender crashes or times out, the message stays under way
(`Orphaned`) if `late_write` may happen, and is dropped otherwise. The board
carries messages out in any order. `Disturb` gives every failure of the
environment a price from `MaxDisturbances`.

**ReviewSessions.** `sessions` is the table, `mem[p]` the `_sessions` of process
p, `chunks[k]` the set of heads whose chunks the overlay of k holds (more than
one is a mixed overlay). The steps of `prepare_review` follow the code: collect
garbage, reserve the row, delete the overlay, fetch, embed, upsert, save; the
ways out delete the overlay and the reservation. Time is in units that no call
outlasts: a call takes minutes, the TTL is a day. `lapsed` and `failed` are
history variables for the properties: pull requests that were idle for a TTL or
ended, and those that a database statement failed on, where the code is
fail-soft by design.

**FindingPipeline / ReviewPublish.** A finding is a line, a text, a rank, whether
it quotes the file, and its fix: first and last line of a replacement, if it has one.
The stages are sets of positions of the candidate sequence, from deduplication on
functions from them to the fixes they have then (a duplicate leaves its fix to a winner
without one), so the properties can say which candidate went where. A finding
whose fix can be applied is a comment on the lines of the fix, whatever its own line is
(`CanApply`, `Placed`); it takes a place under the cap like the others. Comments on the
PR are counted by fingerprint and place. The history has, for each finding of which it
says published, whether the run was a dry one. GitHub takes a review in one request and
lists inline comments only; GitLab takes discussions one by one, then the
summary, and lists all notes. The retry transport repeats a request after 429,
502, 503, 504. `setting` names provider, pool of findings and possible trouble.

**ReviewTools.** A symbol has a text in the base and one in every head; an answer
is a set of (symbol, text). The tools differ in where they look (overlay and base
without the changed files, graph, signatures), and keep answers in the cache of
the session by the key the code uses.

**Retrieval.** `asked` is the query with all that comes from outside: hits of the
store, failing sub-queries, neighbours in the graph, scores of the reranker.
`SearchBase` and `SearchMulti` compute `answer` by the stages of the code: test
filter, union of nested chunks, graph-only chunks and their reserved place,
reciprocal ranks, one chunk per file, augmentation by similar tasks with
quotas, and the cliff. A state is a query before or after its answer. What is asked is
of the types `AnyBase` and `AnyMulti`, which the theorem is about; the constants
`BaseAsked` and `MultiAsked` choose what a run tries. The property on the quotas
counts, for each source, the files it names that the search would not have shown
without any source, whether this source or one before it brought them; and, for all of
them together, that the sources that name something more have each brought their whole
quota of further files.

**BugReports.** Per process, what was offered and declined; per project, the
issues with signature and title. The list is read, then the report is sent: two
steps, with the outcomes that HTTP allows.

**TaskContext.** A section is the sequence of sources it calls, and what a failed
call does there: raise, be absorbed and reported, be swallowed, or leave the
section empty. `down` is the state that later sections ask before they call.

**TaskSync.** The text of a task is the stamp of the edit that wrote it, so a
row is current when its text equals that on the board. `run[s]` holds the locals
of `SyncService.run`: watermark, old filter, pages left, `changed`, `retry`,
`active`. People create, edit, archive and remove tasks between any two
statements. `setting` is the deployment: tasks, the calls that are made, what
may fail.

**Boards, BoardCalls, BoardListing.** The eleven adapters differ in the order of
their requests and in which of them may fail without ending the call. `Boards`
writes each operation as a sequence of steps (`look`, `take`, `scan`, `put`,
`post`, `warn`, `halt`), hard or soft, computed from the configuration and from
the card as it was read first; `BoardCalls` performs the steps, one request
each, against cards that other agents and people change. A write may be executed
although its answer is lost. `alone` and `calm` are history: nobody else wrote
to the card, nothing failed. `BoardListing` reads pages of two by page number,
offset or cursor, from what is there at that moment, in the order the adapter
asks for.

**BaseIndex.** A commit maps files to their chunks; the text of a chunk stands for
its content hash and names the commit, file and symbol it was written for, so two
texts are equal only when one was kept or copied. `job[i]` holds the locals of
`update_base` and of its caller (`full` for `reviewer index`); each `DELETE`,
`SELECT` and upsert is a step, and `Fail` ends a caller between two of them, which
is what an exception or a kill does: prepare logs it and goes on without healing.
`Habits` names what developers may do beyond plain commits.

**GraphBuilder, CodeGraph.** A source is what the parser takes from a file:
definitions, imports, star imports, module aliases, calls, bases; who calls or
inherits is defined in the file (`ReferrersAreDefined`, `graph/scip.py:74-83`). A commit
changes, adds or removes one file. The steps of `patch_graph_incremental` are the
deletion of a file's nodes, the upsert of symbols, the upsert of edges; a failure
between two is swallowed, and `index_meta` has moved already.

**Subsystems, Summaries.** A path is a sequence of segments, a layout the depth
per directory; clusters, source hashes and the list of what is to be rebuilt are
operators of these. Under a cap (`SUMMARY_REBUILD_CAP`, 1 in the run) the list leaves out
the clusters past it: those without a summary have the first places, those with an old one the
rest, in the code the oldest first, here any of them. A client runs a pass: list, then for a cluster its work,
skeletons, a draft per fragment, the commit with its checks, at the end the
prune. The text of a summary is what it was written from, a vector is the text
it was computed from, so staleness can be seen.

**Workstation.** A case is a machine (files, versions, containers, who types
what) and what may go wrong on it. Every step of a command reads or writes one
file or runs one program; a kill ends the command between two. Configuration
files are sequences of lines that are named for what they are to the installer.
An update that cannot read or write the Compose file, or finds it gone at the second
reading, gives the lock back, installs the clients and ends with an error; without `uv` it
tells what to run and refreshes nothing.
The lexer of the TOML surgery (`_toml_lex_state`) is modelled, as multi-line
strings and arrays are where it can go wrong. The programs `codex`, `claude`,
`uv`, `docker` and the shell are external: they do their work or not, and say so
or not.

## 4. Runs, bounds, fairness

| run | properties | instance |
|---|---|---|
| `subtask_ledger` | `OneCardPerDraft` `LedgerLoadable` `CompleteIsReal` `RetriesFinish` | two runners, one request of two drafts, two cards of the board and one of a person; any two of: crash, lost lock, board error, late write, attach, detach, copied card |
| `rivals` | `FinishedBatchStaysAttached` `OnePayloadPerKey` `KeepsPromise` | two runners, three requests of one draft: two share a parent, two share a key; crash and board error, two of them |
| `reviews`: sessions | `SessionHasItsOverlay` `ActiveOverlayIsGuarded` `GcIsExact` | a pull request with two heads, its process and another that collects; TTL 2, time up to 4; crash, failed preparation, failed statements |
| `reviews`: publication | `GitLabPostsOnce` `NothingKeptIsLost` `PublishedIsThere` `DedupIsSound` `CommentsAreOnTarget` | GitHub and GitLab, two or three candidates out of pools with duplicates, near duplicates, off-diff lines, quotations and fixes that overlap or leave the diff; one or two sessions, dry or not; two inline comments at most; six deployments with different troubles |
| `reviews`: tools | `ToolsShowTheHead` | four symbols in three files, a head that adds and removes, a second head, a base that moves, failed preparations |
| `reviews`: search | `SearchKeepsWhatItFinds` | six chunks in four files, one nested, one test; all hit lists of up to three chunks of those that matter, three graphs, three scorings, failing reranker, embedder, sub-queries and sources, two sources that name one file |
| `reviews`: bug, context | `ReportsAreWanted`, `ContextIsHonest` | two processes, two defects, three titles, lists of two, an issue written by hand; three sources of which any may be out, two changes on the way |
| `publish_summary` | `NothingPostedTwice`, violated | GitHub, no failures |
| `task_retry` | `CursorIsHonest` `CatchesUp` | two boards, one call repeated, any two failures of any statement |
| `task_calls` | `FiltersAreHonest` `PurgeSparesLive` | one board of two tasks with three filters, purges, limit, force and broken listings; two boards, the deployment and one project, with write-through and PR links by others |
| `task_no_project` | `PurgeSparesLive`, violated | a board type without a project |
| `base_index` | `DriftIsBounded` `HealsItself` | two files of two symbols, three commits, any ignore list, one process, two failures between any two transactions |
| `boards` | `RetryableMeansNothingWritten` `AnswersAreTrue` `CapableIsAble` `FinishCatchesUp`; `ListingKeepsItsWord` | all eleven adapters in all four configurations, two agents, one trouble or person; and listings of four cards by pages of two, with limits 0, 2 and none, and two changes |
| `knowledge` | `TextIsOfItsHash` `VectorIsOfItsText` `NothingLeftIsFinished` `PruneSparesClusters`; `GraphFollowsTheIndex` | two clients with a pass each over two files, two layouts, one edit, one move of the policy, one failure; and a graph of two files, eight sources, three commits, one failure |
| `graph_inherit` | `InheritanceSurvivesPatch`, violated | a graph of two files, no failures |
| `workstation` | `ConfigIsRecoverable` `FreshSkillsAreWhole` `CodexKeepsItsSkills` `ToldIsTrue` `DecisionsStand` | 785 machines: configuration files of every kind, modes of installation, states of the containers, contents of three layers; one or two terminals; two troubles each |

Some properties are conjunctions of statements with definitions of their own:

* `GcIsExact`: a finished collection leaves no orphan (`GcLeavesNoOrphans`), and
  none takes an overlay of its own process (`GcSparesOwnSessions`).
* `AnswersAreTrue`: `CleanFinishIsDone`, `AlreadyClosedIsTrue`,
  `CreateErrorMeansNone`, `SilentListingIsComplete`.
* `ListingKeepsItsWord`: `ListingIsSound`, `LimitTakesTheFreshest`.
* `SearchKeepsWhatItFinds`: `NothingFoundIsLost` (one query),
  `SectionSpendsItsBudget` (several).
* `GraphFollowsTheIndex`: no symbol or edge too many (`GraphIsOfTheIndex`), none of
  what was not touched too few (`UntouchedEdgesStay`).
* `ToldIsTrue`: `EverySourceIsTrue` (`config show`), `PreservedMeansEdited` (`update`),
  `AdviceMeansDown` (`check`), `CleanInstallIsWhole` (`install`, `update`).
* `DecisionsStand`: `CommandsKeepEachOther` and `MigrationChangesNothing` (home file),
  `UserComposeIsKept`, `LauncherRunsWhatItShows`.

The modules with tables or long-lived state have a type invariant (`TypeOK` of
`SubtaskLedger`, `ReviewSessions`, `TaskSync`, `BaseIndex`, `BoardCalls` and `Workstation`,
`PublishTypeOK`, `ListingTypeOK`, `KnowledgeTypeOK`). The one of `SubtaskLedger` is
proved. The others hold on the instances of the runs above, by checks outside the
list, and serve as documentation; the invariants of section 6 carry the types
that their proofs need. The list spends its time on what could be wrong.

**Why the bounds are enough to be interesting.** The races of `SubtaskLedger`
are between two runners, and a third adds nothing new to a compare-and-swap; two
drafts make a batch that is half done, two disturbances allow a failure and
another during recovery. `MaxRev` limits only how often a call is repeated that
finds an item waiting for a person; no other behaviour is cut. In
`ReviewSessions` pull requests meet only in garbage collections, which treat
each key alone, so one of them against a collector shows the races; TTL 2 within
a time of 4 lets a session be touched half way, expire and be collected. In
`ReviewPublish` two inline comments (`MaxComments`) out of up to three findings that are
left make cap, ranking and summary work; two sessions are a review and its repetition, and
the deployment with fixes has one, as what a fix changes is decided within a review. Its
five findings are fixes that overlap, leave the diff, are for a finding off the diff or
without a line, and one to be inherited from a duplicate. The file has six lines, three
in the diff, and lines up to 7 may be invented. Comments of one fingerprint are
counted to one on GitHub and to two on GitLab, where the second must be seen. In
`ReviewTools` one question per session is enough for a stale cache, as a question
is repeated after a push. In `Retrieval` a ceiling of one to three against
three hits makes every list overflow. In `TaskSync` three changes of the boards
allow: created, archived, taken back; or created, edited, removed. In `BaseIndex`
and `CodeGraph` three commits are what is indexed, what a failed attempt was made
to, and what the next one is made to. A listing of four cards in pages of two has
a border between pages and cards behind it that can be pulled over; two changes
move one card each way. In `Summaries` a client's pass is three to six calls, and
everything that can come between them is one step of another client, of the index
or of the policy. On the workstation two troubles are a failure and a failure
of what repairs it, or a failure and an edit.
`CHECK_DEADLOCK FALSE` stands where a behaviour may really end: all
requests complete and bound reached in the ledger, all sessions, passes, changes
or calls used elsewhere.

**Symmetry** is used in `rivals` (runners and cards the board creates) and in
`knowledge` (clients), with safety properties only; runs that check liveness use
none.

**Fairness.** `SubtaskLedger!FairSpec`: a runner that is alive executes its next
statement; a request whose sender is waiting is answered (the HTTP client's
timeout is the alternative, `PostFails`); the call is repeated with the same key,
which is what `plugin/skills/decompose-task/SKILL.md` tells the agent to do.
Nothing is assumed about the board carrying out abandoned requests, about locks
or about people. `RetriesFinish` ends in "complete" or in a state the code hands
to a person. `TaskSync!FairSpec`: a sync proceeds, every call in `Request` is
made again and again, and a write-through that fetched its task ends. Trouble
is bounded, so after the last failure there is a run without one.
`BaseIndex!FairSpec`: a caller that has begun goes on, and pull requests of the
branch keep being reviewed; nobody has to run `reviewer index`. `BoardsSpec`: a
call that has begun ends, because every request has a timeout, and an agent that
was told to finish a task calls again until it has. The other modules promise no
progress and need no fairness.

**Mutants.** Each property of a passing run has a seeded fault, an operator marked
`seeded fault` in front of the definition it replaces, that TLC finds: a marker
that is posted again after a failed scan, a checkpoint without revision, a lock
that is not returned, a keepalive that does not reach the table, a watermark that
passes failed tasks, a page read by the wrong key, a rollback that forgets the
legacy skills, a vector written for the same sources instead of the same text,
and so on. A property that is a conjunction has a fault for one of its parts at
least; the other parts were tried with faults of their own while they were written.

### What the passing runs leave out on purpose

These are conditions without which the code does not have the property, and no
document of the repository says it should, or section 5 tells:

* `reviews` has no crash between the two statements of `_cleanup`
  (`torn_cleanup`): it leaves a row without an overlay, to be resumed. Nor do two
  processes review the same pull request at the same time.
* On GitLab a refused discussion is passed over and still counted as published, and
  when the summary is refused, a run counts as having published nothing though its
  discussions are there (the comment in `mcp/service.py:3385` says nothing was
  sent); `PublishedIsThere` and `NothingKeptIsLost` hold where a review is all or
  nothing (`WholeOrNothing`).
* `GitLabPostsOnce` excuses a gateway that reports an error for a write it did
  (`busy_but_done`): the transport posts twice. It excuses notes that could not be
  listed (`list_error`): the dedup is fail-soft and everything is posted again
  (`mcp/service.py:3133`). And it speaks of findings whose lines are in the file
  (`NoLineInvented`): `_sane_line` takes away a line past the end after the
  deduplication (`agent/assemble.py:297`), so that the same text at two such lines, or
  at one and at none, is two findings with one fingerprint and is said twice in one
  review. The last two came out of the proof; TLC finds them when a pool has a
  finding of line 7 of a shorter file beside the same one without a line.
* `CommentsAreOnTarget` speaks of quotations in findings that are not suggestions to
  apply. A suggestion stands at the last line of its fix (`agent/assemble.py:320-331`), and
  nothing compares the fix with the line or the quotation of its finding; of it the
  property says that it replaces lines of the diff, and none that another one replaces.
  A finding without a quotation is moved to the nearest line of the diff, whatever it
  says, also when the model made it up.
* `PublishedIsThere` leaves out dry runs. Their status is "ok" as well
  (`mcp/service.py:3328`), so that the history keeps `published` for findings that were never
  sent (`:3381-3391`); only the `dry_run` of the run says so.
* `CursorIsHonest` is checked with one syncing process, no write-through, boards
  that are listed in one page and tasks that have a stamp. A second writer can
  put an older text back; an edit behind the back of a paged listing, or a task
  without a timestamp, is passed by the watermark (`sync.py:148`, `:196`); the first of
  these hazards has no property. Nor do
  calls of two scopes with different filters alternate: the purge of one takes rows
  that the cursor of the other vouches for.
* `FiltersAreHonest` lets no statement of normalizer, embedder, store or cursor fail:
  the purge runs even if the cursor was not moved, or was kept for a retry, and
  tasks purged under the new filter are not brought back when the filter is removed
  (`sync.py:384`; `README.md:615` promises a backfill). `task_retry` has those
  failures with one filter.
* `PurgeSparesLive` is checked for calls that list every board they purge. The other
  cases are the board type without a project of section 5, and a project without a
  board type, where `run` purges the whole deployment (`sync.py:387`).
* `base_index` has one process and no `Habits`; what two processes do to one base
  (`review_service.py:247`) is a hazard without a property. With any of them, or two
  processes, or a comparison that is cut off (`MaxFiles` 1; GitHub lists 300
  files), TLC finds the index different from the branch at zero drift: "copy"
  (section 5); "revert" after a failed attempt, since a file that is as it was
  is not compared; "ignore", since the files an ignore list gains or loses
  are not compared; "empty", since `delete_paths_except` does nothing for an empty
  list; "old_base" after a failed attempt, since an index of an older clone
  changes rows before it changes `index_meta`; "moving_ref", since `reviewer index`
  resolves the branch name anew for every file and for `index_meta`.
* `GraphFollowsTheIndex` is claimed of a graph whose last patch ended (`InStep`): a
  patch that failed is swallowed with `index_meta` advanced, and not repeated.
* `ListingIsSound` names, board by board, what its paging cannot follow
  (`Undisturbed`): a removal or an edit that pulls a card over the border of a page,
  at YouGile a move between columns.
* `NothingLeftIsFinished` is checked with one move of the policy. With two moves and an
  edit TLC finds an index with nothing left to list whose prune refuses (section 5):
  a bundle of a pass under the other layout took the fragment of a file, the policy
  changed back, and the cluster is fresh by its hash (`service.py:2298`, `:2446-2451`).
* `TextIsOfItsHash` needs files that do not become again what they were
  (`Reverts`): a commit compares hashes, so that a text written between two
  equal states passes for one of them.
* `ConfigIsRecoverable` with a torn write is checked up to the next command: a second
  run of the installer copies the torn file over the backup (section 5). People edit
  a configuration file while no installer is at work (`Typing`): what is written
  between the plan and the write is in neither.
* `CodexKeepsItsSkills` is about one installer at a time, and excludes the machine
  without a plugin where a legacy skill can neither be moved nor the others moved back
  (section 5).
* `FreshSkillsAreWhole` needs one archive for all who install at once: of two, the stamp
  of one may be of skills from both (add two `install-skills` with "merge" to
  `ClientCases`).
* `UserComposeIsKept` and `CommandsKeepEachOther` exclude one moment: an edit between
  the last comparison and the `rename` is lost, as in any such protocol.
* `ContextIsHonest` claims a gap for a source that is out all the time. An outage
  that begins after preflight may be swallowed (section 5).
* `SearchKeepsWhatItFinds` claims the quota of a source while at least one file of the
  search itself is left: otherwise what was brought in is more than `max_files` and is
  cut off at its end (`multiquery.py:311-313`), so that the last sources lose. Nor does it
  claim the quota of a source that names more than `AUGMENT_FETCH_LIMIT` paths: those
  past the limit are not looked for (`multiquery.py:181`). A ratio above one can leave
  nothing of a ranked answer.

## 5. Where code and documents disagree

Three runs are expected to fail; each checks a sentence of the repository.

* `publish_summary`: `README.md:222` says fingerprints prevent reposting. On
  GitHub the bodies of reviews are not listed, so what was in the summary is
  posted again.
* `task_no_project`: `sync.py:8-10` says the purge takes the union over all
  providers so that one board does not purge the tasks of another. With a board
  type and no project the purge compares the tasks of all boards with one.
* `graph_inherit`: the docstring of `services/graph_sync.py` (lines 16-17) says a
  patch restores an edge of inheritance if the base was ever indexed, the usual
  case being a subclass that is edited alone. `_resolve_base` (`graph/inherit.py:126`)
  gives up on a base that is imported from a file outside the patch before it looks
  at the symbols of the graph: the edge is deleted and not put back before the
  next full index. Only a base that the file does not import is found again.

What else was met while modelling, without a run of its own:

* *Sub-tasks.* The design of PRI-224 (lines 114-115) says the parent lock keeps two
  batches from writing competing unions: a PUT that timed out is no longer covered
  by the lock (add `late_write` to `rivals`, and `FinishedBatchStaysAttached` fails).
* *Garbage collection.* `services/gc.py:69-71` concludes that a session behind an
  overlay of the first read is visible in the second; a session that was gone by
  then may be prepared again before the delete, which takes the new overlay.
* *Base index.* `README.md:941` says that with `drift == 0` the base index matches
  the ref. Rows are keyed by path and symbol, but one with a content hash that is
  already in the ref is not written (`freshness.py:95`): of two equal methods the
  second has no row, and no later index adds it while the first stays (add "copy"
  to `Habits`).
* *Search.* A path that was not found can precede a found one: the default rank of
  `multiquery.py:175-178` is the number of paths + 1, but ranks count chunks. With
  two chunks per file the final list is cut by chunks (`:313`) and loses files. A
  hit nested in a class that only the graph found is dropped, and the class goes
  last (`retriever.py:159-160` reads as if it took the better place).
* *Tools.* Removed and unselected files are not in `changed_paths`, so the base
  rows of a removed file are still shown; an answer that was degraded because the graph
  was out stays in the cache; `get_impact` compares with a base that has moved.
* *Task context.* The docstring of `task_context.py` (78-100) says an outage is
  found once and skipped after; one that begins after preflight is swallowed by the
  sections `task`, `similar` and `code`, which then report an empty answer, and a graph
  that preflight found out is tried again by `code` and `test_exemplars`.
* *Bug reports.* `service.py:573` calls the two phases an invariant of the server; a
  first call with `confirmed=True` publishes a text that nobody was shown.
* *Configuration.* An empty mapping in a lower layer leaves its entry in the sources
  when a higher layer fills it (`deepmerge.py:69-77`). `config migrate` after an `init`
  that has created the home file reports conflicts; a command that waits for the
  lock is told of a race and not repeated (`branches.py:352-367`), where
  `onboarding.py:151` speaks of a safe no-op.
* *Installers.* A torn write followed by a second run loses the user's configuration
  (`install.py:986-1003` against the docstring, line 12); the rollback of Codex
  overwrites what the user wrote meanwhile. When a legacy skill cannot be moved and
  the way back of the others fails too (`install_codex.py:825-842`), a machine that had
  no plugin is left with neither the plugin nor those skills, which lie in
  `reviewer-legacy-backups`.
* *Boards.* The marker of the back link names no task (`pr_backlink.py:57-66`): a
  second task of one pull request is taken for linked. `fetch_one` answers None for
  an error in adapters where `base.py:167-168` asks for an exception. With a limit,
  Jira and Yandex Tracker give the oldest tasks. Trello's `create` can fail after
  its POST; YouTrack may say "already closed" when the status could not be set;
  YouGile and YouTrack can list a part of a board without a warning.
* *Summaries.* A cluster that became fresh without its fragments, after the layout
  changed and changed back, keeps prune refusing (`service.py:2446-2451`) while
  the list has nothing left to write. `delete_summaries_except` and
  `set_embedding` are not called by anything.

## 6. Proofs

What a run shows on an instance, the theorems show for every value of the constants:
any numbers of processes, runners, drafts, pull requests, tasks, cards, files,
agents and people, and any bounds on time, troubles and commits. The lemmas
need only the assumptions that the modules state for their constants, and those
named here. Each theorem is of the form `Spec => []P` or, for an action property,
`Spec => [][A]_vars`; the property is the one that the run checks.

| module | theorem | property | beyond the module's assumptions |
|---|---|---|---|
| `SubtaskLedgerProofs` | `TypeCorrect` | `TypeOK` | – |
| | `OneCard` | `OneCardPerDraft` | – |
| | `OnePayload` | `OnePayloadPerKey` | – |
| | `Loadable` | `LedgerLoadable` | – |
| | `CompleteReal` | `CompleteIsReal` | – |
| | `Refinement` | `KeepsPromise` | – |
| | `StaysAttached` | `FinishedBatchStaysAttached` | no late PUT, no lost lock, nobody detaches |
| `ReviewProofs` | `ActiveGuarded` | `ActiveOverlayIsGuarded` | `OneReviewer` |
| | `SessionKeepsOverlay` | `SessionHasItsOverlay` | `OneReviewer`, `NoTornCleanup` |
| | `GcExact` | `GcIsExact` (action) | `OneReviewer` |
| | `DedupSound` | `DedupIsSound` | – |
| | `OnTarget` | `CommentsAreOnTarget` | – |
| | `PublishedThere` | `PublishedIsThere` | – |
| | `NothingLost` | `NothingKeptIsLost` | – |
| | `PostsOnce` | `GitLabPostsOnce` | – |
| | `SearchKeeps` | `SearchKeepsWhatItFinds` | – |
| `ServerProofs` | `ToolsTellTheTruth` | `ToolsShowTheHead` | – |
| | `ReportsWanted` | `ReportsAreWanted` | – |
| | `ContextTellsTheTruth` | `ContextIsHonest` | – |
| | `DriftBounded` | `DriftIsBounded` | `OneIndexer`, `WholeComparisons`, no `Habits` |
| `KnowledgeProofs` | `TextsOfTheirHash` | `TextIsOfItsHash` | `NoReverts` |
| | `VectorsOfTheirTexts` | `VectorIsOfItsText` | – |
| | `PruneSpares` | `PruneSparesClusters` (action) | – |
| | `NothingLeftFinishes` | `NothingLeftIsFinished` | `LayoutStays` |
| | `GraphFollows` | `GraphFollowsTheIndex` | – |
| `TaskSyncProofs` | `LiveTasksAreSpared` | `PurgeSparesLive` | `ListedScopes` |
| | `CursorsAreHonest` | `CursorIsHonest` | `OneSync`, `WholeListings`, stamps, `Settled` |
| | `FiltersAreKept` | `FiltersAreHonest` | `OneSync`, `WholeListings`, stamps, `OneScope` |
| `BoardCallsProofs` | `RetriesWriteNothing` | `RetryableMeansNothingWritten` | – |
| | `ChecksAreKept` | `CapableIsAble` | – |
| | `AnswersTellTheTruth` | `AnswersAreTrue` | – |
| | `ListingKept` | `ListingKeepsItsWord` | – |
| `WorkstationProofs` | `DecisionsKept` | `DecisionsStand` (actions) | `NoLateEdit` |
| | `SkillsWhole` | `FreshSkillsAreWhole` | `OneArchive` |
| | `ToldTrue` | `ToldIsTrue` | `NoRefill`, `ComposeKnown`, `Unshared` |
| `InstallerProofs` | `UserTextKept` | `ConfigIsRecoverable` | `OneTear` |
| | `SkillsNotLost` | `CodexKeepsItsSkills` | `Unshared`, `OneTear`, `SmallTear` |

### The assumptions

Where a theorem assumes more than its module, the code does not have the property
without it; the instance of the run satisfies the assumption, and "What the passing
runs leave out" (section 4) and the hazards of `PROJECT.json` name the line:

* Lost locks and late PUTs take the parent lock away from under the union that a PUT
  writes (section 5), and a person who detaches a card does what the property forbids.
* `OneReviewer`: no two processes review one pull request (`freshness.py:45`; any
  number may collect). `NoTornCleanup`: no crash between the two statements of
  `_cleanup` (`mcp/service.py:3409`).
* `NoReverts`: no file becomes again what it was; a hash cannot tell.
* `LayoutStays`: every reader of the policy gets the same layout (`service.py:2446`): it
  does not move, and where it cannot be read, the same is left.
* `ListedScopes`: a call lists all boards of the scope it purges (`sync.py:387`).
  `OneSync`: one writer of the task store (`mcp/service.py:860`). `WholeListings`: a
  board is listed in one page (`sync.py:148`). `OneScope`: calls of one scope.
  `Settled`: one scope, and either the filter stays the same or nothing fails between
  a listing and its cursor (`sync.py:182`).
* `OneIndexer`, `WholeComparisons` and `Habits = {}`: the six habits, the second
  process and the cut-off comparison of `base_index` in section 4.
* `NoLateEdit`: nobody writes the Compose file between the second look of an update at
  it and `os.replace` (section 4). `OneArchive`: no version is merged
  while two terminals have commands; two installers with different archives mix their
  skills, and the stamp of one may be of files of both
  (`install.py:1062-1119`, no lock).
* `NoRefill`: a section that one layer empties is not filled by a later one. The report
  would keep the entry of the empty section beside those of its leaves, as an empty
  mapping is its own leaf in `sources` and only `_replace` takes entries away
  (`deepmerge.py:60-77`, section 5).
* `ComposeKnown`: the Compose file of the start is one that was recorded, or its
  user's, or the newest; and no version is merged where an update can be killed, or fail for
  a full disk, between `os.replace` and the record of it. The next update would otherwise call a file of its
  own "preserved" (`PreservedMeansEdited` says that the user has edited it).
* `Unshared`: two terminals install or update at the same time only clients with a
  configuration file of their own (Cursor, Kimi) and without torn writes. One terminal
  may install all of them, with every trouble. `_restore_configs` of Codex puts back
  what it has read at its beginning, and `claude mcp remove` takes the entry that another
  installer has just added: a command that ended well would find its client gone.
* `OneTear`: a machine that goes down in the middle of `write_bytes` has one command
  to run, and nobody edits what is left of the file. `_write_with_backup` copies what
  it finds over `.bak` (`install.py:996-1000`): the next installer would put the torn
  file in the place of the only copy (section 5). Machines that do not tear
  files have any number of installers and edits.
* `SmallTear`: such a machine runs an installer for one client. With all clients
  in one command, the file of Codex is torn after an earlier command of the
  same loop has moved its skills, and no plugin can be read from it.

TLC has evaluated the last five on the 785 machines of `workstation`: all satisfy
them; some have one installer and some two, and three tear a file.

`MachinesAssumption` says of the file of Codex that its lines are what they are
named for (`WellNamed`): strings are closed, what only reads like our header is inside of
one, and the entry of the plugin is not. It gives the names of `Line` their meaning and
excludes no file.

### The arguments

None of the properties is inductive: each speaks of what is there, and not of the
process that is about to act on what it has read. The invariants add that, in named
parts.

**One card for a draft** (`SubtaskLedgerProofs`). `Core` and `BoardType`: types; a
runner has the locals its program counter promises (`LocalSafe`); the row it
holds is the stored one or an older revision of the same request (`Sees`).
`SlotSafe`, for every slot: if there is a POST or a card, the row no longer says
"pending" (`Announced`); a runner about to POST has announced it, is the only one, and
nothing was sent or made for the slot; at most one POST or card. `MarkInFlight`
moves an item out of "pending" with a checkpoint that succeeds only on the revision
the runner has read: once for an item, in one runner, and no item becomes pending
again (`Grows`); every runner that holds the older row loses its next checkpoint. So the
POST is sent once. The advisory lock is not used: the property survives the
loss of locks, which the runs only suggest.

**The promise** (`SubtaskLedgerProofs`). `HInv` says of each row, stored or held, that
it is `Honest`: its markers are its own, a card in it carries the marker of its
item, statuses fit together. From this follow `Loadable` and `CompleteReal`, and
under it every action of `SubtaskLedger` is a step of `SubtaskPromise` or a stutter
(`PromiseNext`, one lemma per group of actions); in particular what the board does
with orphaned requests, and what people do, is allowed by the promise. For
`StaysAttached` the invariant `AInv` follows the children of a parent from the read to
the PUT: whoever holds the parent's lock has read all that finished batches
attached, and nobody else writes meanwhile.

**Sessions** (`ReviewProofs`). `IInv`: a row comes before its overlay
(`RowFirst`), what has lapsed is noted, a preparation works under an empty row
(`Working`), an active overlay has a living row (`Guarded`), and a collection that has
listed the overlays misses none and keeps none that came to life (`Orphans`, `Complete`).
`Resumable` adds what the overlay of a resumable row holds at every program counter of
the preparation.

**Publication** (`ReviewProofs`). Deduplication is a run of steps over the findings in
the order of their lines. Each of them removes one of two that are alike and leaves its
fix to the other, so the survivors cover what was there (`AgainstAll`,
`SurvivorsFacts`), and no two of them are alike (`DedupFacts`). The assembly is another run,
over the survivors in the order of their ranks: after every turn the fixes applied so
far are disjoint and on the diff, and the other comments are on it too (`PlacedFacts`,
`MadeFacts`). Grounding moves a quotation to a line that has its text, or
takes the line away (`Hit`, `Grounding`). `PublishInv`: the plan in `work` is the one
`Assemble` makes of the session and of the notes that were read; until its request
a comment is in the work, after it on the PR (`WorkOK`). When a review was all or
nothing, `Accounted` puts the three together. `OnceInv`: what is in the work is not
on the PR, two planned discussions have different fingerprints, and a summary is
written only while there is none.

**Tools, reports, context** (`ServerProofs`). `ToolsInv` says that an answer in the
cache was true when it was given and stays so for the head of the session, because what
it came from is the overlay and rows of unchanged paths (`IsOf`). `BugInv` follows
the signature of a report from the list that was read to the issue (`Searched`,
`Wanted`). `ContextInv` accounts for every gap: who is blamed was out, who was out and
needed is blamed (`Marked`, `Blamed`, `Accounted`).

**Summaries** (`KnowledgeProofs`). `PassInv`: what a client holds at each call was read
from sources whose hash it holds too; `commit` compares that hash with the present
one, and without reverts equal hashes mean the same sources. `VectorInv`: a vector that
was computed outside a transaction is written only if row and text are unchanged.
`LayoutInv`: under one layout every fragment lies in the cluster of its file
(`Shelved`), so a commit takes nothing from other clusters and finds no copies
there; once a pass was completed, every summary has the fragments of its hash
(`Backed`). This one needs no `NoReverts`.

**Graph** (`KnowledgeProofs`). `GraphInv` says what is true between two statements of a
patch: outside its files the symbols are those of the index, and in them those of the
old or of the new commit, as far as the patch has come; an edge has a reference in the
present sources or starts in a file of the patch whose relation is still to be
deleted (`Sound`, `Placed`). The files of a patch count as touched since the last
rebuild (`Touched`), so the edges of the others stay (`Standing`). The builder adds only
what it has a reference for (`Built`), whatever files it was given.

**Sync** (`TaskSyncProofs`). For the purge, `Reached` follows a live task from the boards
still to be asked, to the pages still to be read, to the active keys. For the
cursor, `HonestInv` follows every text from the board to the items of the run, to the
store, against the purge; the watermark is compared with the clock of the listing, and
what fails is in the set that the watermark may not pass.

**Boards** (`BoardCallsProofs`). A call runs a program of `Boards`: the invariant relates
the steps left to what has been written (`Retries`: nothing, as long as a step left may
answer "try again"), to the targets and the link (`Works`, `Finishing`, `OnTheBoard`), to
the card made (`Creates`) and the pages read (`Lists`). Half of the module proves, for all
eleven adapters and configurations, what a program may consist of and in which order:
an algebra of `Plan`, `Parts` and `NoneAfter` over sequences.

For the listing, the invariant (`ListInv`) says that a card which is to be listed has
been read or is `Ahead`: in the column being read and not passed by the cursor or the
offset, or in a later column. Not passed by an offset means that at least as many cards
as the offset come before it now (`Position`), which a removal can break and an edit
where the oldest come first, and nothing else (`StaysAhead`): that is where the
exceptions in `Undisturbed` come from. A page has the next cards in their order, so what
is ahead is on it or comes after it (`PageFacts`, `PageRead`). While nobody changes
anything, a row comes after all tasks that are fresher (`FresherFirst`), which a cut at
the limit keeps; Trello's rows are sorted at the end (`FreshestFacts`). That a finite set
with a strict order can be put in a sequence is proved from cardinalities (`Orderly`).

**Base index** (`ServerProofs`). A text names its slot, so a text that
`existing_hashes` has seen is the row of that slot (`Seen`); what is to be written is
in the batch or there already (`Ready`, then `Exact`). A file that two commits have
alike is so in all between (`Straight`): hence a failed attempt to reach an earlier
commit touched no file that the next comparison leaves out, and a job that ends has
brought every file to its commit (`Arrived`).

**Workstation** (`WorkstationProofs`). Every command is a walk of one terminal over its
program counters (`Walks`, one lemma per group of commands), and leaves the registers of
the others alone. `ConfigInv`: two commands never hold the lock of one inode (`Alone`);
who is about to replace the home file holds the lock of the inode it has read, and if
that inode is still the file, its text has the settings of the file (`Held`): every
writer makes a new inode, so the look before the replacement notices. A migration
holds what it has resolved of both files (`Resolved`). `ComposeInv`: only the holder of
the lock writes the Compose file, and it has seen there what it replaces (`Synced`).
`UiInv`: what the launcher shows belongs to the entry it would run (`Drawn`). `SkillInv`:
what was taken out of an archive is in place, as all installers at work have the same
(`Fetched`, `SameArchive`), so the stamp was made of a whole directory (`StampTrue`);
`skills_staleness` compares the directory with it.

`ToldTrue` joins four arguments that share `Queues` (what a terminal has to type is
the end of what it was given, and who runs has typed the first of it) and `JobInv`
(which command may be at which program counter). `AdviceInv`: where `check` advises to
start, a store of this machine is down, or somebody's `start` has run since.
`ReportInv`: after every layer, `sources` has exactly the paths of what is merged, and
each names the layer that gave the path its value (`ReportTrue`); `merge_layer` keeps
that because what it replaces loses its entries, and a mapping into which it goes on is
not empty (`Hollow`, `NoRefill`). `KnownInv`: what an update has found under the lock is
still there, edited or gone (`Known`), and a file that an update wrote is recorded or about
to be (`FileKnown`). `CleanInv`: in the loop over the clients, each that was asked for is
still to come, installed, or among the errors (`Bound`); at every program counter of an
installer it is known what was done for the client that has its turn (`Local`); and no
step of any terminal takes back what was installed (`StaysInstalled`), which is where
`Unshared` comes in. The files stay sequences of lines (`AllLined`), and a line of ours
is in what `ConfigFiles` writes.

**Installers** (`InstallerProofs`). `UserTextKept` needs what the surgery does to a file. Lines are picked by their places
(`Those`), so two texts have the same lines of the user if there is a bijection between
the places of those lines that keeps the order and the lines (`Copies`).
With it: the surgery on the TOML file takes away no line of another table, though it
looks for headers with a lexer that follows strings and arrays, and the reference
(`Ours`) with none (`TomlKeeps`); an entry of a JSON file is set in place or at the
end (`JsonKeeps`); the user's own note goes before all lines and opens no string
(`NoteKeeps`). `KeptInv` then says that every file holds the lines of its user (`Whole`),
and so does what an installer has in hand (`Recalls`): the plan from its making to its
write, and the text that `_restore_configs` would put back, from its reading to the end.
This is inductive for any number of installers at once, as each of them read its texts
from a file that held these lines, and nobody edits while one works. Before a write the
file is in its `.bak` or never had a line of the user (`Backed`), so after a torn write
the text is there, and nobody writes any more (`Ruined`).

`SkillsNotLost` builds on it. `CodexInv` has three parts, for machines on which
no installer touches Codex, for one that has gone down in a write, and for one with one
installer. On the last (`SkillsSafe`), what was moved implies that the plugin is chosen in
the file and in the cache, or that the way back has failed on a machine that had none
(`FileSafe`, `Exempt`); at every program counter, what the installer would write or
put back has the plugin if the file has it (`Skilled`); and who has moved skills writes
nothing after that could tear (`Spared`, `Short`).

**What is found is shown** (`ReviewProofs`, `Retrieval`). A search is one step, so the
invariant says only that what was asked was answered (`SearchOK`); the work is in what
the pipeline returns for every input. Filtering, cutting, joining and sorting are lists
of places (`KeepFacts`, `TakeFacts`, `JoinFacts`, `SortedFacts`). Deduplication leaves a
chunk that covers each one, as lying within is transitive (`NestedOn`, `DedupeFacts`). So
a hit that is not shown is covered by a wider chunk among the items, and that chunk is a
graph chunk (the first excuse), or a hit that the degraded answer leaves out when it is
full and has one graph chunk at most (`DegradedFacts`), or one behind the cliff: scores
fall, so that it is below the one that made the drop (`CliffFacts`). For several queries
diversification keeps the first chunk of each file until `max_files` (`DiversifyFacts`;
deduplication loses no file, `SameFiles`). A source tries what it names in the order of
the ranks, and either all of it that has rows is there afterwards or its whole quota of
new files was taken (`CandidatesFacts`, `OneSource`); what comes later only adds
(`BringsMore`), so the quotas of the sources with something left add up (`MoreQuotas`).
What is brought in has no file in common with what was found, so the answer has one chunk
of a file, and what it kept of the search is the front of it. The attempt showed that an
earlier form of the property was false: it had asked of each source a quota of files that
no source before it names, but a source may spend its quota on a file that one before it
named and did not bring. The run has that case now.

### Only model-checked

* Liveness: `RetriesFinish`, `CatchesUp`, `HealsItself`, `FinishCatchesUp`. TLAPS has no
  rules for fairness and `ENABLED` here.

All invariants and action properties that runs check are proved.

The modules are written so that they can be proved about: no `RECURSIVE` operator
anywhere, recursion by recursive functions, constants with named assumptions,
invariants as conjunctions of named parts. Where a proof needs induction over data,
it takes the least counterexample (`Least` in `ReviewProofs`); that a recursive
function is what its equation says (deduplication, diversification, augmentation, sums
of ranks) is proved there from the runs of its steps
(`Iterates`, `Climb`), as the induction theorems of the library cannot be instantiated.

## 7. What is not modelled

* Wording, rendering, sanitising, hashing of requests, markup conversion and the
  payloads of the board adapters: data that no property depends on.
* The ranking inside Postgres and of the embedding model, its batches and retries:
  what they return is an input of `Retrieval`, that they fail is in the modules that
  call them.
* Web history: read-only pages over rows that `Record` of `ReviewPublish` writes.
* Hooks and skills: instructions and transcripts; the skills justify the clients of
  the models (retry with the same key, list before work, prune at the end).
* Evaluation, scripts, benchmarks: offline.
* `CREATE TABLE`, connection pools, HTTP clients except for their retries.
* `entrypoints/cli.py` beyond the commands of `Workstation` and of the servers:
  parsing of arguments and wiring.

## 8. Plan

Done: the ledger and its proofs; sessions, publication, tools, search, reports and
context; sync; boards; base index; graph; summaries; the workstation.

Left to model, in order of how much the system depends on them:

1. An abstract specification of the base index (rows are of a commit between
   `index_meta` and the tip) that `BaseIndex` implements, and one of a publication
   (a set of fingerprints that only grows) for GitLab.
2. Links and search of the task graph (`get_linked`, `TESTED_BY`), and the collection
   of paths that similar tasks touched (`retrieval/augment.py`).
3. Walkthrough comments of the VCS providers; labels and assignees of cards.
4. Validation of single settings with the recovery in `init`.

Theorems to come: the type invariants that the lists of section 4 leave out, and the
refinements of the first item.
