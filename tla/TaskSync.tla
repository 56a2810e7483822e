------------------------------ MODULE TaskSync ------------------------------
(***************************************************************************)
(* The sync of task boards into the task store and the task graph          *)
(* (reviewer/tasks/sync.py, sync_cursor.py, sync_filter.py, service.py,    *)
(* store.py, graph.py; sync_board of reviewer/mcp/service.py).             *)
(*                                                                         *)
(* Several reviewer-mcp processes sync the same boards into one Postgres   *)
(* and one Neo4j, without a lock, while people edit the boards and other   *)
(* tools write single tasks through.  A board is listed page by page, and  *)
(* every page is a snapshot; every statement is a step of its own, but the *)
(* content hashes of a batch are read in one step, and so is the graph     *)
(* written, where only the failures matter.                                *)
(*                                                                         *)
(* The text of a task is the time of the edit that wrote it, so a row of   *)
(* the store is current when it holds the text that the board holds.       *)
(* Left out: titles, status and links between tasks, which no decision of  *)
(* the sync depends on, counters and warnings.                             *)
(***************************************************************************)
EXTENDS Naturals

CONSTANTS
  Process,      \* the reviewer-mcp processes
  Task,         \* task keys
  TypeOf,       \* the board type (provider) of a task
  ProjectOf,    \* the project of a task
  Page,         \* the pages that boards are listed in: disjoint sets of tasks
  Mentions,     \* tasks whose description names a pull request
  Unstamped,    \* tasks of which the board does not tell the last change
  Settings,     \* what may happen: see SettingOK
  MaxClock,     \* BOUND: last stamp that any board gives
  MaxTrouble    \* BOUND: how often something goes wrong

TroubleKind == {"crash", "cursor_read", "cursor_write", "listing",
  "normalize", "embed", "store", "graph",
  "write_through",  \* a board tool reindexes the task that it wrote
  "publish"}        \* publish_review links the pull request to its task

All == "*"          \* no board type, or no project, is given

\* TaskSyncFilter; max_age 0 stands for no limit.
Filter == [max_age : Nat, include_archived : BOOLEAN]
NoFilter == [max_age |-> 0, include_archived |-> TRUE]
filter_is_active(f) == f.max_age > 0 \/ ~f.include_archived

\* The tasks there are, the calls of sync_board that are made, what may go
\* wrong, and the last stamp that a board gives (BOUND).
SettingOK(s) ==
  /\ s.tasks \subseteq Task
  /\ \A q \in s.requests : q.filter \in Filter
  /\ s.trouble \subseteq TroubleKind
  /\ s.clock \in 1..MaxClock

ASSUME SyncAssumption ==
  /\ UNION Page = Task
  /\ \A g, h \in Page : g # h => g \cap h = {}
  /\ \A g \in Page : \A k, l \in g : TypeOf[k] = TypeOf[l]
  /\ Mentions \cup Unstamped \subseteq Task
  /\ \A s \in Settings : SettingOK(s)
  /\ MaxClock \in Nat /\ MaxTrouble \in Nat

VARIABLES
  setting,      \* it does not change
  board,        \* what the boards hold of every task
  clock,        \* the time, in the stamps of the boards
  stored,       \* the text of every row of table tasks; 0: there is no row
  nodes,        \* the :Task nodes with a project
  linked,       \* the :Task nodes with an IMPLEMENTED_BY edge
  cursor,       \* what index_meta holds for every (board type, project)
  run,          \* the sync_board call of every process
  writer,       \* the write-through in progress
  spent         \* how often something went wrong

vars == <<setting, board, clock, stored, nodes, linked, cursor, run, writer, spent>>
tables == <<stored, nodes, linked>>

Request == UNION {s.requests : s \in Settings}
Type == {TypeOf[k] : k \in Task}
Project == {ProjectOf[k] : k \in Task}
Ref == Type \X (Project \cup {All})
Stamp == 0..MaxClock
Item == [key : Task, text : Stamp]

Missing == [there |-> FALSE, stamp |-> 0, text |-> 0, archived |-> FALSE]
NoWriter == [key |-> All, text |-> 0]
NoRequest == [type |-> All, project |-> All, filter |-> NoFilter,
              limit |-> TRUE, force |-> FALSE, purge |-> FALSE, keep |-> TRUE]
\* Nothing runs: also what the fields of a new run start from.
Idle == [pc |-> "idle", q |-> NoRequest, complete |-> TRUE, active |-> {},
         todo |-> {}, type |-> All, now |-> 0, known |-> TRUE, mark |-> 0,
         old |-> NoFilter, top |-> 0, pages |-> {}, mine |-> {},
         changed |-> {}, meta |-> {}, embed |-> {}, embedded |-> {},
         retry |-> FALSE, orphans |-> {}, live |-> {}]
Pc == {"idle", "provider", "list", "store", "cursor", "purge", "protect",
       "delete_rows", "delete_nodes"}

TypeOK ==
  /\ setting \in Settings
  /\ board \in [Task -> [there : BOOLEAN, stamp : Stamp, text : Stamp,
                         archived : BOOLEAN]]
  /\ clock \in Stamp \ {0}
  /\ stored \in [Task -> Stamp]
  /\ nodes \subseteq Task /\ linked \subseteq Task
  /\ cursor \in [Ref -> [mark : Stamp, filter : Filter]]
  /\ DOMAIN run = Process
  /\ \A s \in Process : LET r == run[s] IN
       /\ r.pc \in Pc /\ r.q \in Request \cup {NoRequest}
       /\ r.todo \subseteq Type /\ r.type \in Type \cup {All}
       /\ {r.now, r.mark, r.top} \subseteq Stamp /\ r.old \in Filter
       /\ {r.complete, r.known, r.retry} \subseteq BOOLEAN
       /\ r.pages \subseteq Page
       /\ r.changed \subseteq Item /\ r.embed \subseteq r.changed
       /\ UNION {r.active, r.mine, r.meta, r.embedded, r.orphans, r.live}
            \subseteq Task
  /\ writer = NoWriter \/ writer \in Item
  /\ spent \in 0..MaxTrouble

Init ==
  /\ setting \in Settings
  /\ board = [k \in Task |-> Missing]
  /\ clock = 1
  /\ stored = [k \in Task |-> 0]
  /\ nodes = {} /\ linked = {}
  /\ cursor = [f \in Ref |-> [mark |-> 0, filter |-> NoFilter]]
  /\ run = [s \in Process |-> Idle]
  /\ writer = NoWriter
  /\ spent = 0

Goes(kind) == kind \in setting.trouble /\ spent < MaxTrouble
Wrong(kind) == Goes(kind) /\ spent' = spent + 1
\* The part of a set of statements that fails: some, at the price of trouble.
Failing(kind, S) == IF Goes(kind) THEN SUBSET S ELSE {{}}
Pay(failed) == spent' = spent + (IF failed = {} THEN 0 ELSE 1)

At(s, pc) == run[s].pc = pc
Set(s, r) == run' = [run EXCEPT ![s] = r]

---------------------------------------------------------------------------
(* The decisions about one task. *)

\* classify_task returns "eligible".  A stamp 0 is a timestamp of None.
Eligible(f, row, now) ==
  /\ f.max_age > 0 /\ row.stamp # 0 => row.stamp + f.max_age >= now
  /\ f.include_archived \/ ~row.archived

\* Seeded fault: the filter of the last run plays no part.
FullNormalizeByStamp(r, row) == r.q.force \/ ~r.known \/ row.stamp > r.mark

FullNormalize(r, row) ==
  \/ r.q.force
  \/ ~r.known
  \/ ~Eligible(r.old, row, r.now)
  \/ r.q.filter.max_age > 0 /\ row.stamp = 0
  \/ row.stamp > r.mark

\* The tasks that a run is to keep: on the board and eligible all along.
StillLive(r) ==
  {k \in r.live : board'[k].there /\ Eligible(r.q.filter, board'[k], clock')}

---------------------------------------------------------------------------
(* The boards. *)

\* A task changes, and with it what the runs in progress are to keep.
Change(k, row) ==
  /\ clock < setting.clock
  /\ clock' = clock + 1
  /\ board' = [board EXCEPT ![k] = row]
  /\ run' = [s \in Process |-> [run[s] EXCEPT !.live =
                IF At(s, "idle") THEN {} ELSE StillLive(run[s])]]
  /\ UNCHANGED <<setting, tables, cursor, writer, spent>>

Stamped(k) == IF k \in Unstamped THEN 0 ELSE clock + 1

\* A task is created, or its text is edited.
Edit(k) ==
  /\ k \in setting.tasks
  /\ board[k].there \/ board[k] = Missing
  /\ Change(k, [there |-> TRUE, stamp |-> Stamped(k), text |-> clock + 1,
                archived |-> board[k].archived])

\* A task is archived, or taken back: the boards stamp that too.
Archive(k) ==
  /\ board[k].there
  /\ Change(k, [board[k] EXCEPT !.archived = ~@, !.stamp = Stamped(k)])

Remove(k) ==
  /\ board[k].there
  /\ Change(k, [board[k] EXCEPT !.there = FALSE])

---------------------------------------------------------------------------
(* SyncService._sync_provider: one board. *)

\* Scoped to a board type, or all the boards of the deployment.
Selected(q) == IF q.type = All THEN {TypeOf[k] : k \in setting.tasks} ELSE {q.type}

Start(s, q) ==
  /\ At(s, "idle") /\ q \in setting.requests
  /\ Set(s, [Idle EXCEPT !.pc = "provider", !.q = q, !.todo = Selected(q),
               !.live = {k \in Task : /\ board[k].there
                                      /\ Eligible(q.filter, board[k], clock)}])
  /\ UNCHANGED <<setting, board, clock, tables, cursor, writer, spent>>

CursorRef(r, t) == <<t, r.q.project>>

\* The tasks of a page that belong to the board, or to its project.
RowsOf(r, page) ==
  {k \in page : board[k].there /\ r.q.project \in {All, ProjectOf[k]}}

\* A cursor that cannot be read, or not be parsed, means a full backfill.
ReadCursor(s, t) ==
  LET r == run[s]
      begun == [r EXCEPT !.pc = "list", !.type = t, !.now = clock,
                  !.pages = {g \in Page : \E k \in g : TypeOf[k] = t}]
      found == cursor[CursorRef(r, t)]
  IN /\ At(s, "provider") /\ t \in r.todo
     /\ \/ /\ Set(s, [begun EXCEPT !.known = TRUE, !.mark = found.mark,
                        !.top = found.mark, !.old = found.filter])
           /\ UNCHANGED spent
        \/ /\ Wrong("cursor_read")
           /\ Set(s, [begun EXCEPT !.known = FALSE, !.mark = 0, !.top = 0,
                        !.old = NoFilter])
     /\ UNCHANGED <<setting, board, clock, tables, cursor, writer>>

\* Seeded fault: a task that cannot be normalized does not ask for a retry.
ListedForgetful(r, rows, failed) ==
  LET mine == {k \in rows : Eligible(r.q.filter, board[k], r.now)}
      full == {k \in mine : FullNormalize(r, board[k])}
      stamps == {board[k].stamp : k \in rows} \cup {r.top}
  IN [r EXCEPT !.top = CHOOSE t \in stamps : \A u \in stamps : t >= u,
        !.mine = @ \cup mine,
        !.changed = @ \cup {[key |-> k, text |-> board[k].text] :
                              k \in full \ failed},
        !.meta = @ \cup (mine \ full)]

\* What one page, delivered up to a limit, adds to the run; `failed' are the
\* tasks that cannot be normalized.
Listed(r, rows, failed) ==
  LET mine == {k \in rows : Eligible(r.q.filter, board[k], r.now)}
      full == {k \in mine : FullNormalize(r, board[k])}
      stamps == {board[k].stamp : k \in rows} \cup {r.top}
  IN [r EXCEPT !.top = CHOOSE t \in stamps : \A u \in stamps : t >= u,
        !.mine = @ \cup mine,
        !.changed = @ \cup {[key |-> k, text |-> board[k].text] :
                              k \in full \ failed},
        !.meta = @ \cup (mine \ full),
        !.retry = @ \/ full \cap failed # {}]

ListPage(s, page) ==
  LET r == run[s] IN
  /\ At(s, "list") /\ page \in r.pages
  /\ \E rows \in IF r.q.limit THEN SUBSET RowsOf(r, page) ELSE {RowsOf(r, page)} :
     \E failed \in Failing("normalize", rows) :
       /\ Set(s, [Listed(r, rows, failed) EXCEPT !.pages = @ \ {page}])
       /\ Pay(failed)
  /\ UNCHANGED <<setting, board, clock, tables, cursor, writer>>

\* What a run takes from one board to the next.
Between(r) ==
  [Idle EXCEPT !.pc = "provider", !.q = r.q, !.complete = r.complete,
     !.active = r.active, !.todo = r.todo \ {r.type}, !.live = r.live]

\* Seeded fault: the purge takes a listing that broke off for the board.
OnwardAnyway(r) ==
  IF Between(r).todo # {} THEN Between(r)
  ELSE IF r.q.purge /\ ~r.q.limit THEN [Between(r) EXCEPT !.pc = "purge"]
       ELSE Idle

\* SyncService.run: the next board, or the purge, or the end.
Onward(r) ==
  IF Between(r).todo # {} THEN Between(r)
  ELSE IF r.q.purge /\ ~r.q.limit /\ r.complete
       THEN [Between(r) EXCEPT !.pc = "purge"]
       ELSE Idle

\* The listing breaks off: the board counts as not listed at all.
ListingFails(s) ==
  /\ At(s, "list")
  /\ Wrong("listing")
  /\ Set(s, Onward([run[s] EXCEPT !.complete = FALSE]))
  /\ UNCHANGED <<setting, board, clock, tables, cursor, writer>>

\* index_batch: a task whose text is in the store only has its metadata
\* updated.  A statement that fails asks for a retry, and so does the embedder.
CompareHashes(s) ==
  LET r == run[s]
      differ == {i \in r.changed : stored[i.key] # i.text}
  IN /\ At(s, "list") /\ r.pages = {}
     /\ \/ \E failed \in Failing("store", r.changed) :
             /\ Set(s, [r EXCEPT !.pc = "store", !.embed = differ \ failed,
                          !.retry = @ \/ failed # {}])
             /\ Pay(failed)
        \/ /\ differ # {} /\ Wrong("embed")
           /\ Set(s, [r EXCEPT !.pc = "store", !.embed = {}, !.retry = TRUE])
     /\ UNCHANGED <<setting, board, clock, tables, cursor, writer>>

Upsert(s, i) ==
  LET r == [run[s] EXCEPT !.embed = @ \ {i}] IN
  /\ At(s, "store") /\ i \in run[s].embed
  /\ \/ /\ stored' = [stored EXCEPT ![i.key] = i.text]
        /\ Set(s, [r EXCEPT !.embedded = @ \cup {i.key}])
        /\ UNCHANGED spent
     \/ /\ Wrong("store")
        /\ Set(s, [r EXCEPT !.retry = TRUE])
        /\ UNCHANGED stored
  /\ UNCHANGED <<setting, board, clock, nodes, linked, cursor, writer>>

\* The nodes of indexed and of unchanged tasks, then the pull requests that
\* new descriptions name.  A failure is reported and nothing more.
WriteGraph(s) ==
  LET r == run[s]
      keys == {i.key : i \in r.changed} \cup r.meta
      named == r.embedded \cap Mentions
  IN /\ At(s, "store") /\ r.embed = {}
     /\ \E failed \in Failing("graph", keys), lost \in Failing("graph", named) :
          /\ lost \in {{}, named}
          /\ nodes' = nodes \cup (keys \ failed)
          /\ linked' = linked \cup (named \ lost)
          /\ Pay(failed \cup lost)
     /\ Set(s, [r EXCEPT !.pc = "cursor"])
     /\ UNCHANGED <<setting, board, clock, stored, cursor, writer>>

FilterChanged(r) ==
  \/ filter_is_active(r.q.filter) /\ (~r.known \/ r.old # r.q.filter)
  \/ r.known /\ filter_is_active(r.old) /\ ~filter_is_active(r.q.filter)

\* Seeded fault: the watermark passes tasks that were not indexed.
CursorMovesAnyway(r) ==
  ~r.q.limit /\ (r.top > r.mark \/ FilterChanged(r) \/ ~r.known)

CursorMoves(r) ==
  /\ ~r.q.limit /\ ~r.retry
  /\ r.top > r.mark \/ FilterChanged(r) \/ ~r.known

\* serialize_task_sync_cursor: an inactive filter is not told from none.
NewCursor(r) ==
  [mark |-> r.top,
   filter |-> IF filter_is_active(r.q.filter) THEN r.q.filter ELSE NoFilter]

WriteCursor(s) ==
  LET r == run[s] IN
  /\ At(s, "cursor")
  /\ \/ /\ CursorMoves(r)
        /\ cursor' = [cursor EXCEPT ![CursorRef(r, r.type)] = NewCursor(r)]
        /\ UNCHANGED spent
     \/ ~CursorMoves(r) /\ UNCHANGED <<cursor, spent>>
     \/ CursorMoves(r) /\ Wrong("cursor_write") /\ UNCHANGED cursor
  /\ Set(s, Onward([r EXCEPT !.active = @ \cup r.mine]))
  /\ UNCHANGED <<setting, board, clock, tables, writer>>

---------------------------------------------------------------------------
(* TaskService.purge_orphaned_tasks. *)

Scope(r) == IF r.q.type = All THEN All ELSE r.q.project
InScope(r, k) == Scope(r) \in {All, ProjectOf[k]}
RowKeys(r) == {k \in Task : stored[k] # 0 /\ InScope(r, k)}
\* A node that a link made has no project.
NodeKeys(r) ==
  IF Scope(r) = All THEN nodes \cup linked ELSE {k \in nodes : InScope(r, k)}
LinkedKeys(r) == NodeKeys(r) \cap linked

\* Store and graph are listed one after the other, and either may fail.
ListKeys(s) ==
  LET r == run[s] IN
  /\ At(s, "purge")
  /\ \E lost \in Failing("store", {"rows"}) \cup Failing("graph", {"nodes"}) :
       /\ Set(s, [r EXCEPT !.pc = "protect", !.active = {},
                    !.orphans = ((IF "rows" \in lost THEN {} ELSE RowKeys(r))
                        \cup (IF "nodes" \in lost THEN {} ELSE NodeKeys(r)))
                      \ r.active])
       /\ Pay(lost)
  /\ UNCHANGED <<setting, board, clock, tables, cursor, writer>>

\* Tasks with a pull request are spared, if the graph can tell them.
Protect(s) ==
  LET r == [run[s] EXCEPT !.pc = "delete_rows"] IN
  /\ At(s, "protect")
  /\ \/ /\ Set(s, [r EXCEPT !.orphans =
                     IF r.q.keep THEN @ \ LinkedKeys(r) ELSE @])
        /\ UNCHANGED spent
     \/ r.q.keep /\ Wrong("graph") /\ Set(s, r)
  /\ UNCHANGED <<setting, board, clock, tables, cursor, writer>>

DeleteRows(s) ==
  /\ At(s, "delete_rows")
  /\ \/ /\ stored' = [k \in Task |->
                        IF k \in run[s].orphans THEN 0 ELSE stored[k]]
        /\ UNCHANGED spent
     \/ run[s].orphans # {} /\ Wrong("store") /\ UNCHANGED stored
  /\ Set(s, [run[s] EXCEPT !.pc = "delete_nodes"])
  /\ UNCHANGED <<setting, board, clock, nodes, linked, cursor, writer>>

DeleteNodes(s) ==
  /\ At(s, "delete_nodes")
  /\ \/ /\ nodes' = nodes \ run[s].orphans
        /\ linked' = linked \ run[s].orphans
        /\ UNCHANGED spent
     \/ run[s].orphans # {} /\ Wrong("graph") /\ UNCHANGED <<nodes, linked>>
  /\ Set(s, Idle)
  /\ UNCHANGED <<setting, board, clock, stored, cursor, writer>>

---------------------------------------------------------------------------
(* The other writers, and the death of a process. *)

\* _write_through of another process: the task is fetched, then indexed.
FetchOne(k) ==
  /\ writer = NoWriter /\ board[k].there
  /\ Wrong("write_through")
  /\ writer' = [key |-> k, text |-> board[k].text]
  /\ UNCHANGED <<setting, board, clock, tables, cursor, run>>

IndexTask ==
  /\ writer # NoWriter
  /\ stored' = [stored EXCEPT ![writer.key] = writer.text]
  /\ nodes' = nodes \cup {writer.key}
  /\ linked' = IF writer.key \in Mentions /\ stored[writer.key] # writer.text
               THEN linked \cup {writer.key} ELSE linked
  /\ writer' = NoWriter
  /\ UNCHANGED <<setting, board, clock, cursor, run, spent>>

LinkReview(k) ==
  /\ k \in setting.tasks \ linked
  /\ Wrong("publish")
  /\ linked' = linked \cup {k}
  /\ UNCHANGED <<setting, board, clock, stored, nodes, cursor, run, writer>>

Crash(s) ==
  /\ ~At(s, "idle")
  /\ Wrong("crash")
  /\ Set(s, Idle)
  /\ UNCHANGED <<setting, board, clock, tables, cursor, writer>>

SyncStep(s) ==
  \/ \E t \in Type : ReadCursor(s, t)
  \/ \E g \in Page : ListPage(s, g)
  \/ ListingFails(s)
  \/ CompareHashes(s)
  \/ \E i \in run[s].embed : Upsert(s, i)
  \/ WriteGraph(s)
  \/ WriteCursor(s)
  \/ ListKeys(s)
  \/ Protect(s)
  \/ DeleteRows(s)
  \/ DeleteNodes(s)

People == \E k \in Task : Edit(k) \/ Archive(k) \/ Remove(k)
Others == IndexTask \/ \E k \in Task : FetchOne(k) \/ LinkReview(k)

Next ==
  \/ \E s \in Process : SyncStep(s) \/ Crash(s)
  \/ \E s \in Process, q \in Request : Start(s, q)
  \/ People
  \/ Others

Spec == Init /\ [][Next]_vars

\* A sync is run again and again, each runs to its end, and a tool that
\* fetched a task indexes it.
Fairness ==
  /\ \A s \in Process : WF_vars(SyncStep(s))
  /\ \A s \in Process, q \in Request : WF_vars(Start(s, q))
  /\ WF_vars(IndexTask)

FairSpec == Spec /\ Fairness

---------------------------------------------------------------------------
(* Properties. *)

\* What the sync skips as unchanged is in the store: every task on a board
\* that is not newer than the watermark of a cursor and eligible under its
\* filter is stored with the text that it has on the board.  All that
\* _sync_provider decides not to normalize rests on this.
CursorIsHonest ==
  \A f \in Ref, k \in Task :
    /\ TypeOf[k] = f[1] /\ f[2] \in {All, ProjectOf[k]}
    /\ cursor[f].mark # 0 /\ board[k].there
    /\ board[k].stamp <= cursor[f].mark
    /\ Eligible(cursor[f].filter, board[k], clock)
    => stored[k] = board[k].text

\* That is so whatever filters come and go, as long as no other tool writes to
\* the store and no task or cursor fails to be written: a purge under a new
\* filter deletes rows that the cursor of the old filter counts on.
FiltersAreHonest ==
  setting.trouble \cap {"normalize", "embed", "store", "cursor_write",
                         "write_through"} = {} => CursorIsHonest

\* A purge deletes no task that was on its board, and eligible, from the
\* beginning of the run on: neither after a listing that broke off, nor the
\* tasks of another board.
PurgeSparesLive ==
  \A s \in Process :
    run[s].pc \in {"delete_rows", "delete_nodes"} =>
      run[s].orphans \cap run[s].live = {}

\* When the boards are left alone and nothing more goes wrong, repeated syncs
\* bring store and graph to what the boards hold: eligible tasks with their
\* texts and nodes, and no rows of others but of those with a pull request.
CaughtUp ==
  \A q \in setting.requests, k \in setting.tasks :
    IF board[k].there /\ Eligible(q.filter, board[k], clock)
    THEN stored[k] = board[k].text /\ k \in nodes
    ELSE stored[k] = 0 \/ k \in linked

CatchesUp == <>[]CaughtUp
=============================================================================
