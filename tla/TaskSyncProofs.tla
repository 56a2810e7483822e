---------------------------- MODULE TaskSyncProofs ----------------------------
(***************************************************************************)
(* What is proved of TaskSync.                                             *)
(*                                                                         *)
(* A purge deletes no task that was on its board, and eligible, from the   *)
(* beginning of the run on - for any number of processes that sync at the  *)
(* same time, any boards, pages, filters and failures, whatever people do  *)
(* to the boards meanwhile.  What is deleted was decided from the keys     *)
(* that the run has collected, so the proof follows every live task from   *)
(* the board still to be asked, to the page still to be read, to the       *)
(* active keys.                                                            *)
(*                                                                         *)
(* What a cursor vouches for is in the store - for one process at a time   *)
(* and boards that are listed in one page, with all that can break a run   *)
(* off.  The proof follows every text from the board to the items that a   *)
(* run carries, to the store, against what a purge deletes.                *)
(***************************************************************************)
EXTENDS TaskSync, FiniteSetTheorems, WellFoundedInduction, TLAPS

(* A purge and a listing of one call: which tasks they are about.          *)
Purges(q, k) == (IF q.type = All THEN All ELSE q.project) \in {All, ProjectOf[k]}
Lists(q, k) == q.type \in {All, TypeOf[k]} /\ q.project \in {All, ProjectOf[k]}

(* Every task in the scope of the purge is one that the call lists.  It is *)
(* not so of a board type without a project beside other boards, which is  *)
(* what run task_no_project shows, nor of a project without a board type:  *)
(* run() of sync.py purges the whole deployment then.                      *)
ListedScope(tasks, q) == q.purge => \A k \in tasks : Purges(q, k) => Lists(q, k)
ListedScopes == \A s \in Settings : \A q \in s.requests : ListedScope(s.tasks, q)

-----------------------------------------------------------------------------
(* The inductive invariant                                                 *)

Fields == {"pc", "q", "complete", "active", "todo", "type", "now", "known", "mark",
  "old", "top", "pages", "mine", "changed", "meta", "embed", "embedded",
  "retry", "orphans", "live"}
Columns == {"there", "stamp", "text", "archived"}

WillPurge(r) == r.q.purge /\ ~r.q.limit /\ r.complete

\* How a task that is to be kept comes to be among the active keys.
Reached(r, k) ==
  /\ r.pc = "provider" => TypeOf[k] \in r.todo \/ k \in r.active
  /\ r.pc = "list" =>
       \/ TypeOf[k] \in r.todo \ {r.type} \/ k \in r.active \/ k \in r.mine
       \/ \E g \in r.pages : k \in g
  /\ r.pc \in {"store", "cursor"} =>
       TypeOf[k] \in r.todo \ {r.type} \/ k \in r.active \/ k \in r.mine
  /\ r.pc = "purge" => k \in r.active

Kept(r, rows, now) ==
  \A k \in r.live : k \in Task /\ rows[k].there /\ Eligible(r.q.filter, rows[k], now)

Busy(r, tasks, rows, now) ==
  /\ r.q.filter.max_age \in Nat /\ ListedScope(tasks, r.q)
  /\ Kept(r, rows, now)
  /\ r.pc = "list" => r.now \in Nat /\ r.now <= now
  /\ r.pc = "purge" => WillPurge(r)
  /\ WillPurge(r) => \A k \in r.live : Purges(r.q, k) => Reached(r, k)
  /\ r.pc \in {"protect", "delete_rows", "delete_nodes"} => r.orphans \cap r.live = {}

RunOK(r, tasks, rows, now) ==
  DOMAIN r = Fields /\ (r.pc # "idle" => Busy(r, tasks, rows, now))

BoardsOK(rows, now, tasks) ==
  /\ now \in Nat /\ DOMAIN rows = Task
  /\ \A k \in Task : /\ DOMAIN rows[k] = Columns /\ rows[k].stamp \in Nat
                     /\ rows[k].there => k \in tasks

SyncInv ==
  /\ setting \in Settings
  /\ BoardsOK(board, clock, setting.tasks)
  /\ DOMAIN run = Process
  /\ \A s \in Process : RunOK(run[s], setting.tasks, board, clock)

-----------------------------------------------------------------------------
(* Steps of a run                                                          *)

LEMMA Resting ==
  /\ DOMAIN Idle = Fields /\ Idle.pc = "idle" /\ Idle.mine = {} /\ Idle.live = {}
  /\ Idle.complete = TRUE /\ Idle.active = {}
BY DEF Idle, Fields

LEMMA Turn ==
  ASSUME SyncInv, NEW s \in Process, NEW r, run' = [run EXCEPT ![s] = r],
         RunOK(r, setting.tasks, board, clock), UNCHANGED <<setting, board, clock>>
  PROVE  SyncInv'
BY DEF SyncInv

\* Steps that change no run and no board.
LEMMA NoTurn ==
  ASSUME SyncInv, UNCHANGED <<setting, board, clock, run>>
  PROVE  SyncInv'
BY DEF SyncInv

LEMMA RestStep ==
  ASSUME SyncInv, NEW s \in Process, Crash(s) \/ DeleteNodes(s)
  PROVE  SyncInv'
<1>1. run' = [run EXCEPT ![s] = Idle] /\ UNCHANGED <<setting, board, clock>>
  BY DEF Crash, DeleteNodes, Set
<1>2. RunOK(Idle, setting.tasks, board, clock)
  BY Resting DEF RunOK
<1> QED
  BY <1>1, <1>2, Turn

LEMMA StartStep ==
  ASSUME SyncAssumption, ListedScopes, SyncInv, NEW s \in Process, NEW q, Start(s, q)
  PROVE  SyncInv'
<1> DEFINE kept == {k \in Task : board[k].there /\ Eligible(q.filter, board[k], clock)}
           r == [Idle EXCEPT !.pc = "provider", !.q = q, !.todo = Selected(q), !.live = kept]
<1>1. /\ run' = [run EXCEPT ![s] = r] /\ UNCHANGED <<setting, board, clock>>
      /\ q \in setting.requests
  BY DEF Start, Set
<1>2. /\ q.filter.max_age \in Nat /\ ListedScope(setting.tasks, q)
      /\ \A k \in Task : board[k].there => k \in setting.tasks
  BY <1>1 DEF SyncInv, ListedScopes, SyncAssumption, SettingOK, Filter, BoardsOK
<1>3. \A k \in kept : k \in Task /\ board[k].there /\ Eligible(q.filter, board[k], clock)
  OBVIOUS
<1> HIDE DEF kept
<1>4. /\ DOMAIN r = Fields /\ r.pc = "provider" /\ r.q = q /\ r.todo = Selected(q)
      /\ r.live = kept /\ r.active = {}
  BY Resting DEF Fields
<1> HIDE DEF r
<1>5. ASSUME NEW k \in kept, q.purge, Purges(q, k) PROVE Reached(r, k)
  <2>1. k \in setting.tasks /\ Lists(q, k)
    BY <1>2, <1>3, <1>5 DEF ListedScope
  <2>2. TypeOf[k] \in Selected(q)
    BY <2>1 DEF Lists, Selected
  <2> QED
    BY <1>4, <2>2 DEF Reached
<1>6. Busy(r, setting.tasks, board, clock)
  BY <1>2, <1>3, <1>4, <1>5 DEF Busy, Kept, WillPurge
<1>7. RunOK(r, setting.tasks, board, clock)
  BY <1>4, <1>6 DEF RunOK
<1> QED
  BY <1>1, <1>7, Turn

\* Every task of the board that is asked is on a page.
LEMMA ReadCursorStep ==
  ASSUME SyncAssumption, SyncInv, NEW s \in Process, NEW t, ReadCursor(s, t)
  PROVE  SyncInv'
<1> DEFINE p == run[s]
           pages == {g \in Page : \E k \in g : TypeOf[k] = t}
<1> DEFINE b == [p EXCEPT !.pc = "list", !.type = t, !.now = clock, !.pages = pages]
           found == cursor[CursorRef(p, t)]
<1>1. PICK known, mark, top, old :
        run' = [run EXCEPT ![s] =
          [b EXCEPT !.known = known, !.mark = mark, !.top = top, !.old = old]]
  <2>1. CASE run' = [run EXCEPT ![s] = [b EXCEPT !.known = TRUE, !.mark = found.mark,
                       !.top = found.mark, !.old = found.filter]]
    <3> HIDE DEF b, found
    <3> QED
      BY <2>1
  <2>2. CASE run' = [run EXCEPT ![s] = [b EXCEPT !.known = FALSE, !.mark = 0,
                       !.top = 0, !.old = NoFilter]]
    <3> HIDE DEF b
    <3> QED
      BY <2>2
  <2> QED
    BY <2>1, <2>2 DEF ReadCursor, Set
<1>2. UNCHANGED <<setting, board, clock>> /\ p.pc = "provider" /\ t \in p.todo
  BY DEF ReadCursor, At
<1>3. /\ DOMAIN p = Fields /\ Busy(p, setting.tasks, board, clock)
      /\ clock \in Nat
  BY <1>2 DEF SyncInv, RunOK, BoardsOK
<1>4. \A k \in Task : TypeOf[k] = t => \E g \in pages : k \in g
  BY DEF SyncAssumption
<1> HIDE DEF p, pages, found
<1> DEFINE r == [b EXCEPT !.known = known, !.mark = mark, !.top = top, !.old = old]
<1>5. /\ DOMAIN b = Fields /\ b.pc = "list" /\ b.type = t /\ b.now = clock
      /\ b.pages = pages /\ b.q = p.q /\ b.todo = p.todo /\ b.active = p.active
      /\ b.live = p.live /\ b.complete = p.complete
  BY <1>3 DEF Fields
<1> HIDE DEF b
<1>6. /\ DOMAIN r = Fields /\ r.pc = "list" /\ r.type = t /\ r.now = clock
      /\ r.pages = pages /\ r.q = p.q /\ r.todo = p.todo /\ r.active = p.active
      /\ r.live = p.live /\ r.complete = p.complete
  BY <1>5 DEF Fields
<1> HIDE DEF r
<1>7. WillPurge(r) = WillPurge(p)
  BY <1>6 DEF WillPurge
<1>8. ASSUME WillPurge(p), NEW k \in p.live, Purges(p.q, k) PROVE Reached(r, k)
  <2>1. Reached(p, k) /\ k \in Task
    BY <1>3, <1>8 DEF Busy, Kept
  <2>2. TypeOf[k] \in p.todo \/ k \in p.active
    BY <1>2, <2>1 DEF Reached
  <2> QED
    BY <1>4, <1>6, <2>1, <2>2 DEF Reached
<1>9. Busy(r, setting.tasks, board, clock)
  <2>1. r.now \in Nat /\ r.now <= clock
    BY <1>3, <1>6
  <2>2. Kept(r, board, clock)
    BY <1>3, <1>6 DEF Busy, Kept
  <2> QED
    BY <1>3, <1>6, <1>7, <1>8, <2>1, <2>2 DEF Busy
<1>10. RunOK(r, setting.tasks, board, clock)
  BY <1>6, <1>9 DEF RunOK
<1>11. run' = [run EXCEPT ![s] = r]
  BY <1>1 DEF r
<1> QED
  BY <1>2, <1>10, <1>11, Turn

\* A page: what is to be kept is on the board, and eligible since the
\* cursor was read, so it becomes the run's own.
LEMMA ListPageStep ==
  ASSUME SyncAssumption, SyncInv, NEW s \in Process, NEW page, ListPage(s, page)
  PROVE  SyncInv'
<1> DEFINE p == run[s]
<1>1. PICK rows, failed :
        /\ ~p.q.limit => rows = RowsOf(p, page)
        /\ run' = [run EXCEPT ![s] = [Listed(p, rows, failed) EXCEPT !.pages = @ \ {page}]]
  <2>1. PICK rows \in (IF p.q.limit THEN SUBSET RowsOf(p, page) ELSE {RowsOf(p, page)}) :
          \E failed : run' = [run EXCEPT ![s] =
                                [Listed(p, rows, failed) EXCEPT !.pages = @ \ {page}]]
    BY DEF ListPage, Set
  <2> QED
    BY <2>1
<1>2. UNCHANGED <<setting, board, clock>> /\ p.pc = "list"
  BY DEF ListPage, At
<1>3. /\ DOMAIN p = Fields /\ Busy(p, setting.tasks, board, clock)
      /\ clock \in Nat /\ BoardsOK(board, clock, setting.tasks)
  BY <1>2 DEF SyncInv, RunOK, BoardsOK
<1> DEFINE mine == {k \in rows : Eligible(p.q.filter, board[k], p.now)}
           b == Listed(p, rows, failed)
<1>4. /\ DOMAIN b = Fields /\ b.pc = p.pc /\ b.type = p.type /\ b.now = p.now
      /\ b.pages = p.pages /\ b.q = p.q /\ b.todo = p.todo /\ b.active = p.active
      /\ b.live = p.live /\ b.complete = p.complete /\ b.mine = p.mine \cup mine
  BY <1>3 DEF Listed, Fields
<1>5. \A k \in RowsOf(p, page) : ~p.q.limit /\ Eligible(p.q.filter, board[k], p.now) => k \in mine
  BY <1>1
<1> HIDE DEF b, mine
<1> DEFINE r == [b EXCEPT !.pages = @ \ {page}]
<1>6. /\ DOMAIN r = Fields /\ r.pc = "list" /\ r.type = p.type /\ r.now = p.now
      /\ r.pages = p.pages \ {page} /\ r.q = p.q /\ r.todo = p.todo /\ r.active = p.active
      /\ r.live = p.live /\ r.complete = p.complete /\ r.mine = p.mine \cup mine
  BY <1>2, <1>4 DEF Fields
<1>7. run' = [run EXCEPT ![s] = r]
  BY <1>1 DEF b
<1> HIDE DEF r, p
<1>8. WillPurge(r) = WillPurge(p)
  BY <1>6 DEF WillPurge
<1>9. ASSUME WillPurge(p), NEW k \in p.live, Purges(p.q, k) PROVE Reached(r, k)
  <2>1. Reached(p, k) /\ k \in Task /\ board[k].there /\ Eligible(p.q.filter, board[k], clock)
    BY <1>3, <1>9 DEF Busy, Kept
  <2>2. CASE k \in page
    <3>1. k \in RowsOf(p, page)
      <4>1. Lists(p.q, k)
        BY <1>3, <1>9, <2>1 DEF Busy, ListedScope, WillPurge, BoardsOK
      <4> QED
        BY <2>1, <2>2, <4>1 DEF RowsOf, Lists
    <3>2. Eligible(p.q.filter, board[k], p.now)
      <4>1. /\ p.now \in Nat /\ p.now <= clock /\ p.q.filter.max_age \in Nat
            /\ board[k].stamp \in Nat
        BY <1>2, <1>3, <2>1 DEF Busy, BoardsOK
      <4> QED
        BY <1>3, <2>1, <4>1 DEF Eligible
    <3> QED
      BY <1>5, <1>6, <1>9, <3>1, <3>2 DEF Reached, WillPurge
  <2>3. CASE k \notin page
    BY <1>2, <1>6, <2>1, <2>3 DEF Reached
  <2> QED
    BY <2>2, <2>3
<1>10. Busy(r, setting.tasks, board, clock)
  <2>1. r.now \in Nat /\ r.now <= clock
    BY <1>2, <1>3, <1>6 DEF Busy
  <2>2. Kept(r, board, clock)
    BY <1>3, <1>6 DEF Busy, Kept
  <2> QED
    BY <1>3, <1>6, <1>8, <1>9, <2>1, <2>2 DEF Busy
<1>11. RunOK(r, setting.tasks, board, clock)
  BY <1>6, <1>10 DEF RunOK
<1> QED
  BY <1>2, <1>7, <1>11, Turn

\* What lies between two boards keeps the active keys.
LEMMA OnwardOK ==
  ASSUME SyncInv, NEW r, DOMAIN r = Fields, r.q.filter.max_age \in Nat,
         ListedScope(setting.tasks, r.q), Kept(r, board, clock),
         WillPurge(r) => \A k \in r.live : Purges(r.q, k) =>
                           TypeOf[k] \in r.todo \ {r.type} \/ k \in r.active
  PROVE  RunOK(Onward(r), setting.tasks, board, clock)
<1> DEFINE b == Between(r)
           e == [b EXCEPT !.pc = "purge"]
<1>1. /\ DOMAIN b = Fields /\ b.pc = "provider" /\ b.q = r.q /\ b.complete = r.complete
      /\ b.active = r.active /\ b.todo = r.todo \ {r.type} /\ b.live = r.live
  BY Resting DEF Between, Fields
<1>2. Onward(r) = IF b.todo # {} THEN b
                  ELSE IF r.q.purge /\ ~r.q.limit /\ r.complete THEN e ELSE Idle
  BY DEF Onward
<1> HIDE DEF b
<1>3. /\ DOMAIN e = Fields /\ e.pc = "purge" /\ e.q = r.q /\ e.complete = r.complete
      /\ e.active = r.active /\ e.live = r.live
  BY <1>1 DEF Fields
<1> HIDE DEF e
<1>4. Kept(b, board, clock) /\ Kept(e, board, clock)
  BY <1>1, <1>3 DEF Kept
<1>5. RunOK(b, setting.tasks, board, clock)
  BY <1>1, <1>4 DEF RunOK, Busy, Reached, WillPurge
<1>6. CASE b.todo = {} /\ r.q.purge /\ ~r.q.limit /\ r.complete
  <2>1. RunOK(e, setting.tasks, board, clock)
    BY <1>1, <1>3, <1>4, <1>6 DEF RunOK, Busy, Reached, WillPurge
  <2> QED
    BY <1>2, <1>6, <2>1
<1>7. RunOK(Idle, setting.tasks, board, clock)
  BY Resting DEF RunOK
<1> QED
  BY <1>2, <1>5, <1>6, <1>7

LEMMA ListingFailsStep ==
  ASSUME SyncInv, NEW s \in Process, ListingFails(s)
  PROVE  SyncInv'
<1> DEFINE p == run[s]
           r == [p EXCEPT !.complete = FALSE]
<1>1. /\ UNCHANGED <<setting, board, clock>> /\ p.pc = "list"
      /\ run' = [run EXCEPT ![s] = Onward(r)]
  BY DEF ListingFails, At, Set
<1>2. DOMAIN p = Fields /\ Busy(p, setting.tasks, board, clock)
  BY <1>1 DEF SyncInv, RunOK
<1> HIDE DEF p
<1>3. DOMAIN r = Fields /\ r.complete = FALSE /\ r.q = p.q /\ r.live = p.live
  BY <1>2 DEF Fields
<1> HIDE DEF r
<1>4. RunOK(Onward(r), setting.tasks, board, clock)
  <2>1. ~WillPurge(r) /\ Kept(r, board, clock)
    BY <1>2, <1>3 DEF WillPurge, Busy, Kept
  <2> QED
    BY <1>2, <1>3, <2>1, OnwardOK DEF Busy
<1> QED
  BY <1>1, <1>4, Turn

\* From the last page to the cursor, the tables are written.
Stores(r, p) ==
  /\ DOMAIN r = Fields /\ r.pc \in {"store", "cursor"}
  /\ r.type = p.type /\ r.q = p.q /\ r.todo = p.todo /\ r.active = p.active
  /\ r.live = p.live /\ r.complete = p.complete /\ r.mine = p.mine

LEMMA StoreTurn ==
  ASSUME SyncInv, NEW s \in Process, NEW r, run' = [run EXCEPT ![s] = r],
         Stores(r, run[s]), UNCHANGED <<setting, board, clock>>,
         run[s].pc = "store" \/ (run[s].pc = "list" /\ run[s].pages = {})
  PROVE  SyncInv'
<1> DEFINE p == run[s]
<1>1. DOMAIN p = Fields /\ Busy(p, setting.tasks, board, clock)
  BY DEF SyncInv, RunOK
<1>2. Stores(r, p) /\ (p.pc = "store" \/ (p.pc = "list" /\ p.pages = {}))
  OBVIOUS
<1> HIDE DEF p
<1>3. ASSUME WillPurge(p), NEW k \in p.live, Purges(p.q, k) PROVE Reached(r, k)
  <2>1. Reached(p, k)
    BY <1>1, <1>3 DEF Busy
  <2>2. TypeOf[k] \in p.todo \ {p.type} \/ k \in p.active \/ k \in p.mine
    BY <1>2, <2>1 DEF Reached
  <2> QED
    BY <1>2, <2>2 DEF Reached, Stores
<1>4. Busy(r, setting.tasks, board, clock)
  <2>1. WillPurge(r) = WillPurge(p) /\ Kept(r, board, clock)
    BY <1>1, <1>2 DEF Busy, Kept, WillPurge, Stores
  <2> QED
    BY <1>1, <1>2, <1>3, <2>1 DEF Busy, Stores
<1>5. RunOK(r, setting.tasks, board, clock)
  BY <1>2, <1>4 DEF RunOK, Stores
<1> QED
  BY <1>5, Turn

LEMMA CompareHashesStep ==
  ASSUME SyncInv, NEW s \in Process, CompareHashes(s)
  PROVE  SyncInv'
<1> DEFINE p == run[s]
           differ == {i \in p.changed : stored[i.key] # i.text}
<1>1. /\ UNCHANGED <<setting, board, clock>> /\ p.pc = "list" /\ p.pages = {}
      /\ DOMAIN p = Fields
  BY DEF CompareHashes, At, SyncInv, RunOK
<1>2. ASSUME NEW embed, NEW retry,
             run' = [run EXCEPT ![s] = [p EXCEPT !.pc = "store", !.embed = embed, !.retry = retry]]
      PROVE  SyncInv'
  <2> DEFINE r == [p EXCEPT !.pc = "store", !.embed = embed, !.retry = retry]
  <2>1. Stores(r, p)
    BY <1>1 DEF Stores, Fields
  <2>2. run' = [run EXCEPT ![s] = r]
    BY <1>2
  <2> HIDE DEF r
  <2> QED
    BY <1>1, <2>1, <2>2, StoreTurn
<1>3. CASE \E failed : run' = [run EXCEPT ![s] =
        [p EXCEPT !.pc = "store", !.embed = differ \ failed, !.retry = @ \/ failed # {}]]
  BY <1>2, <1>3
<1>4. CASE run' = [run EXCEPT ![s] = [p EXCEPT !.pc = "store", !.embed = {}, !.retry = TRUE]]
  BY <1>2, <1>4
<1> QED
  BY <1>3, <1>4 DEF CompareHashes, Set

LEMMA UpsertStep ==
  ASSUME SyncInv, NEW s \in Process, NEW i, Upsert(s, i)
  PROVE  SyncInv'
<1> DEFINE p == run[s]
           b == [p EXCEPT !.embed = @ \ {i}]
<1>1. /\ UNCHANGED <<setting, board, clock>> /\ p.pc = "store" /\ DOMAIN p = Fields
  BY DEF Upsert, At, SyncInv, RunOK
<1>2. CASE run' = [run EXCEPT ![s] = [b EXCEPT !.embedded = @ \cup {i.key}]]
  <2> DEFINE r == [b EXCEPT !.embedded = @ \cup {i.key}]
  <2>1. Stores(r, p)
    BY <1>1 DEF Stores, Fields
  <2>2. run' = [run EXCEPT ![s] = r]
    BY <1>2
  <2> HIDE DEF r
  <2> QED
    BY <1>1, <2>1, <2>2, StoreTurn
<1>3. CASE run' = [run EXCEPT ![s] = [b EXCEPT !.retry = TRUE]]
  <2> DEFINE r == [b EXCEPT !.retry = TRUE]
  <2>1. Stores(r, p)
    BY <1>1 DEF Stores, Fields
  <2>2. run' = [run EXCEPT ![s] = r]
    BY <1>3
  <2> HIDE DEF r
  <2> QED
    BY <1>1, <2>1, <2>2, StoreTurn
<1> QED
  BY <1>2, <1>3 DEF Upsert, Set

LEMMA WriteGraphStep ==
  ASSUME SyncInv, NEW s \in Process, WriteGraph(s)
  PROVE  SyncInv'
<1> DEFINE p == run[s]
           r == [p EXCEPT !.pc = "cursor"]
<1>1. /\ UNCHANGED <<setting, board, clock>> /\ p.pc = "store" /\ DOMAIN p = Fields
      /\ run' = [run EXCEPT ![s] = r]
  BY DEF WriteGraph, At, Set, SyncInv, RunOK
<1>2. Stores(r, p)
  BY <1>1 DEF Stores, Fields
<1> HIDE DEF r
<1> QED
  BY <1>1, <1>2, StoreTurn

LEMMA WriteCursorStep ==
  ASSUME SyncInv, NEW s \in Process, WriteCursor(s)
  PROVE  SyncInv'
<1> DEFINE p == run[s]
           r == [p EXCEPT !.active = @ \cup p.mine]
<1>1. /\ UNCHANGED <<setting, board, clock>> /\ p.pc = "cursor"
      /\ run' = [run EXCEPT ![s] = Onward(r)]
  BY DEF WriteCursor, At, Set
<1>2. DOMAIN p = Fields /\ Busy(p, setting.tasks, board, clock)
  BY <1>1 DEF SyncInv, RunOK
<1> HIDE DEF p
<1>3. /\ DOMAIN r = Fields /\ r.complete = p.complete /\ r.q = p.q /\ r.live = p.live
      /\ r.type = p.type /\ r.todo = p.todo /\ r.active = p.active \cup p.mine
  BY <1>2 DEF Fields
<1> HIDE DEF r
<1>4. RunOK(Onward(r), setting.tasks, board, clock)
  <2>1. WillPurge(r) = WillPurge(p) /\ Kept(r, board, clock)
    BY <1>2, <1>3 DEF WillPurge, Busy, Kept
  <2>2. ASSUME WillPurge(r), NEW k \in r.live, Purges(r.q, k)
        PROVE  TypeOf[k] \in r.todo \ {r.type} \/ k \in r.active
    BY <1>1, <1>2, <1>3, <2>1, <2>2 DEF Busy, Reached
  <2> QED
    BY <1>2, <1>3, <2>1, <2>2, OnwardOK DEF Busy
<1> QED
  BY <1>1, <1>4, Turn

-----------------------------------------------------------------------------
(* The purge                                                               *)

\* Only keys in scope are listed, and of those only what is not active.
LEMMA ListKeysStep ==
  ASSUME SyncInv, NEW s \in Process, ListKeys(s)
  PROVE  SyncInv'
<1> DEFINE p == run[s]
           listed(lost) == ((IF "rows" \in lost THEN {} ELSE RowKeys(p))
                            \cup (IF "nodes" \in lost THEN {} ELSE NodeKeys(p))) \ p.active
<1>1. PICK lost : run' = [run EXCEPT ![s] =
                     [p EXCEPT !.pc = "protect", !.active = {}, !.orphans = listed(lost)]]
  <2>1. \E lost : run' = [run EXCEPT ![s] =
                    [p EXCEPT !.pc = "protect", !.active = {}, !.orphans = listed(lost)]]
    BY DEF ListKeys, Set
  <2> QED
    BY <2>1
<1>2. UNCHANGED <<setting, board, clock>> /\ p.pc = "purge"
  BY DEF ListKeys, At
<1>3. DOMAIN p = Fields /\ Busy(p, setting.tasks, board, clock)
  BY <1>2 DEF SyncInv, RunOK
<1>4. \A k \in listed(lost) : Purges(p.q, k) /\ k \notin p.active
  BY DEF RowKeys, NodeKeys, InScope, Scope, Purges
<1> DEFINE keys == listed(lost)
<1> HIDE DEF p, keys
<1> DEFINE r == [p EXCEPT !.pc = "protect", !.active = {}, !.orphans = keys]
<1>5. /\ DOMAIN r = Fields /\ r.pc = "protect" /\ r.q = p.q /\ r.live = p.live
      /\ r.complete = p.complete /\ r.orphans = keys
  BY <1>3 DEF Fields
<1>6. run' = [run EXCEPT ![s] = r]
  BY <1>1 DEF p, keys
<1> HIDE DEF r
<1>7. \A k \in p.live : Purges(p.q, k) => k \in p.active
  BY <1>2, <1>3 DEF Busy, Reached
<1>8. r.orphans \cap r.live = {}
  BY <1>4, <1>5, <1>7 DEF keys
<1>9. Busy(r, setting.tasks, board, clock)
  BY <1>3, <1>5, <1>8 DEF Busy, Kept, Reached
<1> QED
  BY <1>2, <1>5, <1>6, <1>9, Turn DEF RunOK

\* The orphans only become fewer.
LEMMA DeleteTurn ==
  ASSUME SyncInv, NEW s \in Process, NEW r, run' = [run EXCEPT ![s] = r],
         UNCHANGED <<setting, board, clock>>,
         run[s].pc \in {"protect", "delete_rows"},
         DOMAIN r = Fields, r.pc \in {"delete_rows", "delete_nodes"},
         r.q = run[s].q, r.live = run[s].live, r.orphans \subseteq run[s].orphans
  PROVE  SyncInv'
<1>1. Busy(run[s], setting.tasks, board, clock)
  BY DEF SyncInv, RunOK
<1>2. Busy(r, setting.tasks, board, clock)
  BY <1>1 DEF Busy, Kept, Reached
<1> QED
  BY <1>2, Turn DEF RunOK

LEMMA ProtectStep ==
  ASSUME SyncInv, NEW s \in Process, Protect(s)
  PROVE  SyncInv'
<1> DEFINE p == run[s]
           b == [p EXCEPT !.pc = "delete_rows"]
           e == [b EXCEPT !.orphans = IF b.q.keep THEN @ \ LinkedKeys(b) ELSE @]
<1>1. /\ UNCHANGED <<setting, board, clock>> /\ p.pc = "protect" /\ DOMAIN p = Fields
      /\ run' = [run EXCEPT ![s] = b] \/ run' = [run EXCEPT ![s] = e]
  BY DEF Protect, At, Set, SyncInv, RunOK
<1>2. /\ DOMAIN b = Fields /\ b.pc = "delete_rows" /\ b.q = p.q /\ b.live = p.live
      /\ b.orphans = p.orphans
  BY <1>1 DEF Fields
<1> HIDE DEF b
<1>3. /\ DOMAIN e = Fields /\ e.pc = "delete_rows" /\ e.q = p.q /\ e.live = p.live
      /\ e.orphans \subseteq p.orphans
  BY <1>2 DEF Fields
<1> HIDE DEF e
<1> QED
  BY <1>1, <1>2, <1>3, DeleteTurn

LEMMA DeleteRowsStep ==
  ASSUME SyncInv, NEW s \in Process, DeleteRows(s)
  PROVE  SyncInv'
<1> DEFINE p == run[s]
           r == [p EXCEPT !.pc = "delete_nodes"]
<1>1. /\ UNCHANGED <<setting, board, clock>> /\ p.pc = "delete_rows" /\ DOMAIN p = Fields
      /\ run' = [run EXCEPT ![s] = r]
  BY DEF DeleteRows, At, Set, SyncInv, RunOK
<1>2. /\ DOMAIN r = Fields /\ r.pc = "delete_nodes" /\ r.q = p.q /\ r.live = p.live
      /\ r.orphans = p.orphans
  BY <1>1 DEF Fields
<1> HIDE DEF r
<1> QED
  BY <1>1, <1>2, DeleteTurn

-----------------------------------------------------------------------------
(* The boards                                                              *)

\* Who edits, archives or removes a task changes what the runs are to keep.
LEMMA ChangeStep ==
  ASSUME SyncInv, NEW k \in Task, NEW row, Change(k, row),
         DOMAIN row = Columns, row.stamp \in Nat, row.there => k \in setting.tasks
  PROVE  SyncInv'
<1>1. /\ setting' = setting /\ clock' = clock + 1 /\ board' = [board EXCEPT ![k] = row]
      /\ run' = [s \in Process |-> [run[s] EXCEPT !.live =
                   IF At(s, "idle") THEN {} ELSE StillLive(run[s])]]
  BY DEF Change
<1>2. BoardsOK(board', clock', setting'.tasks)
  BY <1>1 DEF SyncInv, BoardsOK
<1>3. ASSUME NEW s \in Process PROVE RunOK(run'[s], setting'.tasks, board', clock')
  <2> DEFINE p == run[s]
             live == IF At(s, "idle") THEN {} ELSE StillLive(p)
             r == [p EXCEPT !.live = live]
  <2>1. run'[s] = r
    BY <1>1
  <2>2. DOMAIN p = Fields /\ (p.pc # "idle" => Busy(p, setting.tasks, board, clock))
    BY DEF SyncInv, RunOK
  <2>3. /\ DOMAIN r = Fields /\ r.pc = p.pc /\ r.type = p.type /\ r.now = p.now
        /\ r.pages = p.pages /\ r.q = p.q /\ r.todo = p.todo /\ r.active = p.active
        /\ r.complete = p.complete /\ r.mine = p.mine /\ r.orphans = p.orphans
        /\ r.live = live
    BY <2>2 DEF Fields
  <2>4. p.pc # "idle" => live = StillLive(p)
    BY DEF At
  <2>5. RunOK(r, setting.tasks, board', clock')
    <3>1. CASE p.pc = "idle"
      BY <2>3, <3>1 DEF RunOK
    <3>2. CASE p.pc # "idle"
      <4>1. Busy(p, setting.tasks, board, clock) /\ r.live = StillLive(p)
        BY <2>2, <2>3, <2>4, <3>2
      <4>2. r.live \subseteq p.live /\ Kept(r, board', clock')
        BY <2>3, <4>1 DEF StillLive, Kept, Busy
      <4> HIDE DEF r, live, p
      <4>3. WillPurge(r) = WillPurge(p)
        BY <2>3 DEF WillPurge
      <4>4. ASSUME NEW q \in p.live, Reached(p, q) PROVE Reached(r, q)
        BY <2>3, <4>4 DEF Reached
      <4>5. r.pc = "list" => r.now \in Nat /\ r.now <= clock'
        <5>1. clock \in Nat /\ clock' = clock + 1
          BY <1>1 DEF SyncInv, BoardsOK
        <5>2. p.pc = "list" => p.now \in Nat /\ p.now <= clock
          BY <4>1 DEF Busy
        <5> QED
          BY <2>3, <5>1, <5>2
      <4>6. r.orphans \cap r.live \subseteq p.orphans \cap p.live
        BY <2>3, <4>2
      <4>7. Busy(r, setting.tasks, board', clock')
        BY <2>3, <4>1, <4>2, <4>3, <4>4, <4>5, <4>6 DEF Busy
      <4> QED
        BY <2>3, <4>7 DEF RunOK
    <3> QED
      BY <3>1, <3>2
  <2> HIDE DEF r
  <2> QED
    BY <1>1, <2>1, <2>5
<1>4. DOMAIN run' = Process
  BY <1>1
<1> QED
  BY <1>1, <1>2, <1>3, <1>4 DEF SyncInv

LEMMA PeopleStep ==
  ASSUME SyncInv, People PROVE SyncInv'
<1>1. PICK k \in Task : Edit(k) \/ Archive(k) \/ Remove(k)
  BY DEF People
<1>2. /\ DOMAIN board[k] = Columns /\ board[k].stamp \in Nat /\ clock \in Nat
      /\ board[k].there => k \in setting.tasks
  BY DEF SyncInv, BoardsOK
<1>3. Stamped(k) \in Nat
  BY <1>2 DEF Stamped
<1>4. CASE Edit(k)
  <2> DEFINE row == [there |-> TRUE, stamp |-> Stamped(k), text |-> clock + 1,
                     archived |-> board[k].archived]
  <2>1. Change(k, row) /\ k \in setting.tasks
    BY <1>4 DEF Edit
  <2>2. DOMAIN row = Columns /\ row.stamp = Stamped(k)
    BY DEF Columns
  <2> HIDE DEF row
  <2> QED
    BY <1>3, <2>1, <2>2, ChangeStep
<1>5. CASE Archive(k)
  <2> DEFINE row == [board[k] EXCEPT !.archived = ~@, !.stamp = Stamped(k)]
  <2>1. Change(k, row)
    BY <1>5 DEF Archive
  <2>2. DOMAIN row = Columns /\ row.stamp = Stamped(k) /\ row.there = board[k].there
    BY <1>2 DEF Columns
  <2> HIDE DEF row
  <2> QED
    BY <1>2, <1>3, <2>1, <2>2, ChangeStep
<1>6. CASE Remove(k)
  <2> DEFINE row == [board[k] EXCEPT !.there = FALSE]
  <2>1. Change(k, row)
    BY <1>6 DEF Remove
  <2>2. DOMAIN row = Columns /\ row.stamp = board[k].stamp /\ row.there = FALSE
    BY <1>2 DEF Columns
  <2> HIDE DEF row
  <2> QED
    BY <1>2, <2>1, <2>2, ChangeStep
<1> QED
  BY <1>1, <1>4, <1>5, <1>6

-----------------------------------------------------------------------------
(* Conclusion                                                              *)

LEMMA SyncStart ==
  ASSUME Init PROVE SyncInv
<1>1. BoardsOK(board, clock, setting.tasks)
  BY DEF Init, BoardsOK, Missing, Columns
<1>2. RunOK(Idle, setting.tasks, board, clock)
  BY Resting DEF RunOK
<1> QED
  BY <1>1, <1>2 DEF Init, SyncInv

LEMMA SyncStepKeeps ==
  ASSUME SyncAssumption, ListedScopes, SyncInv, [Next]_vars PROVE SyncInv'
<1>1. ASSUME NEW s \in Process, SyncStep(s) PROVE SyncInv'
  <2>1. CASE \E t \in Type : ReadCursor(s, t)
    BY <2>1, ReadCursorStep
  <2>2. CASE \E g \in Page : ListPage(s, g)
    BY <2>2, ListPageStep
  <2>3. CASE ListingFails(s)
    BY <2>3, ListingFailsStep
  <2>4. CASE CompareHashes(s)
    BY <2>4, CompareHashesStep
  <2>5. CASE \E i \in run[s].embed : Upsert(s, i)
    BY <2>5, UpsertStep
  <2>6. CASE WriteGraph(s)
    BY <2>6, WriteGraphStep
  <2>7. CASE WriteCursor(s)
    BY <2>7, WriteCursorStep
  <2>8. CASE ListKeys(s)
    BY <2>8, ListKeysStep
  <2>9. CASE Protect(s)
    BY <2>9, ProtectStep
  <2>10. CASE DeleteRows(s)
    BY <2>10, DeleteRowsStep
  <2>11. CASE DeleteNodes(s)
    BY <2>11, RestStep
  <2> QED
    BY <1>1, <2>1, <2>2, <2>3, <2>4, <2>5, <2>6, <2>7, <2>8, <2>9, <2>10, <2>11 DEF SyncStep
<1>2. ASSUME NEW s \in Process, Crash(s) PROVE SyncInv'
  BY <1>2, RestStep
<1>3. ASSUME NEW s \in Process, NEW q, Start(s, q) PROVE SyncInv'
  BY <1>3, StartStep
<1>4. CASE Others
  BY <1>4, NoTurn DEF Others, IndexTask, FetchOne, LinkReview
<1>5. CASE UNCHANGED vars
  BY <1>5, NoTurn DEF vars
<1> QED
  BY <1>1, <1>2, <1>3, <1>4, <1>5, PeopleStep DEF Next

(* A purge deletes no task that was on its board, and eligible, from the   *)
(* beginning of the run on, with any number of syncs at the same time and  *)
(* whatever fails, as long as the calls list every task that is in the     *)
(* scope of their purge (SyncService.run, purge_orphaned_tasks).           *)
THEOREM LiveTasksAreSpared == ListedScopes => (Spec => []PurgeSparesLive)
<1> SUFFICES ASSUME ListedScopes PROVE Spec => []PurgeSparesLive
  OBVIOUS
<1>1. Init => SyncInv
  BY SyncStart
<1>2. SyncInv /\ [Next]_vars => SyncInv'
  BY SyncAssumption, SyncStepKeeps
<1>3. SyncInv => PurgeSparesLive
  BY DEF SyncInv, RunOK, Busy, PurgeSparesLive
<1> QED
  BY <1>1, <1>2, <1>3, PTL DEF Spec

-----------------------------------------------------------------------------
(* Cursors.  What the sync skips is in the store - where the code can keep *)
(* that.  It cannot when two calls write to the store at the same time,    *)
(* when an edit slips between two pages of a listing, or when a board does *)
(* not tell when a task changed; nor when a purge under one filter deletes *)
(* rows that a cursor of another scope, or one that was kept for a retry,  *)
(* counts on under another filter.                                         *)

OneSync == \A s, u \in Process : s = u
WholeListings == \A g \in Page : \A k \in g, l \in Task : TypeOf[k] = TypeOf[l] => l \in g

\* Calls of one scope; projects that there are.
OneScope(set) ==
  \A q, u \in set.requests :
    q.type = u.type /\ q.project = u.project /\ q.project \in Project \cup {All}

\* Either nothing goes wrong between a listing and its cursor ...
Smooth(set) ==
  set.trouble \cap {"normalize", "embed", "store", "cursor_write", "write_through"} = {}
\* ... or the filter is always the same.
Steady(set) ==
  "write_through" \notin set.trouble /\ \A q, u \in set.requests : q.filter = u.filter

Settled(set) == OneScope(set) /\ (Smooth(set) \/ Steady(set))

Boards(set, q) == IF q.type = All THEN {TypeOf[k] : k \in set.tasks} ELSE {q.type}
Canonical(f) == IF filter_is_active(f) THEN f ELSE NoFilter

\* The task is one that the cursor vouches for.
Claimed(f, k, rows, now, cur) ==
  /\ TypeOf[k] = f[1] /\ f[2] \in {All, ProjectOf[k]}
  /\ cur[f].mark # 0 /\ rows[k].there /\ rows[k].stamp <= cur[f].mark
  /\ Eligible(cur[f].filter, rows[k], now)

TablesOK(set, rows, now, st, cur) ==
  /\ now \in Nat /\ DOMAIN rows = Task /\ DOMAIN st = Task /\ DOMAIN cur = Ref
  /\ \A k \in Task : /\ DOMAIN rows[k] = Columns
                     /\ rows[k].stamp \in Nat /\ rows[k].stamp <= now
                     /\ rows[k].there => rows[k].stamp # 0
  /\ \A f \in Ref :
       /\ cur[f].mark \in Nat /\ cur[f].mark <= now /\ cur[f].filter.max_age \in Nat
       /\ cur[f].mark # 0 =>
            /\ \E q \in set.requests : f[2] = q.project /\ f[1] \in Boards(set, q)
            /\ Steady(set) => \A q \in set.requests : cur[f].filter = Canonical(q.filter)
  /\ \A f \in Ref, k \in Task : Claimed(f, k, rows, now, cur) => st[k] = rows[k].text

OnBoard(r, k) == TypeOf[k] = r.type /\ r.q.project \in {All, ProjectOf[k]}

\* As it was when the run listed it: what changes later has a later stamp.
Unchanged(r, k, rows, cur) ==
  /\ rows[k].there
  /\ rows[k].stamp <= r.top \/ \E f \in Ref : rows[k].stamp <= cur[f].mark

Pending(r) == IF r.pc = "list" THEN r.changed ELSE r.embed

\* Before the listing: the cursor that was read is to be trusted.
Unlisted(r, rows, st) ==
  /\ r.top = r.mark /\ r.changed = {}
  /\ \A g \in r.pages : \A k \in Task : TypeOf[k] = r.type => k \in g
  /\ \A g, h \in r.pages : g = h
  /\ r.known => \A k \in Task :
       /\ OnBoard(r, k) /\ r.mark # 0 /\ rows[k].there /\ rows[k].stamp <= r.mark
       /\ Eligible(r.old, rows[k], r.now)
       => st[k] = rows[k].text

\* After it: the eligible tasks are the run's own, and they are in the store,
\* on their way to it, or there will be a retry.
Known(r, rows, st, cur) ==
  /\ \A i \in Pending(r) :
       i.key \in Task /\ (Unchanged(r, i.key, rows, cur) => i.text = rows[i.key].text)
  /\ ~r.q.limit =>
       \A k \in Task :
         /\ OnBoard(r, k) /\ Unchanged(r, k, rows, cur)
         /\ Eligible(r.q.filter, rows[k], r.now)
         => /\ k \in r.mine
            /\ \/ r.retry \/ st[k] = rows[k].text
               \/ \E i \in Pending(r) : i.key = k /\ i.text = rows[k].text
  /\ r.pc = "cursor" => r.embed = {}

Asking(r, set, now, cur) ==
  /\ r.type \in Type /\ r.type \in r.todo
  /\ {r.now, r.mark, r.top} \subseteq Nat
  /\ r.now <= now /\ r.mark <= r.top /\ r.top <= now
  /\ r.known => cur[<<r.type, r.q.project>>].mark = r.mark
                /\ cur[<<r.type, r.q.project>>].filter = r.old
  /\ Smooth(set) => ~r.retry

\* What cursors vouch for on the boards that were asked is active.
Collected(r, rows, now, cur) ==
  WillPurge(r) => \A f \in Ref, k \in Task :
    Claimed(f, k, rows, now, cur) /\ f[1] \notin r.todo => k \in r.active

Syncing(r, set, rows, now, st, cur) ==
  /\ r.q \in set.requests /\ r.todo \subseteq Boards(set, r.q)
  /\ r.pc = "provider" => r.retry = FALSE /\ r.changed = {}
  /\ r.pc \in {"list", "store", "cursor"} => Asking(r, set, now, cur)
  /\ r.pc = "list" /\ r.pages # {} => Unlisted(r, rows, st)
  /\ r.pc \in {"store", "cursor"} \/ (r.pc = "list" /\ r.pages = {}) =>
       Known(r, rows, st, cur)
  /\ r.pc = "purge" => r.todo = {} /\ WillPurge(r)
  /\ r.pc \in {"provider", "list", "store", "cursor", "purge"} => Collected(r, rows, now, cur)
  /\ r.pc \in {"protect", "delete_rows", "delete_nodes"} =>
       \A f \in Ref, k \in Task : Claimed(f, k, rows, now, cur) => k \notin r.orphans

HonestRun(r, set, rows, now, st, cur) ==
  DOMAIN r = Fields /\ (r.pc # "idle" => Syncing(r, set, rows, now, st, cur))

HonestInv ==
  /\ setting \in Settings /\ writer = NoWriter /\ DOMAIN run = Process
  /\ TablesOK(setting, board, clock, stored, cursor)
  /\ \A s \in Process : HonestRun(run[s], setting, board, clock, stored, cursor)

-----------------------------------------------------------------------------
(* Filters and stamps                                                      *)

\* The latest stamp of a page.
LEMMA Greatest ==
  ASSUME NEW n \in Nat, NEW S, S # {}, \A t \in S : t \in Nat /\ t <= n
  PROVE  \E t \in S : \A u \in S : t >= u
<1> DEFINE F == {t..n : t \in S}
           R == StrictSubsetOrdering(0..n)
<1>1. IsWellFoundedOn(R, FiniteSubsetsOf(0..n))
  BY FS_StrictSubsetOrderingWellFounded
<1>2. IsFiniteSet(0..n)
  BY FS_Interval
<1>3. F \subseteq FiniteSubsetsOf(0..n) /\ F # {}
  <2>1. \A t \in S : t..n \subseteq 0..n
    OBVIOUS
  <2> QED
    BY <1>2, <2>1, FS_Subset DEF FiniteSubsetsOf
<1> HIDE DEF R
<1>4. PICK x \in F : \A y \in F : ~(<<y, x>> \in R)
  <2> HIDE DEF F
  <2> QED
    BY <1>1, <1>3, WFMin
<1>5. PICK t \in S : x = t..n
  BY <1>4
<1>6. ASSUME NEW u \in S, u > t PROVE FALSE
  <2>1. u..n \subseteq t..n /\ t \in t..n /\ t \notin u..n /\ t..n \subseteq 0..n
    BY <1>6
  <2>2. <<u..n, t..n>> \in R
    BY <2>1 DEF R, StrictSubsetOrdering
  <2> QED
    BY <1>4, <1>5, <2>2
<1> QED
  BY <1>6

\* What is eligible now was eligible before.
LEMMA EligibleBefore ==
  ASSUME NEW f, NEW row, NEW now \in Nat, NEW before \in Nat, before <= now,
         f.max_age \in Nat, row.stamp \in Nat, Eligible(f, row, now)
  PROVE  Eligible(f, row, before)
BY DEF Eligible

\* An inactive filter lets everything pass.
LEMMA InactiveFilter ==
  ASSUME NEW f, NEW row, NEW now, f.max_age \in Nat, ~filter_is_active(f)
  PROVE  Eligible(f, row, now)
BY DEF Eligible, filter_is_active

LEMMA CanonicalFilter ==
  ASSUME NEW f, NEW row, NEW now, f.max_age \in Nat
  PROVE  /\ Canonical(f).max_age \in Nat
         /\ Eligible(Canonical(f), row, now) => Eligible(f, row, now)
<1>1. NoFilter.max_age \in Nat
  BY DEF NoFilter
<1>2. CASE filter_is_active(f)
  BY <1>2 DEF Canonical
<1>3. CASE ~filter_is_active(f)
  BY <1>1, <1>3, InactiveFilter DEF Canonical
<1> QED
  BY <1>2, <1>3

-----------------------------------------------------------------------------
(* Steps of the only sync                                                  *)

LEMMA HonestTurn ==
  ASSUME OneSync, HonestInv, NEW s \in Process, NEW r, run' = [run EXCEPT ![s] = r],
         UNCHANGED <<setting, writer>>,
         TablesOK(setting, board', clock', stored', cursor'),
         HonestRun(r, setting, board', clock', stored', cursor')
  PROVE  HonestInv'
BY DEF OneSync, HonestInv

LEMMA HonestRest ==
  ASSUME OneSync, HonestInv, NEW s \in Process, Crash(s) \/ DeleteNodes(s)
  PROVE  HonestInv'
<1>1. /\ run' = [run EXCEPT ![s] = Idle]
      /\ UNCHANGED <<setting, board, clock, stored, cursor, writer>>
  BY DEF Crash, DeleteNodes, Set, tables
<1>2. HonestRun(Idle, setting, board, clock, stored, cursor)
  BY Resting DEF HonestRun
<1>3. TablesOK(setting, board, clock, stored, cursor)
  BY DEF HonestInv
<1> QED
  BY <1>1, <1>2, <1>3, HonestTurn

\* At the beginning of a call, its boards are still to be asked.
LEMMA HonestStart ==
  ASSUME OneSync, Settled(setting), HonestInv, NEW s \in Process, NEW q, Start(s, q)
  PROVE  HonestInv'
<1> DEFINE kept == {k \in Task : board[k].there /\ Eligible(q.filter, board[k], clock)}
           r == [Idle EXCEPT !.pc = "provider", !.q = q, !.todo = Selected(q), !.live = kept]
<1>1. /\ run' = [run EXCEPT ![s] = r] /\ q \in setting.requests
      /\ UNCHANGED <<setting, board, clock, stored, cursor, writer>>
  BY DEF Start, Set, tables
<1>2. TablesOK(setting, board, clock, stored, cursor)
  BY DEF HonestInv
<1> HIDE DEF kept
<1>3. /\ DOMAIN r = Fields /\ r.pc = "provider" /\ r.q = q /\ r.todo = Selected(q)
      /\ r.retry = FALSE /\ r.changed = {}
  BY DEF Idle, Fields
<1> HIDE DEF r
<1>4. Selected(q) = Boards(setting, q)
  BY DEF Selected, Boards
<1>5. ASSUME NEW f \in Ref, NEW k, Claimed(f, k, board, clock, cursor) PROVE f[1] \in Selected(q)
  <2>1. PICK u \in setting.requests : f[1] \in Boards(setting, u)
    BY <1>2, <1>5 DEF TablesOK, Claimed
  <2>2. u.type = q.type
    BY <1>1 DEF Settled, OneScope
  <2> QED
    BY <1>4, <2>1, <2>2 DEF Boards
<1>6. Syncing(r, setting, board, clock, stored, cursor)
  BY <1>1, <1>3, <1>4, <1>5 DEF Syncing, Collected
<1>7. HonestRun(r, setting, board, clock, stored, cursor)
  BY <1>3, <1>6 DEF HonestRun
<1> QED
  BY <1>1, <1>2, <1>7, HonestTurn

WithCursor(r, known, mark, old) ==
  [r EXCEPT !.known = known, !.mark = mark, !.top = mark, !.old = old]
Begun(r, t) ==
  [r EXCEPT !.pc = "list", !.type = t, !.now = clock,
     !.pages = {g \in Page : \E k \in g : TypeOf[k] = t}]

\* The listing begins with a cursor that vouches for what it passes over.
LEMMA HonestListing ==
  ASSUME SyncAssumption, OneSync, WholeListings, Settled(setting), HonestInv,
         NEW s \in Process, NEW t \in Type, ReadCursor(s, t), 
         NEW known \in BOOLEAN, NEW mark, NEW old, NEW b, b = Begun(run[s], t),
         run' = [run EXCEPT ![s] = WithCursor(b, known, mark, old)],
         known => /\ mark = cursor[<<t, run[s].q.project>>].mark
                  /\ old = cursor[<<t, run[s].q.project>>].filter,
         ~known => mark = 0
  PROVE  HonestInv'
<1> DEFINE p == run[s]
           pages == {g \in Page : \E k \in g : TypeOf[k] = t}
           ref == <<t, p.q.project>>
<1>1. /\ run' = [run EXCEPT ![s] = WithCursor(b, known, mark, old)]
      /\ known => mark = cursor[ref].mark /\ old = cursor[ref].filter
      /\ ~known => mark = 0
  OBVIOUS
<1>2. /\ UNCHANGED <<setting, board, clock, stored, cursor, writer>>
      /\ p.pc = "provider" /\ t \in p.todo
  BY DEF ReadCursor, At, tables
<1>3. /\ DOMAIN p = Fields /\ Syncing(p, setting, board, clock, stored, cursor)
      /\ TablesOK(setting, board, clock, stored, cursor)
  BY <1>2 DEF HonestInv, HonestRun
<1>4. ref \in Ref
  <2>1. p.q.project \in Project \cup {All}
    BY <1>3 DEF Settled, OneScope, Syncing
  <2> QED
    BY <2>1 DEF Ref
<1>5. /\ pages # {}
      /\ \A g \in pages : \A k \in Task : TypeOf[k] = t => k \in g
      /\ \A g, h \in pages : g = h
  <2>1. \A g \in pages : \A k \in Task : TypeOf[k] = t => k \in g
    BY DEF WholeListings
  <2>2. PICK k \in Task : TypeOf[k] = t
    BY DEF Type
  <2>3. \E g \in pages : k \in g
    BY <2>2 DEF SyncAssumption
  <2>4. \A g, h \in pages : k \in g \cap h
    BY <2>1, <2>2
  <2>5. \A g, h \in Page : g # h => g \cap h = {}
    BY DEF SyncAssumption
  <2> QED
    BY <2>1, <2>3, <2>4, <2>5
<1>0. b = [p EXCEPT !.pc = "list", !.type = t, !.now = clock, !.pages = pages]
  BY DEF Begun
<1> HIDE DEF p, pages
<1> DEFINE r == WithCursor(b, known, mark, old)
<1>6. /\ DOMAIN b = Fields /\ b.pc = "list" /\ b.type = t /\ b.now = clock
      /\ b.pages = pages /\ b.q = p.q /\ b.todo = p.todo /\ b.active = p.active
      /\ b.complete = p.complete /\ b.changed = p.changed /\ b.retry = p.retry
  BY <1>0, <1>3 DEF Fields
<1>7. /\ DOMAIN r = Fields /\ r.pc = "list" /\ r.type = t /\ r.now = clock
      /\ r.pages = pages /\ r.q = p.q /\ r.todo = p.todo /\ r.active = p.active
      /\ r.complete = p.complete /\ r.changed = p.changed /\ r.retry = p.retry
      /\ r.known = known /\ r.mark = mark /\ r.top = mark /\ r.old = old
  BY <1>6 DEF Fields, WithCursor
<1>8. run' = [run EXCEPT ![s] = r]
  BY <1>1 DEF r
<1> HIDE DEF r
<1>9. p.retry = FALSE /\ p.changed = {}
  BY <1>2, <1>3 DEF Syncing
<1>10. Asking(r, setting, clock, cursor)
  <2>1. clock \in Nat /\ cursor[ref].mark \in Nat /\ cursor[ref].mark <= clock
    BY <1>3, <1>4 DEF TablesOK
  <2> QED
    BY <1>1, <1>2, <1>7, <1>9, <2>1 DEF Asking
<1>11. Unlisted(r, board, stored)
  <2>1. ASSUME known, NEW k \in Task, OnBoard(r, k), r.mark # 0, board[k].there,
               board[k].stamp <= r.mark, Eligible(r.old, board[k], r.now)
        PROVE  stored[k] = board[k].text
    <3>1. /\ TypeOf[k] = t /\ p.q.project \in {All, ProjectOf[k]}
          /\ mark = cursor[ref].mark /\ old = cursor[ref].filter
      BY <1>1, <1>7, <2>1 DEF OnBoard
    <3>2. Claimed(ref, k, board, clock, cursor)
      BY <1>7, <2>1, <3>1 DEF Claimed
    <3> QED
      BY <1>3, <1>4, <3>2 DEF TablesOK
  <2> QED
    BY <1>1, <1>5, <1>7, <1>9, <2>1 DEF Unlisted
<1>12. Syncing(r, setting, board, clock, stored, cursor)
  <2>1. Collected(r, board, clock, cursor)
    BY <1>2, <1>3, <1>7 DEF Syncing, Collected, WillPurge
  <2> QED
    BY <1>3, <1>5, <1>7, <1>10, <1>11, <2>1 DEF Syncing, Collected
<1>13. HonestRun(r, setting, board, clock, stored, cursor)
  BY <1>7, <1>12 DEF HonestRun
<1> QED
  BY <1>2, <1>3, <1>8, <1>13, HonestTurn

LEMMA HonestReadCursor ==
  ASSUME SyncAssumption, OneSync, WholeListings, Settled(setting), HonestInv,
         NEW s \in Process, NEW t \in Type, ReadCursor(s, t)
  PROVE  HonestInv'
<1> DEFINE found == cursor[<<t, run[s].q.project>>]
           b == Begun(run[s], t)
<1>1. \/ run' = [run EXCEPT ![s] = WithCursor(b, TRUE, found.mark, found.filter)]
      \/ run' = [run EXCEPT ![s] = WithCursor(b, FALSE, 0, NoFilter)]
  BY DEF ReadCursor, Set, CursorRef, WithCursor, Begun
<1>2. CASE run' = [run EXCEPT ![s] = WithCursor(b, TRUE, found.mark, found.filter)]
  <2>1. PICK mark : mark = found.mark
    OBVIOUS
  <2>2. PICK old : old = found.filter
    OBVIOUS
  <2>3. run' = [run EXCEPT ![s] = WithCursor(b, TRUE, mark, old)]
    BY <1>2, <2>1, <2>2
  <2>4. TRUE \in BOOLEAN /\ b = Begun(run[s], t)
    OBVIOUS
  <2>5. TRUE => /\ mark = cursor[<<t, run[s].q.project>>].mark
                /\ old = cursor[<<t, run[s].q.project>>].filter
    BY <2>1, <2>2
  <2>6. ~TRUE => mark = 0
    OBVIOUS
  <2> HIDE DEF b, found
  <2> QED
    BY <2>3, <2>4, <2>5, <2>6, HonestListing
<1>3. CASE run' = [run EXCEPT ![s] = WithCursor(b, FALSE, 0, NoFilter)]
  BY <1>3, HonestListing
<1> QED
  BY <1>1, <1>2, <1>3

\* What the page changes of the run: `mine' are the tasks that are the run's
\* own, of those `full' are to be read in full, which `items' are.
Took(b, p, rows, failed, mine, full, items) ==
  /\ DOMAIN b = Fields /\ b.pc = p.pc /\ b.type = p.type /\ b.now = p.now
  /\ b.pages = p.pages /\ b.q = p.q /\ b.todo = p.todo /\ b.active = p.active
  /\ b.complete = p.complete /\ b.known = p.known /\ b.mark = p.mark
  /\ b.old = p.old /\ b.top \in Nat /\ p.top <= b.top /\ b.top <= clock
  /\ b.mine = p.mine \cup mine /\ b.changed = p.changed \cup items
  /\ b.retry = (p.retry \/ full \cap failed # {})
  /\ \A k \in rows : Eligible(p.q.filter, board[k], p.now) => k \in mine
  /\ full \subseteq mine /\ mine \subseteq rows
  /\ \A k \in mine \ full : ~FullNormalize(p, board[k])
  /\ \A i \in items : i.key \in full /\ i.text = board[i.key].text
  /\ \A k \in full \ failed : \E i \in items : i.key = k /\ i.text = board[k].text

LEMMA ListedFacts ==
  ASSUME NEW p, DOMAIN p = Fields, NEW rows \in SUBSET Task, NEW failed,
         p.top \in Nat, p.top <= clock, clock \in Nat,
         \A k \in Task : board[k].stamp \in Nat /\ board[k].stamp <= clock
  PROVE  \E mine, full, items : Took(Listed(p, rows, failed), p, rows, failed, mine, full, items)
<1> DEFINE mine == {k \in rows : Eligible(p.q.filter, board[k], p.now)}
           full == {k \in mine : FullNormalize(p, board[k])}
           items == {[key |-> k, text |-> board[k].text] : k \in full \ failed}
<1> DEFINE stamps == {board[k].stamp : k \in rows} \cup {p.top}
           top == CHOOSE t \in stamps : \A u \in stamps : t >= u
           b == Listed(p, rows, failed)
<1>1. \A t \in stamps : t \in Nat /\ t <= clock
  OBVIOUS
<1>2. stamps # {} /\ p.top \in stamps
  OBVIOUS
<1>3. \E t \in stamps : \A u \in stamps : t >= u
  <2> HIDE DEF stamps
  <2> QED
    BY <1>1, <1>2, Greatest
<1>4. top \in Nat /\ p.top <= top /\ top <= clock
  <2>1. top \in stamps /\ \A u \in stamps : top >= u
    <3> HIDE DEF stamps
    <3> QED
      BY <1>3
  <2> HIDE DEF top, stamps
  <2> QED
    BY <1>1, <1>2, <2>1
<1>5. b.top = top
  BY DEF Listed, Fields
<1>6. /\ DOMAIN b = Fields /\ b.pc = p.pc /\ b.type = p.type /\ b.now = p.now
      /\ b.pages = p.pages /\ b.q = p.q /\ b.todo = p.todo /\ b.active = p.active
      /\ b.complete = p.complete /\ b.known = p.known /\ b.mark = p.mark
      /\ b.old = p.old
      /\ b.mine = p.mine \cup mine /\ b.changed = p.changed \cup items
      /\ b.retry = (p.retry \/ full \cap failed # {})
  BY DEF Listed, Fields
<1>7. /\ \A k \in rows : Eligible(p.q.filter, board[k], p.now) => k \in mine
      /\ mine \subseteq rows
  OBVIOUS
<1> HIDE DEF b, mine
<1>8. full \subseteq mine /\ \A k \in mine \ full : ~FullNormalize(p, board[k])
  OBVIOUS
<1> HIDE DEF full
<1>9. \A k \in full \ failed : [key |-> k, text |-> board[k].text] \in items
  OBVIOUS
<1>10. /\ \A i \in items : i.key \in full /\ i.text = board[i.key].text
       /\ \A k \in full \ failed : \E i \in items : i.key = k /\ i.text = board[k].text
  <2>1. ASSUME NEW i \in items PROVE i.key \in full /\ i.text = board[i.key].text
    <3>1. PICK k \in full : i = [key |-> k, text |-> board[k].text]
      OBVIOUS
    <3> QED
      BY <3>1
  <2>2. ASSUME NEW k \in full \ failed PROVE \E i \in items : i.key = k /\ i.text = board[k].text
    <3> DEFINE i == [key |-> k, text |-> board[k].text]
    <3>1. i \in items /\ i.key = k /\ i.text = board[k].text
      BY <1>9
    <3> HIDE DEF i, items
    <3> QED
      BY <3>1
  <2> QED
    BY <2>1, <2>2
<1> HIDE DEF items
<1>11. Took(b, p, rows, failed, mine, full, items)
  BY <1>4, <1>5, <1>6, <1>7, <1>8, <1>10 DEF Took
<1> QED
  BY <1>11 DEF b

\* What the run makes of its page: every eligible task is the run's own, and
\* what the cursor does not vouch for is on its way or asks for a retry.
LEMMA HonestListPage ==
  ASSUME SyncAssumption, OneSync, Settled(setting), HonestInv,
         NEW s \in Process, NEW page \in Page, ListPage(s, page)
  PROVE  HonestInv'
<1> DEFINE p == run[s]
<1>1. PICK rows, failed :
        /\ rows \subseteq RowsOf(p, page) /\ (~p.q.limit => rows = RowsOf(p, page))
        /\ failed \in Failing("normalize", rows)
        /\ run' = [run EXCEPT ![s] = [Listed(p, rows, failed) EXCEPT !.pages = @ \ {page}]]
  <2>1. PICK rows \in (IF p.q.limit THEN SUBSET RowsOf(p, page) ELSE {RowsOf(p, page)}) :
          \E failed \in Failing("normalize", rows) :
            run' = [run EXCEPT ![s] = [Listed(p, rows, failed) EXCEPT !.pages = @ \ {page}]]
    BY DEF ListPage, Set
  <2> QED
    BY <2>1
<1>2. /\ UNCHANGED <<setting, board, clock, stored, cursor, writer>>
      /\ p.pc = "list" /\ page \in p.pages
  BY DEF ListPage, At, tables
<1>3. /\ DOMAIN p = Fields /\ Syncing(p, setting, board, clock, stored, cursor)
      /\ TablesOK(setting, board, clock, stored, cursor)
  BY <1>2 DEF HonestInv, HonestRun
<1>4. Asking(p, setting, clock, cursor) /\ Unlisted(p, board, stored)
  BY <1>2, <1>3 DEF Syncing
<1> DEFINE b == Listed(p, rows, failed)
<1>5. \A k \in RowsOf(p, page) : k \in page /\ board[k].there /\ p.q.project \in {All, ProjectOf[k]}
  BY DEF RowsOf
<1>6. rows \in SUBSET Task
  <2>1. page \subseteq Task
    BY DEF SyncAssumption
  <2> QED
    BY <1>1, <1>5, <2>1
<1>7. PICK mine, full, items : Took(b, p, rows, failed, mine, full, items)
  BY <1>3, <1>4, <1>6, ListedFacts DEF TablesOK, Asking
<1> HIDE DEF b
<1> DEFINE r == [b EXCEPT !.pages = @ \ {page}]
<1>9. /\ DOMAIN r = Fields /\ r.pc = "list" /\ r.type = p.type /\ r.now = p.now
      /\ r.pages = p.pages \ {page} /\ r.q = p.q /\ r.todo = p.todo /\ r.active = p.active
      /\ r.complete = p.complete /\ r.known = p.known /\ r.mark = p.mark
      /\ r.old = p.old /\ r.top \in Nat /\ p.top <= r.top /\ r.top <= clock
      /\ r.mine = p.mine \cup mine /\ r.changed = items
      /\ r.retry = (p.retry \/ full \cap failed # {})
  <2>1. p.changed = {}
    BY <1>4 DEF Unlisted
  <2> QED
    BY <1>2, <1>7, <2>1 DEF Took, Fields
<1>10. run' = [run EXCEPT ![s] = r]
  BY <1>1 DEF b
<1> HIDE DEF r, p
<1>11. r.pages = {}
  BY <1>2, <1>4, <1>9 DEF Unlisted
<1>12. Asking(r, setting, clock, cursor)
  <2>1. Smooth(setting) => ~r.retry
    <3>1. Smooth(setting) => failed = {}
      BY <1>1 DEF Failing, Goes, Smooth
    <3> QED
      BY <1>4, <1>9, <3>1 DEF Asking
  <2> QED
    BY <1>4, <1>9, <2>1 DEF Asking
<1>13. Known(r, board, stored, cursor)
  <2>1. ASSUME NEW i \in Pending(r) PROVE i.key \in Task /\ i.text = board[i.key].text
    BY <1>6, <1>7, <1>9, <2>1 DEF Pending, Took
  <2>2. ASSUME ~r.q.limit, NEW k \in Task, OnBoard(r, k), Unchanged(r, k, board, cursor),
               Eligible(r.q.filter, board[k], r.now)
        PROVE  /\ k \in r.mine
               /\ \/ r.retry \/ stored[k] = board[k].text
                  \/ \E i \in Pending(r) : i.key = k /\ i.text = board[k].text
    <3>1. k \in RowsOf(p, page)
      BY <1>2, <1>4, <1>9, <2>2 DEF Unlisted, RowsOf, OnBoard, Unchanged
    <3>2. k \in mine
      BY <1>1, <1>7, <1>9, <2>2, <3>1 DEF Took
    <3>3. CASE k \in full
      BY <1>7, <1>9, <3>2, <3>3 DEF Pending, Took
    <3>4. CASE k \notin full
      <4>1. /\ p.known /\ Eligible(p.old, board[k], p.now) /\ ~(board[k].stamp > p.mark)
        BY <1>7, <3>2, <3>4 DEF FullNormalize, Took
      <4>2. board[k].stamp \in Nat /\ board[k].stamp # 0 /\ p.mark \in Nat /\ board[k].there
        BY <1>3, <1>4, <2>2 DEF TablesOK, Asking, Unchanged
      <4>3. board[k].stamp <= p.mark /\ p.mark # 0
        BY <4>1, <4>2
      <4>4. OnBoard(p, k)
        BY <1>9, <2>2 DEF OnBoard
      <4>5. stored[k] = board[k].text
        BY <1>4, <4>1, <4>2, <4>3, <4>4 DEF Unlisted
      <4> QED
        BY <1>9, <3>2, <4>5
    <3> QED
      BY <3>3, <3>4
  <2> QED
    BY <1>9, <2>1, <2>2 DEF Known
<1>14. Syncing(r, setting, board, clock, stored, cursor)
  <2>1. Collected(r, board, clock, cursor)
    BY <1>2, <1>3, <1>9 DEF Syncing, Collected, WillPurge
  <2> QED
    BY <1>3, <1>9, <1>11, <1>12, <1>13, <2>1 DEF Syncing, Collected
<1>15. HonestRun(r, setting, board, clock, stored, cursor)
  BY <1>9, <1>14 DEF HonestRun
<1> QED
  BY <1>2, <1>3, <1>10, <1>15, HonestTurn

\* Between two boards nothing is known but the active keys.
LEMMA HonestOnward ==
  ASSUME NEW r, NEW st, NEW cur, DOMAIN r = Fields, r.q \in setting.requests,
         r.todo \subseteq Boards(setting, r.q),
         WillPurge(r) => \A f \in Ref, k \in Task :
           Claimed(f, k, board, clock, cur) /\ f[1] \notin r.todo \ {r.type} => k \in r.active
  PROVE  HonestRun(Onward(r), setting, board, clock, st, cur)
<1> DEFINE b == Between(r)
           e == [b EXCEPT !.pc = "purge"]
<1>1. /\ DOMAIN b = Fields /\ b.pc = "provider" /\ b.q = r.q /\ b.complete = r.complete
      /\ b.active = r.active /\ b.todo = r.todo \ {r.type} /\ b.retry = FALSE /\ b.changed = {}
  BY DEF Between, Idle, Fields
<1>2. Onward(r) = IF b.todo # {} THEN b
                  ELSE IF r.q.purge /\ ~r.q.limit /\ r.complete THEN e ELSE Idle
  BY DEF Onward
<1> HIDE DEF b
<1>3. /\ DOMAIN e = Fields /\ e.pc = "purge" /\ e.q = r.q /\ e.complete = r.complete
      /\ e.active = r.active /\ e.todo = b.todo
  BY <1>1 DEF Fields
<1> HIDE DEF e
<1>4. HonestRun(b, setting, board, clock, st, cur)
  BY <1>1 DEF HonestRun, Syncing, WillPurge, Collected
<1>5. CASE b.todo = {} /\ r.q.purge /\ ~r.q.limit /\ r.complete
  <2>1. HonestRun(e, setting, board, clock, st, cur)
    BY <1>1, <1>3, <1>5 DEF HonestRun, Syncing, WillPurge, Collected
  <2> QED
    BY <1>2, <1>5, <2>1
<1>6. HonestRun(Idle, setting, board, clock, st, cur)
  BY Resting DEF HonestRun
<1> QED
  BY <1>2, <1>4, <1>5, <1>6

LEMMA HonestListingFails ==
  ASSUME OneSync, HonestInv, NEW s \in Process, ListingFails(s)
  PROVE  HonestInv'
<1> DEFINE p == run[s]
           r == [p EXCEPT !.complete = FALSE]
<1>1. /\ UNCHANGED <<setting, board, clock, stored, cursor, writer>> /\ p.pc = "list"
      /\ run' = [run EXCEPT ![s] = Onward(r)]
  BY DEF ListingFails, At, Set, tables
<1>2. /\ DOMAIN p = Fields /\ Syncing(p, setting, board, clock, stored, cursor)
      /\ TablesOK(setting, board, clock, stored, cursor)
  BY <1>1 DEF HonestInv, HonestRun
<1> HIDE DEF p
<1>3. DOMAIN r = Fields /\ r.complete = FALSE /\ r.q = p.q /\ r.todo = p.todo
  BY <1>2 DEF Fields
<1> HIDE DEF r
<1>4. HonestRun(Onward(r), setting, board, clock, stored, cursor)
  BY <1>2, <1>3, HonestOnward DEF Syncing, WillPurge, Collected
<1> QED
  BY <1>1, <1>2, <1>4, HonestTurn

\* From the last page to the cursor: what has to be shown of such a step.
Writes(r, p, trouble) ==
  /\ DOMAIN r = Fields /\ r.pc \in {"store", "cursor"}
  /\ r.type = p.type /\ r.q = p.q /\ r.todo = p.todo /\ r.active = p.active
  /\ r.complete = p.complete /\ r.mine = p.mine /\ r.now = p.now
  /\ r.known = p.known /\ r.mark = p.mark /\ r.old = p.old /\ r.top = p.top
  /\ p.retry => r.retry
  /\ r.retry => p.retry \/ trouble \cap {"embed", "store"} # {}
  /\ r.pc = "cursor" => r.embed = {}

\* Every text that was on its way still is, or it is in the store, or there
\* will be a retry.
Carries(r, p, before, after) ==
  /\ \A i \in r.embed : i \in Pending(p)
  /\ \A i \in Pending(p) : r.retry \/ i \in r.embed \/ after[i.key] = i.text
  /\ \A k \in Task : after[k] = before[k] \/ \E i \in Pending(p) : i.key = k /\ after[k] = i.text

LEMMA HonestWrites ==
  ASSUME OneSync, HonestInv, NEW s \in Process, NEW r, run' = [run EXCEPT ![s] = r],
         UNCHANGED <<setting, board, clock, cursor, writer>>, DOMAIN stored' = Task,
         Writes(r, run[s], setting.trouble), Carries(r, run[s], stored, stored'),
         run[s].pc = "store" \/ (run[s].pc = "list" /\ run[s].pages = {})
  PROVE  HonestInv'
<1> DEFINE p == run[s]
<1>1. /\ DOMAIN p = Fields /\ Syncing(p, setting, board, clock, stored, cursor)
      /\ TablesOK(setting, board, clock, stored, cursor)
  BY DEF HonestInv, HonestRun
<1>2. /\ Writes(r, p, setting.trouble) /\ Carries(r, p, stored, stored')
      /\ Asking(p, setting, clock, cursor) /\ Known(p, board, stored, cursor)
  BY <1>1 DEF Syncing
<1> HIDE DEF p
<1>3. ASSUME NEW k \in Task, Unchanged(p, k, board, cursor), stored[k] = board[k].text
      PROVE  stored'[k] = board[k].text
  BY <1>2, <1>3 DEF Carries, Known
<1>4. TablesOK(setting, board, clock, stored', cursor)
  <2>1. ASSUME NEW f \in Ref, NEW k \in Task, Claimed(f, k, board, clock, cursor)
        PROVE  stored'[k] = board[k].text
    <3>1. stored[k] = board[k].text /\ Unchanged(p, k, board, cursor)
      BY <1>1, <2>1 DEF TablesOK, Claimed, Unchanged
    <3> QED
      BY <1>3, <3>1
  <2> QED
    BY <1>1, <2>1 DEF TablesOK
<1>5. \A k \in Task : Unchanged(r, k, board, cursor) <=> Unchanged(p, k, board, cursor)
  BY <1>2 DEF Unchanged, Writes
<1>6. Pending(r) = r.embed
  BY <1>2 DEF Pending, Writes
<1>7. Known(r, board, stored', cursor)
  <2>1. ASSUME NEW i \in r.embed
        PROVE  i.key \in Task /\ (Unchanged(r, i.key, board, cursor) => i.text = board[i.key].text)
    BY <1>2, <1>5 DEF Carries, Known
  <2>2. ASSUME ~r.q.limit, NEW k \in Task, OnBoard(r, k), Unchanged(r, k, board, cursor),
               Eligible(r.q.filter, board[k], r.now)
        PROVE  /\ k \in r.mine
               /\ \/ r.retry \/ stored'[k] = board[k].text
                  \/ \E i \in r.embed : i.key = k /\ i.text = board[k].text
    <3>1. OnBoard(p, k) /\ Eligible(p.q.filter, board[k], p.now) /\ ~p.q.limit
      BY <1>2, <2>2 DEF Writes, OnBoard
    <3>2. /\ k \in p.mine
          /\ \/ p.retry \/ stored[k] = board[k].text
             \/ \E i \in Pending(p) : i.key = k /\ i.text = board[k].text
      BY <1>2, <1>5, <2>2, <3>1 DEF Known
    <3>3. CASE stored[k] = board[k].text
      BY <1>2, <1>3, <1>5, <2>2, <3>2, <3>3 DEF Writes
    <3>4. CASE p.retry
      BY <1>2, <3>2, <3>4 DEF Writes
    <3>5. CASE \E i \in Pending(p) : i.key = k /\ i.text = board[k].text
      BY <1>2, <3>2, <3>5 DEF Writes, Carries
    <3> QED
      BY <3>2, <3>3, <3>4, <3>5
  <2> QED
    BY <1>2, <1>6, <2>1, <2>2 DEF Known, Writes
<1>8. Asking(r, setting, clock, cursor)
  <2>1. Smooth(setting) => ~r.retry
    BY <1>2 DEF Smooth, Asking, Writes
  <2> QED
    BY <1>2, <2>1 DEF Asking, Writes
<1>9. Syncing(r, setting, board, clock, stored', cursor)
  <2>1. p.pc \in {"list", "store"}
    BY DEF p
  <2>2. Collected(r, board, clock, cursor)
    BY <1>1, <1>2, <2>1 DEF Syncing, Collected, WillPurge, Writes
  <2> QED
    BY <1>1, <1>2, <1>7, <1>8, <2>2 DEF Syncing, Collected, Writes
<1>10. HonestRun(r, setting, board, clock, stored', cursor)
  BY <1>2, <1>9 DEF HonestRun, Writes
<1> QED
  BY <1>4, <1>10, HonestTurn

\* A text that is not sent is in the store, or its statement failed.
LEMMA HonestCompareHashes ==
  ASSUME OneSync, HonestInv, NEW s \in Process, CompareHashes(s)
  PROVE  HonestInv'
<1> DEFINE p == run[s]
           differ == {i \in p.changed : stored[i.key] # i.text}
           with(embed, retry) == [p EXCEPT !.pc = "store", !.embed = embed, !.retry = retry]
<1>1. PICK failed, retry :
        /\ run' = [run EXCEPT ![s] = with(differ \ failed, p.retry \/ retry)]
        /\ retry \in BOOLEAN
        /\ failed # {} => retry
        /\ retry => setting.trouble \cap {"embed", "store"} # {}
  <2>1. CASE \E failed \in Failing("store", p.changed) :
               Set(s, [p EXCEPT !.pc = "store", !.embed = differ \ failed,
                         !.retry = @ \/ failed # {}])
    <3>1. PICK failed \in Failing("store", p.changed) :
            run' = [run EXCEPT ![s] = [p EXCEPT !.pc = "store", !.embed = differ \ failed,
                                         !.retry = @ \/ failed # {}]]
      BY <2>1 DEF Set
    <3>2. run' = [run EXCEPT ![s] = with(differ \ failed, p.retry \/ failed # {})]
      BY <3>1
    <3>3. failed # {} => "store" \in setting.trouble
      BY DEF Failing, Goes
    <3> HIDE DEF with, differ, p
    <3> QED
      BY <3>2, <3>3
  <2>2. CASE /\ Wrong("embed")
             /\ Set(s, [p EXCEPT !.pc = "store", !.embed = {}, !.retry = TRUE])
    <3>1. run' = [run EXCEPT ![s] = with(differ \ differ, p.retry \/ TRUE)]
      BY <2>2 DEF Set
    <3>2. "embed" \in setting.trouble
      BY <2>2 DEF Wrong, Goes
    <3> HIDE DEF with, differ, p
    <3> QED
      BY <3>1, <3>2
  <2> QED
    BY <2>1, <2>2 DEF CompareHashes
<1>2. /\ UNCHANGED <<setting, board, clock, stored, cursor, writer>>
      /\ p.pc = "list" /\ p.pages = {}
  BY DEF CompareHashes, At, tables
<1>3. /\ DOMAIN p = Fields /\ DOMAIN stored = Task
      /\ \A i \in differ : i \in p.changed
      /\ \A i \in p.changed : i \in differ \/ stored[i.key] = i.text
  BY <1>2 DEF HonestInv, HonestRun, TablesOK
<1> DEFINE embed == differ \ failed
           again == p.retry \/ retry
           r == with(embed, again)
<1>4. /\ embed \subseteq p.changed
      /\ \A i \in p.changed : again \/ i \in embed \/ stored[i.key] = i.text
  BY <1>1, <1>3
<1>5. (p.retry => again) /\ (again => p.retry \/ setting.trouble \cap {"embed", "store"} # {})
  BY <1>1
<1>6. run' = [run EXCEPT ![s] = r]
  BY <1>1
<1> HIDE DEF embed, again
<1>7. /\ Writes(r, p, setting.trouble) /\ r.embed = embed /\ r.retry = again
  BY <1>3, <1>5 DEF Writes, Fields
<1> HIDE DEF r
<1>8. Carries(r, p, stored, stored)
  BY <1>2, <1>4, <1>7 DEF Carries, Pending
<1> QED
  BY <1>2, <1>3, <1>6, <1>7, <1>8, HonestWrites

LEMMA HonestUpsert ==
  ASSUME OneSync, HonestInv, NEW s \in Process, NEW i \in run[s].embed, Upsert(s, i)
  PROVE  HonestInv'
<1> DEFINE p == run[s]
           b == [p EXCEPT !.embed = @ \ {i}]
           e == [b EXCEPT !.embedded = @ \cup {i.key}]
           f == [b EXCEPT !.retry = TRUE]
<1>1. /\ UNCHANGED <<setting, board, clock, cursor, writer>> /\ p.pc = "store" /\ i \in p.embed
      /\ \/ /\ stored' = [stored EXCEPT ![i.key] = i.text]
            /\ run' = [run EXCEPT ![s] = e]
         \/ /\ "store" \in setting.trouble /\ stored' = stored
            /\ run' = [run EXCEPT ![s] = f]
  BY DEF Upsert, At, Set, Wrong, Goes
<1>2. DOMAIN p = Fields /\ DOMAIN stored = Task
  BY <1>1 DEF HonestInv, HonestRun, TablesOK
<1>3. i.key \in Task
  BY <1>1 DEF HonestInv, HonestRun, Syncing, Known, Pending
<1> HIDE DEF p
<1>4. /\ DOMAIN b = Fields /\ b.pc = "store" /\ b.type = p.type /\ b.q = p.q /\ b.todo = p.todo
      /\ b.active = p.active /\ b.complete = p.complete /\ b.mine = p.mine /\ b.now = p.now
      /\ b.known = p.known /\ b.mark = p.mark /\ b.old = p.old /\ b.top = p.top
      /\ b.retry = p.retry /\ b.embed = p.embed \ {i}
  BY <1>1, <1>2 DEF Fields
<1> HIDE DEF b
<1>5. CASE stored' = [stored EXCEPT ![i.key] = i.text] /\ run' = [run EXCEPT ![s] = e]
  <2>1. Writes(e, p, setting.trouble) /\ e.embed = p.embed \ {i}
    BY <1>4 DEF Writes, Fields
  <2> HIDE DEF e
  <2>2. Carries(e, p, stored, stored')
    BY <1>1, <1>2, <1>3, <1>5, <2>1 DEF Carries, Pending
  <2>3. Writes(e, run[s], setting.trouble) /\ Carries(e, run[s], stored, stored')
    BY <2>1, <2>2 DEF p
  <2> QED
    BY <1>1, <1>2, <1>5, <2>3, HonestWrites DEF p
<1>6. CASE "store" \in setting.trouble /\ stored' = stored /\ run' = [run EXCEPT ![s] = f]
  <2>1. Writes(f, p, setting.trouble) /\ f.embed = p.embed \ {i} /\ f.retry = TRUE
    BY <1>4, <1>6 DEF Writes, Fields
  <2> HIDE DEF f
  <2>2. Carries(f, p, stored, stored')
    BY <1>1, <1>6, <2>1 DEF Carries, Pending
  <2>3. Writes(f, run[s], setting.trouble) /\ Carries(f, run[s], stored, stored')
    BY <2>1, <2>2 DEF p
  <2> QED
    BY <1>1, <1>2, <1>6, <2>3, HonestWrites DEF p
<1> QED
  BY <1>1, <1>5, <1>6

LEMMA HonestWriteGraph ==
  ASSUME OneSync, HonestInv, NEW s \in Process, WriteGraph(s)
  PROVE  HonestInv'
<1> DEFINE p == run[s]
           r == [p EXCEPT !.pc = "cursor"]
<1>1. /\ UNCHANGED <<setting, board, clock, stored, cursor, writer>> /\ p.pc = "store"
      /\ p.embed = {} /\ run' = [run EXCEPT ![s] = r]
  BY DEF WriteGraph, At, Set
<1>2. DOMAIN p = Fields /\ DOMAIN stored = Task
  BY <1>1 DEF HonestInv, HonestRun, TablesOK
<1>3. Writes(r, p, setting.trouble) /\ r.embed = p.embed
  BY <1>1, <1>2 DEF Writes, Fields
<1> HIDE DEF r
<1>4. Carries(r, p, stored, stored')
  BY <1>1, <1>3 DEF Carries, Pending
<1> QED
  BY <1>1, <1>2, <1>3, <1>4, HonestWrites

LEMMA FilterIsFilter ==
  ASSUME SyncAssumption, HonestInv PROVE \A q \in setting.requests : q.filter.max_age \in Nat
BY DEF SyncAssumption, HonestInv, SettingOK, Filter

\* The run listed what the cursor vouches for.
Owned(r, ref, rows, now, cur) == \A k \in Task : Claimed(ref, k, rows, now, cur) => k \in r.mine

\* The cursor moves when everything that the run listed is in the store.
LEMMA MovedCursor ==
  ASSUME TablesOK(setting, board, clock, stored, cursor),
         NEW r, NEW ref, NEW cur, Syncing(r, setting, board, clock, stored, cursor),
         r.pc = "cursor", CursorMoves(r), ref = <<r.type, r.q.project>>, ref \in Ref,
         r.q.filter.max_age \in Nat, cur = [cursor EXCEPT ![ref] = NewCursor(r)]
  PROVE  /\ TablesOK(setting, board, clock, stored, cur)
         /\ Owned(r, ref, board, clock, cur)
<1>1. Asking(r, setting, clock, cursor) /\ Known(r, board, stored, cursor)
  BY DEF Syncing
<1>2. /\ ~r.q.limit /\ ~r.retry /\ Pending(r) = {} /\ DOMAIN cursor = Ref
      /\ clock \in Nat /\ r.top \in Nat /\ r.top <= clock
  BY <1>1 DEF CursorMoves, Known, Pending, TablesOK, Asking
<1>3. /\ DOMAIN cur = Ref /\ cur[ref].mark = r.top /\ cur[ref].filter = Canonical(r.q.filter)
      /\ \A f \in Ref : f # ref => cur[f] = cursor[f]
  BY <1>2 DEF NewCursor, Canonical
<1>4. ASSUME NEW k \in Task, Claimed(ref, k, board, clock, cur)
      PROVE  k \in r.mine /\ stored[k] = board[k].text
  <2>1. OnBoard(r, k) /\ Unchanged(r, k, board, cursor)
    BY <1>3, <1>4 DEF Claimed, OnBoard, Unchanged
  <2>2. Eligible(r.q.filter, board[k], clock)
    BY <1>3, <1>4, CanonicalFilter DEF Claimed
  <2>3. Eligible(r.q.filter, board[k], r.now)
    BY <1>1, <1>2, <2>2, EligibleBefore DEF TablesOK, Asking
  <2> QED
    BY <1>1, <1>2, <2>1, <2>3 DEF Known
<1>5. ASSUME NEW f \in Ref, NEW k \in Task, Claimed(f, k, board, clock, cur)
      PROVE  stored[k] = board[k].text
  <2>1. CASE f = ref
    BY <1>4, <1>5, <2>1
  <2>2. CASE f # ref
    <3>1. Claimed(f, k, board, clock, cursor)
      BY <1>3, <1>5, <2>2 DEF Claimed
    <3> QED
      BY <3>1 DEF TablesOK
  <2> QED
    BY <2>1, <2>2
<1>6. ASSUME NEW f \in Ref
      PROVE  /\ cur[f].mark \in Nat /\ cur[f].mark <= clock /\ cur[f].filter.max_age \in Nat
             /\ cur[f].mark # 0 =>
                  /\ \E q \in setting.requests : f[2] = q.project /\ f[1] \in Boards(setting, q)
                  /\ Steady(setting) => \A q \in setting.requests :
                                          cur[f].filter = Canonical(q.filter)
  <2>1. CASE f = ref
    <3>1. r.q \in setting.requests /\ r.type \in Boards(setting, r.q)
      BY <1>1 DEF Syncing, Asking
    <3>2. Steady(setting) => \A q \in setting.requests : q.filter = r.q.filter
      BY <3>1 DEF Steady
    <3> QED
      BY <1>2, <1>3, <2>1, <3>1, <3>2, CanonicalFilter
  <2>2. CASE f # ref
    BY <1>3, <2>2 DEF TablesOK
  <2> QED
    BY <2>1, <2>2
<1> QED
  BY <1>3, <1>4, <1>5, <1>6 DEF TablesOK, Owned

\* When it does not, the run nevertheless listed what the cursor vouches for.
LEMMA KeptCursor ==
  ASSUME Settled(setting), TablesOK(setting, board, clock, stored, cursor),
         NEW r, NEW ref, Syncing(r, setting, board, clock, stored, cursor),
         r.pc = "cursor", ref = <<r.type, r.q.project>>, ref \in Ref, r.q.filter.max_age \in Nat,
         ~CursorMoves(r) \/ "cursor_write" \in setting.trouble, ~r.q.limit,
         NEW k \in Task, Claimed(ref, k, board, clock, cursor)
  PROVE  k \in r.mine
<1>1. Asking(r, setting, clock, cursor) /\ Known(r, board, stored, cursor)
  BY DEF Syncing
<1>2. OnBoard(r, k) /\ Unchanged(r, k, board, cursor)
  BY DEF Claimed, OnBoard, Unchanged
<1>3. Eligible(r.q.filter, board[k], clock)
  <2>1. CASE Steady(setting)
    <3>1. cursor[ref].filter = Canonical(r.q.filter)
      BY <2>1 DEF TablesOK, Claimed, Syncing
    <3> QED
      BY <3>1, CanonicalFilter DEF Claimed
  <2>2. CASE Smooth(setting)
    <3>1. ~CursorMoves(r) /\ ~r.retry
      BY <1>1, <2>2 DEF Smooth, Asking
    <3>2. r.known /\ ~FilterChanged(r)
      BY <3>1 DEF CursorMoves
    <3>3. cursor[ref].filter = r.old
      BY <1>1, <3>2 DEF Asking
    <3>4. CASE filter_is_active(r.q.filter)
      <4>1. r.old = r.q.filter
        BY <3>2, <3>4 DEF FilterChanged
      <4> QED
        BY <3>3, <4>1 DEF Claimed
    <3>5. CASE ~filter_is_active(r.q.filter)
      BY <3>5, InactiveFilter
    <3> QED
      BY <3>4, <3>5
  <2> QED
    BY <2>1, <2>2 DEF Settled
<1>4. Eligible(r.q.filter, board[k], r.now)
  BY <1>1, <1>3, EligibleBefore DEF TablesOK, Asking
<1> QED
  BY <1>1, <1>2, <1>4 DEF Known

LEMMA HonestWriteCursor ==
  ASSUME SyncAssumption, OneSync, Settled(setting), HonestInv, NEW s \in Process, WriteCursor(s)
  PROVE  HonestInv'
<1> DEFINE p == run[s]
           ref == <<p.type, p.q.project>>
           r == [p EXCEPT !.active = @ \cup p.mine]
<1>1. /\ UNCHANGED <<setting, board, clock, stored, writer>> /\ p.pc = "cursor"
      /\ run' = [run EXCEPT ![s] = Onward(r)]
      /\ \/ CursorMoves(p) /\ cursor' = [cursor EXCEPT ![ref] = NewCursor(p)]
         \/ /\ ~CursorMoves(p) \/ "cursor_write" \in setting.trouble
            /\ cursor' = cursor
  BY DEF WriteCursor, At, Set, tables, CursorRef, Wrong, Goes
<1>2. /\ DOMAIN p = Fields /\ Syncing(p, setting, board, clock, stored, cursor)
      /\ TablesOK(setting, board, clock, stored, cursor)
  BY <1>1 DEF HonestInv, HonestRun
<1>3. /\ p.q.filter.max_age \in Nat /\ p.q \in setting.requests
      /\ p.type \in Type /\ p.q.project \in Project \cup {All}
  BY <1>1, <1>2, FilterIsFilter DEF Syncing, Asking, Settled, OneScope
<1>4. ref \in Ref
  BY <1>3 DEF Ref
<1> HIDE DEF p
<1>5. /\ DOMAIN r = Fields /\ r.q = p.q /\ r.todo = p.todo /\ r.type = p.type
      /\ r.complete = p.complete /\ r.active = p.active \cup p.mine
  BY <1>2 DEF Fields
<1> HIDE DEF r
<1>6. /\ TablesOK(setting, board, clock, stored, cursor')
      /\ WillPurge(p) => \A k \in Task : Claimed(ref, k, board, clock, cursor') => k \in p.mine
      /\ \A f \in Ref : f # ref => cursor'[f] = cursor[f]
  <2>1. CASE CursorMoves(p) /\ cursor' = [cursor EXCEPT ![ref] = NewCursor(p)]
    <3>1. \A f \in Ref : f # ref => cursor'[f] = cursor[f]
      BY <1>2, <2>1 DEF TablesOK
    <3>2. /\ TablesOK(setting, board, clock, stored, cursor')
          /\ \A k \in Task : Claimed(ref, k, board, clock, cursor') => k \in p.mine
      <4>1. ref = <<p.type, p.q.project>>
        OBVIOUS
      <4>2. TablesOK(setting, board, clock, stored, cursor') /\ Owned(p, ref, board, clock, cursor')
        <5> HIDE DEF ref
        <5> QED
          BY <1>1, <1>2, <1>3, <1>4, <2>1, <4>1, MovedCursor
      <4> QED
        BY <4>2 DEF Owned
    <3> QED
      BY <3>1, <3>2
  <2>2. CASE (~CursorMoves(p) \/ "cursor_write" \in setting.trouble) /\ cursor' = cursor
    BY <1>1, <1>2, <1>3, <1>4, <2>2, KeptCursor DEF WillPurge
  <2> QED
    BY <1>1, <2>1, <2>2
<1>7. ASSUME WillPurge(p), NEW f \in Ref, NEW k \in Task, Claimed(f, k, board, clock, cursor'),
             f[1] \notin p.todo \ {p.type}
      PROVE  k \in p.active \cup p.mine
  <2>1. CASE f = ref
    BY <1>6, <1>7, <2>1
  <2>2. CASE f # ref
    <3>1. Claimed(f, k, board, clock, cursor)
      BY <1>6, <1>7, <2>2 DEF Claimed
    <3>2. PICK q \in setting.requests : f[2] = q.project
      BY <1>2, <3>1 DEF TablesOK, Claimed
    <3>3. f[2] = p.q.project
      BY <1>3, <3>2 DEF Settled, OneScope
    <3>4. f = <<f[1], f[2]>>
      BY DEF Ref
    <3>5. f[1] # p.type
      BY <2>2, <3>3, <3>4
    <3> QED
      BY <1>1, <1>2, <1>7, <3>1, <3>5 DEF Syncing, Collected
  <2> QED
    BY <2>1, <2>2
<1>8. HonestRun(Onward(r), setting, board, clock, stored, cursor')
  <2>1. WillPurge(r) = WillPurge(p)
    BY <1>5 DEF WillPurge
  <2>2. p.todo \subseteq Boards(setting, p.q)
    BY <1>2 DEF Syncing
  <2> QED
    BY <1>3, <1>5, <1>7, <2>1, <2>2, HonestOnward
<1> QED
  BY <1>1, <1>6, <1>8, HonestTurn

\* The purge: what a cursor vouches for is active, so it is no orphan.
LEMMA HonestListKeys ==
  ASSUME OneSync, HonestInv, NEW s \in Process, ListKeys(s)
  PROVE  HonestInv'
<1> DEFINE p == run[s]
           listed(lost) == ((IF "rows" \in lost THEN {} ELSE RowKeys(p))
                            \cup (IF "nodes" \in lost THEN {} ELSE NodeKeys(p))) \ p.active
<1>1. PICK lost : run' = [run EXCEPT ![s] =
                     [p EXCEPT !.pc = "protect", !.active = {}, !.orphans = listed(lost)]]
  <2>1. \E lost : run' = [run EXCEPT ![s] =
                    [p EXCEPT !.pc = "protect", !.active = {}, !.orphans = listed(lost)]]
    BY DEF ListKeys, Set
  <2> QED
    BY <2>1
<1>2. UNCHANGED <<setting, board, clock, stored, cursor, writer>> /\ p.pc = "purge"
  BY DEF ListKeys, At, tables
<1>3. /\ DOMAIN p = Fields /\ Syncing(p, setting, board, clock, stored, cursor)
      /\ TablesOK(setting, board, clock, stored, cursor)
  BY <1>2 DEF HonestInv, HonestRun
<1> DEFINE keys == listed(lost)
<1>4. \A k \in keys : k \notin p.active
  OBVIOUS
<1> HIDE DEF p, keys
<1> DEFINE r == [p EXCEPT !.pc = "protect", !.active = {}, !.orphans = keys]
<1>5. /\ DOMAIN r = Fields /\ r.pc = "protect" /\ r.q = p.q /\ r.todo = p.todo
      /\ r.orphans = keys
  BY <1>3 DEF Fields
<1>6. run' = [run EXCEPT ![s] = r]
  BY <1>1 DEF p, keys
<1> HIDE DEF r
<1>7. \A f \in Ref, k \in Task : Claimed(f, k, board, clock, cursor) => k \notin keys
  BY <1>2, <1>3, <1>4 DEF Syncing, Collected
<1>8. HonestRun(r, setting, board, clock, stored, cursor)
  BY <1>3, <1>5, <1>7 DEF HonestRun, Syncing
<1> QED
  BY <1>2, <1>3, <1>6, <1>8, HonestTurn

\* The orphans only become fewer.
LEMMA HonestDelete ==
  ASSUME OneSync, HonestInv, NEW s \in Process, NEW r, run' = [run EXCEPT ![s] = r],
         UNCHANGED <<setting, board, clock, cursor, writer>>,
         TablesOK(setting, board, clock, stored', cursor),
         run[s].pc \in {"protect", "delete_rows"},
         DOMAIN r = Fields, r.pc \in {"delete_rows", "delete_nodes"},
         r.q = run[s].q, r.todo = run[s].todo, r.orphans \subseteq run[s].orphans
  PROVE  HonestInv'
<1>1. Syncing(run[s], setting, board, clock, stored, cursor)
  BY DEF HonestInv, HonestRun
<1>2. Syncing(r, setting, board, clock, stored', cursor)
  BY <1>1 DEF Syncing
<1> QED
  BY <1>2, HonestTurn DEF HonestRun

LEMMA HonestProtect ==
  ASSUME OneSync, HonestInv, NEW s \in Process, Protect(s)
  PROVE  HonestInv'
<1> DEFINE p == run[s]
           b == [p EXCEPT !.pc = "delete_rows"]
           e == [b EXCEPT !.orphans = IF b.q.keep THEN @ \ LinkedKeys(b) ELSE @]
<1>1. /\ UNCHANGED <<setting, board, clock, stored, cursor, writer>> /\ p.pc = "protect"
      /\ DOMAIN p = Fields /\ TablesOK(setting, board, clock, stored, cursor)
      /\ run' = [run EXCEPT ![s] = b] \/ run' = [run EXCEPT ![s] = e]
  BY DEF Protect, At, Set, HonestInv, HonestRun, tables
<1>2. /\ DOMAIN b = Fields /\ b.pc = "delete_rows" /\ b.q = p.q /\ b.todo = p.todo
      /\ b.orphans = p.orphans
  BY <1>1 DEF Fields
<1> HIDE DEF b
<1>3. /\ DOMAIN e = Fields /\ e.pc = "delete_rows" /\ e.q = p.q /\ e.todo = p.todo
      /\ e.orphans \subseteq p.orphans
  BY <1>2 DEF Fields
<1> HIDE DEF e
<1> QED
  BY <1>1, <1>2, <1>3, HonestDelete

LEMMA HonestDeleteRows ==
  ASSUME OneSync, HonestInv, NEW s \in Process, DeleteRows(s)
  PROVE  HonestInv'
<1> DEFINE p == run[s]
           r == [p EXCEPT !.pc = "delete_nodes"]
<1>1. /\ UNCHANGED <<setting, board, clock, cursor, writer>> /\ p.pc = "delete_rows"
      /\ DOMAIN p = Fields /\ run' = [run EXCEPT ![s] = r]
      /\ Syncing(p, setting, board, clock, stored, cursor)
      /\ TablesOK(setting, board, clock, stored, cursor)
      /\ \/ stored' = [k \in Task |-> IF k \in p.orphans THEN 0 ELSE stored[k]]
         \/ stored' = stored
  BY DEF DeleteRows, At, Set, HonestInv, HonestRun
<1>2. /\ DOMAIN r = Fields /\ r.pc = "delete_nodes" /\ r.q = p.q /\ r.todo = p.todo
      /\ r.orphans = p.orphans
  BY <1>1 DEF Fields
<1> HIDE DEF r
<1>3. \A f \in Ref, k \in Task : Claimed(f, k, board, clock, cursor) => k \notin p.orphans
  BY <1>1 DEF Syncing
<1>4. TablesOK(setting, board, clock, stored', cursor)
  BY <1>1, <1>3 DEF TablesOK
<1> QED
  BY <1>1, <1>2, <1>4, HonestDelete

-----------------------------------------------------------------------------
(* People and other tools                                                  *)

\* What changes has a later stamp than every cursor and every listing.
LEMMA HonestChange ==
  ASSUME OneSync, HonestInv, NEW k \in Task, NEW row, Change(k, row), DOMAIN row = Columns,
         row.stamp \in Nat, row.stamp <= clock + 1, row.there => row.stamp = clock + 1
  PROVE  HonestInv'
<1>1. /\ setting' = setting /\ clock' = clock + 1 /\ board' = [board EXCEPT ![k] = row]
      /\ UNCHANGED <<stored, cursor, writer>>
      /\ run' = [s \in Process |-> [run[s] EXCEPT !.live =
                   IF At(s, "idle") THEN {} ELSE StillLive(run[s])]]
  BY DEF Change, tables
<1>2. TablesOK(setting, board, clock, stored, cursor) /\ DOMAIN run = Process
  BY DEF HonestInv
<1>3. /\ clock \in Nat /\ clock' \in Nat /\ clock <= clock' /\ DOMAIN board' = Task
      /\ board'[k] = row /\ \A q \in Task : q # k => board'[q] = board[q]
      /\ row.there => row.stamp > clock
  BY <1>1, <1>2 DEF TablesOK
<1>4. ASSUME NEW f \in Ref, NEW q \in Task, Claimed(f, q, board', clock', cursor)
      PROVE  q # k /\ Claimed(f, q, board, clock, cursor)
  <2>1. q # k
    BY <1>2, <1>3, <1>4 DEF Claimed, TablesOK
  <2>2. Eligible(cursor[f].filter, board[q], clock)
    BY <1>2, <1>3, <1>4, <2>1, EligibleBefore DEF Claimed, TablesOK
  <2> QED
    BY <1>3, <1>4, <2>1, <2>2 DEF Claimed
<1>5. TablesOK(setting, board', clock', stored, cursor)
  <2>1. ASSUME NEW q \in Task
        PROVE  /\ DOMAIN board'[q] = Columns
               /\ board'[q].stamp \in Nat /\ board'[q].stamp <= clock'
               /\ board'[q].there => board'[q].stamp # 0
    <3>1. CASE q = k
      BY <1>1, <1>3, <3>1
    <3>2. CASE q # k
      BY <1>2, <1>3, <3>2 DEF TablesOK
    <3> QED
      BY <3>1, <3>2
  <2>2. \A f \in Ref : cursor[f].mark <= clock'
    BY <1>2, <1>3 DEF TablesOK
  <2>3. \A f \in Ref, q \in Task : Claimed(f, q, board', clock', cursor) => stored[q] = board'[q].text
    BY <1>2, <1>3, <1>4 DEF TablesOK
  <2> QED
    BY <1>2, <1>3, <2>1, <2>2, <2>3 DEF TablesOK
<1>6. ASSUME NEW s \in Process PROVE HonestRun(run'[s], setting, board', clock', stored, cursor)
  <2> DEFINE p == run[s]
             live == IF At(s, "idle") THEN {} ELSE StillLive(p)
             r == [p EXCEPT !.live = live]
  <2>1. run'[s] = r
    BY <1>1
  <2>2. HonestRun(p, setting, board, clock, stored, cursor)
    BY DEF HonestInv
  <2> HIDE DEF live, p
  <2>3. /\ DOMAIN r = Fields /\ r.pc = p.pc /\ r.q = p.q /\ r.complete = p.complete
        /\ r.active = p.active /\ r.todo = p.todo /\ r.type = p.type /\ r.now = p.now
        /\ r.known = p.known /\ r.mark = p.mark /\ r.old = p.old /\ r.top = p.top
        /\ r.pages = p.pages /\ r.mine = p.mine /\ r.changed = p.changed
        /\ r.embed = p.embed /\ r.retry = p.retry /\ r.orphans = p.orphans
    BY <2>2 DEF HonestRun, Fields
  <2> HIDE DEF r
  <2>4. ASSUME p.pc # "idle" PROVE Syncing(r, setting, board', clock', stored, cursor)
    <3>1. Syncing(p, setting, board, clock, stored, cursor)
      BY <2>2, <2>4 DEF HonestRun
    <3>2. ASSUME Asking(p, setting, clock, cursor) PROVE Asking(r, setting, clock', cursor)
      BY <1>3, <2>3, <3>2 DEF Asking
    <3>3. ASSUME Asking(p, setting, clock, cursor), Unlisted(p, board, stored)
          PROVE  Unlisted(r, board', stored)
      <4>1. ASSUME p.known, NEW q \in Task, OnBoard(r, q), p.mark # 0, board'[q].there,
                   board'[q].stamp <= p.mark, Eligible(p.old, board'[q], p.now)
            PROVE  stored[q] = board'[q].text
        <5>1. q # k
          BY <1>3, <3>3, <4>1 DEF Asking
        <5>2. OnBoard(p, q)
          BY <2>3, <4>1 DEF OnBoard
        <5> QED
          BY <1>3, <3>3, <4>1, <5>1, <5>2 DEF Unlisted
      <4> QED
        BY <2>3, <3>3, <4>1 DEF Unlisted
    <3>4. ASSUME Asking(p, setting, clock, cursor), Known(p, board, stored, cursor)
          PROVE  Known(r, board', stored, cursor)
      <4>1. ASSUME NEW q \in Task, Unchanged(r, q, board', cursor)
            PROVE  board'[q] = board[q] /\ Unchanged(p, q, board, cursor)
        <5>1. q # k
          BY <1>2, <1>3, <2>3, <3>4, <4>1 DEF Unchanged, Asking, TablesOK
        <5> QED
          BY <1>3, <2>3, <4>1, <5>1 DEF Unchanged
      <4>2. Pending(r) = Pending(p) /\ \A q \in Task : OnBoard(r, q) <=> OnBoard(p, q)
        BY <2>3 DEF Pending, OnBoard
      <4>3. \A i \in Pending(r) : i.key \in Task /\
              (Unchanged(r, i.key, board', cursor) => i.text = board'[i.key].text)
        BY <3>4, <4>1, <4>2 DEF Known
      <4>4. ASSUME ~r.q.limit, NEW q \in Task, OnBoard(r, q), Unchanged(r, q, board', cursor),
                   Eligible(r.q.filter, board'[q], r.now)
            PROVE  /\ q \in r.mine
                   /\ \/ r.retry \/ stored[q] = board'[q].text
                      \/ \E i \in Pending(r) : i.key = q /\ i.text = board'[q].text
        BY <2>3, <3>4, <4>1, <4>2, <4>4 DEF Known
      <4> QED
        BY <2>3, <3>4, <4>3, <4>4 DEF Known
    <3>5. Collected(p, board, clock, cursor) => Collected(r, board', clock', cursor)
      BY <1>4, <2>3 DEF Collected, WillPurge
    <3>6. (\A f \in Ref, q \in Task : Claimed(f, q, board, clock, cursor) => q \notin p.orphans)
          => \A f \in Ref, q \in Task : Claimed(f, q, board', clock', cursor) => q \notin r.orphans
      BY <1>4, <2>3
    <3>7. WillPurge(r) = WillPurge(p)
      BY <2>3 DEF WillPurge
    <3>8. /\ r.pc \in {"list", "store", "cursor"} => Asking(r, setting, clock', cursor)
          /\ r.pc = "list" /\ r.pages # {} => Unlisted(r, board', stored)
          /\ r.pc \in {"store", "cursor"} \/ (r.pc = "list" /\ r.pages = {}) =>
               Known(r, board', stored, cursor)
      BY <2>3, <3>1, <3>2, <3>3, <3>4 DEF Syncing
    <3> QED
      BY <2>3, <3>1, <3>5, <3>6, <3>7, <3>8 DEF Syncing, Collected
  <2> QED
    BY <2>1, <2>3, <2>4 DEF HonestRun
<1> QED
  BY <1>1, <1>2, <1>5, <1>6 DEF HonestInv

LEMMA HonestPeople ==
  ASSUME Unstamped = {}, OneSync, HonestInv, People
  PROVE  HonestInv'
<1>1. PICK k \in Task : Edit(k) \/ Archive(k) \/ Remove(k)
  BY DEF People
<1>2. /\ DOMAIN board[k] = Columns /\ board[k].stamp \in Nat /\ clock \in Nat
      /\ board[k].stamp <= clock
  BY DEF HonestInv, TablesOK
<1>3. Stamped(k) = clock + 1
  BY DEF Stamped
<1>4. CASE Edit(k)
  <2> DEFINE row == [there |-> TRUE, stamp |-> Stamped(k), text |-> clock + 1,
                     archived |-> board[k].archived]
  <2>1. Change(k, row)
    BY <1>4 DEF Edit
  <2>2. DOMAIN row = Columns /\ row.stamp = Stamped(k)
    BY DEF Columns
  <2> HIDE DEF row
  <2> QED
    BY <1>2, <1>3, <2>1, <2>2, HonestChange
<1>5. CASE Archive(k)
  <2> DEFINE row == [board[k] EXCEPT !.archived = ~@, !.stamp = Stamped(k)]
  <2>1. Change(k, row)
    BY <1>5 DEF Archive
  <2>2. DOMAIN row = Columns /\ row.stamp = Stamped(k)
    BY <1>2 DEF Columns
  <2> HIDE DEF row
  <2> QED
    BY <1>2, <1>3, <2>1, <2>2, HonestChange
<1>6. CASE Remove(k)
  <2> DEFINE row == [board[k] EXCEPT !.there = FALSE]
  <2>1. Change(k, row)
    BY <1>6 DEF Remove
  <2>2. DOMAIN row = Columns /\ row.stamp = board[k].stamp /\ row.there = FALSE
    BY <1>2 DEF Columns
  <2> HIDE DEF row
  <2> QED
    BY <1>2, <2>1, <2>2, HonestChange
<1> QED
  BY <1>1, <1>4, <1>5, <1>6

LEMMA HonestOthers ==
  ASSUME Settled(setting), HonestInv, Others \/ UNCHANGED vars
  PROVE  HonestInv'
<1>1. "write_through" \notin setting.trouble
  BY DEF Settled, Smooth, Steady
<1>2. \A k \in Task : ~FetchOne(k)
  BY <1>1 DEF FetchOne, Wrong, Goes
<1>3. ~IndexTask
  BY DEF IndexTask, HonestInv
<1>4. UNCHANGED <<setting, board, clock, stored, cursor, run, writer>>
  BY <1>2, <1>3 DEF Others, LinkReview, vars
<1> QED
  BY <1>4 DEF HonestInv

-----------------------------------------------------------------------------
(* Conclusion                                                              *)

LEMMA HonestBegin ==
  ASSUME SyncAssumption, Init PROVE HonestInv
<1>1. TablesOK(setting, board, clock, stored, cursor)
  BY DEF Init, TablesOK, Missing, Columns, NoFilter, Claimed
<1>2. HonestRun(Idle, setting, board, clock, stored, cursor)
  BY Resting DEF HonestRun
<1> QED
  BY <1>1, <1>2 DEF Init, HonestInv

LEMMA HonestStep ==
  ASSUME SyncAssumption, OneSync, WholeListings, Unstamped = {}, Settled(setting),
         HonestInv, [Next]_vars
  PROVE  HonestInv'
<1>1. ASSUME NEW s \in Process, SyncStep(s) PROVE HonestInv'
  <2>1. CASE \E t \in Type : ReadCursor(s, t)
    BY <2>1, HonestReadCursor
  <2>2. CASE \E g \in Page : ListPage(s, g)
    BY <2>2, HonestListPage
  <2>3. CASE ListingFails(s)
    BY <2>3, HonestListingFails
  <2>4. CASE CompareHashes(s)
    BY <2>4, HonestCompareHashes
  <2>5. CASE \E i \in run[s].embed : Upsert(s, i)
    BY <2>5, HonestUpsert
  <2>6. CASE WriteGraph(s)
    BY <2>6, HonestWriteGraph
  <2>7. CASE WriteCursor(s)
    BY <2>7, HonestWriteCursor
  <2>8. CASE ListKeys(s)
    BY <2>8, HonestListKeys
  <2>9. CASE Protect(s)
    BY <2>9, HonestProtect
  <2>10. CASE DeleteRows(s)
    BY <2>10, HonestDeleteRows
  <2>11. CASE DeleteNodes(s)
    BY <2>11, HonestRest
  <2> QED
    BY <1>1, <2>1, <2>2, <2>3, <2>4, <2>5, <2>6, <2>7, <2>8, <2>9, <2>10, <2>11 DEF SyncStep
<1>2. ASSUME NEW s \in Process, Crash(s) PROVE HonestInv'
  BY <1>2, HonestRest
<1>3. ASSUME NEW s \in Process, NEW q, Start(s, q) PROVE HonestInv'
  BY <1>3, HonestStart
<1> QED
  BY <1>1, <1>2, <1>3, HonestPeople, HonestOthers DEF Next

LEMMA SettingStays ==
  ASSUME [Next]_vars PROVE setting' = setting
BY DEF Next, SyncStep, ReadCursor, ListPage, ListingFails, CompareHashes, Upsert,
       WriteGraph, WriteCursor, ListKeys, Protect, DeleteRows, DeleteNodes, Crash, Start,
       People, Edit, Archive, Remove, Change, Others, IndexTask, FetchOne, LinkReview, vars

SettledInv == setting \in Settings /\ (Settled(setting) => HonestInv)

LEMMA SettledStep ==
  ASSUME SyncAssumption, OneSync, WholeListings, Unstamped = {}, SettledInv, [Next]_vars
  PROVE  SettledInv'
BY SettingStays, HonestStep DEF SettledInv

(* Where the calls have one scope, and either the filter stays or nothing  *)
(* goes wrong between a listing and its cursor, what the sync skips as     *)
(* unchanged is in the store: every task on a board that is not newer than *)
(* the cursor, and eligible under its filter, is stored with the text that *)
(* the board holds - through crashes, broken listings, edits, archiving,   *)
(* removals and purges (SyncService._sync_provider, sync_cursor.py).       *)
THEOREM CursorsAreHonest ==
  OneSync /\ WholeListings /\ Unstamped = {} /\ (\A set \in Settings : Settled(set))
  => (Spec => []CursorIsHonest)
<1> SUFFICES ASSUME OneSync, WholeListings, Unstamped = {}, \A set \in Settings : Settled(set)
             PROVE  Spec => []CursorIsHonest
  OBVIOUS
<1>1. Init => SettledInv
  BY SyncAssumption, HonestBegin DEF Init, SettledInv
<1>2. SettledInv /\ [Next]_vars => SettledInv'
  BY SyncAssumption, SettledStep
<1>3. SettledInv => CursorIsHonest
  BY DEF SettledInv, HonestInv, TablesOK, Claimed, CursorIsHonest
<1> QED
  BY <1>1, <1>2, <1>3, PTL DEF Spec

(* The same whatever filters come and go, where nothing goes wrong between *)
(* a listing and its cursor.                                               *)
THEOREM FiltersAreKept ==
  OneSync /\ WholeListings /\ Unstamped = {}
    /\ (\A set \in Settings : Smooth(set) => OneScope(set))
  => (Spec => []FiltersAreHonest)
<1> SUFFICES ASSUME OneSync, WholeListings, Unstamped = {},
                    \A set \in Settings : Smooth(set) => OneScope(set)
             PROVE  Spec => []FiltersAreHonest
  OBVIOUS
<1>1. Init => SettledInv
  BY SyncAssumption, HonestBegin DEF Init, SettledInv
<1>2. SettledInv /\ [Next]_vars => SettledInv'
  BY SyncAssumption, SettledStep
<1>3. SettledInv => FiltersAreHonest
  BY DEF SettledInv, Settled, Smooth, HonestInv, TablesOK, Claimed, CursorIsHonest,
         FiltersAreHonest
<1> QED
  BY <1>1, <1>2, <1>3, PTL DEF Spec

=============================================================================
