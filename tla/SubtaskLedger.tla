--------------------------- MODULE SubtaskLedger ---------------------------
(***************************************************************************)
(* Creation of native sub-tasks on a task board, made durable by a ledger  *)
(* in Postgres (reviewer/tasks/subtasks.py, subtask_store.py and the       *)
(* YouGile calls they make).                                               *)
(*                                                                         *)
(* A runner is one execution of create_subtasks in one reviewer-mcp        *)
(* process; several of them share the ledger table, the advisory locks and *)
(* the board.  Every statement that reads or writes shared state is a step *)
(* of its own, so another runner, the board, a person or a failure may     *)
(* come between any two of them.                                           *)
(*                                                                         *)
(* Left out: texts (titles, documents, warnings, urls), sanitising, the    *)
(* shape checks of JSON values, and the order of sub-task lists, which is  *)
(* kept only where it decides whether a PUT is sent (AttachTarget).        *)
(* `reindexed' of a row is not kept: it is TRUE exactly when the status is *)
(* "complete".                                                             *)
(***************************************************************************)
EXTENDS Integers, FiniteSets

CONSTANTS
  Runner,            \* executions of create_subtasks
  Request,           \* full request payloads, one per request hash
  Key, Parent,       \* idempotency keys and parent tasks
  KeyOf, ParentOf,   \* the key and the parent of each request
  N,                 \* number of drafts in a request
  Card,              \* task ids of the board
  External,          \* those of them that people, not the reviewer, create
  NoCard, NoRow, NoSlot, Nobody, NoRequest,  \* the Nones of the code
  Disturbance,       \* the kinds of trouble that may happen (see Disturb)
  MaxDisturbances,   \* BOUND: how much trouble a behaviour may hold
  MaxRev             \* BOUND: the revision up to which calls are repeated
                     \* that find nothing but an item a person must look at

MaxSubtasks == 20
Idx == 1..N
Slot == Request \X Idx          \* a slot stands for a marker: see Marker

ASSUME RequestAssumption ==
  /\ KeyOf \in [Request -> Key]
  /\ ParentOf \in [Request -> Parent]
  /\ N \in 1..MaxSubtasks
ASSUME CardAssumption == External \subseteq Card /\ NoCard \notin Card
ASSUME NoneAssumption ==
  /\ Nobody \notin Runner
  /\ NoRequest \notin Request
  /\ NoSlot \notin Slot
ASSUME BoundAssumption == MaxDisturbances \in Nat /\ MaxRev \in Nat

VARIABLES
  ledger,        \* table subtask_operations: the row of each key
  lock,          \* pg advisory locks: the runner that holds each parent
  loc,           \* the locals of each runner, with its program counter
  board,         \* the marker that each card carries
  subs,          \* the `subtasks' field of each parent on the board
  posts, puts,   \* writes on their way to the board
  indexed,       \* children in the task store and graph
  disturbances   \* how much trouble has happened

boardVars == <<board, subs, posts, puts, indexed>>
vars == <<ledger, lock, loc, board, subs, posts, puts, indexed, disturbances>>

----------------------------------------------------------------------------
(* Rows of the ledger.                                                     *)

Phase == {"pending", "in_flight", "created", "attached"}
Status == {"running", "partial", "board_complete", "complete"}

Row == [req : Request, rev : Nat, phase : [Idx -> Phase],
        manual : [Idx -> BOOLEAN], card : [Idx -> Card \cup {NoCard}],
        target : SUBSET Card, status : Status]
ASSUME NoRowAssumption == NoRow \notin Row

\* the marker of a draft: a hash of board, parent, key, index and draft
Marker(q, i) == <<q, i>>

FreshOperation(q) ==
  [req |-> q, rev |-> 0, phase |-> [i \in Idx |-> "pending"],
   manual |-> [i \in Idx |-> FALSE], card |-> [i \in Idx |-> NoCard],
   target |-> {}, status |-> "running"]

InPhase(row, ph) == {i \in Idx : row.phase[i] \in ph}
Confirmed(row) == InPhase(row, {"created", "attached"})
ConfirmedCards(row) == {row.card[i] : i \in Confirmed(row)}

\* seeded fault: the status follows the last item only
OperationStatusOfLast(phase) == IF phase[N] # "pending" THEN "partial" ELSE "running"

OperationStatus(phase) ==
  IF \E i \in Idx : phase[i] # "pending" THEN "partial" ELSE "running"

\* the row with item i replaced; its status is recomputed from the phases
WithItem(row, i, ph, man, c) ==
  LET phase == [row.phase EXCEPT ![i] = ph]
  IN  [row EXCEPT !.phase = phase, !.manual[i] = man, !.card[i] = c,
                  !.status = OperationStatus(phase)]

\* what _validate_persisted_operation demands of a row it has loaded
ItemValid(row, i) ==
  /\ row.phase[i] \in {"pending", "in_flight"} => row.card[i] = NoCard
  /\ row.phase[i] \in {"created", "attached"} => row.card[i] # NoCard
  /\ row.phase[i] # "in_flight" => ~row.manual[i]
DistinctCards(row) ==
  \A i, j \in Confirmed(row) : row.card[i] = row.card[j] => i = j
StatusValid(row) ==
  /\ row.status = "running" => \A i \in Idx : row.phase[i] = "pending"
  /\ row.status = "partial" => \E i \in Idx : row.phase[i] # "pending"
  /\ row.status \in {"board_complete", "complete"} =>
       /\ \A i \in Idx : row.phase[i] = "attached"
       /\ ConfirmedCards(row) \subseteq row.target
Valid(row) ==
  /\ \A i \in Idx : ItemValid(row, i)
  /\ DistinctCards(row)
  /\ StatusValid(row)

----------------------------------------------------------------------------
(* A runner between two shared steps.                                      *)

PC == {"idle", "load", "fetchParent", "late", "lock", "lockFresh", "reload",
       "reloadFresh", "insert", "scan", "reconcile", "items", "checkPost",
       "post", "posted", "confirm", "attach", "checkPut", "put", "putSent",
       "refetch", "settle", "verify", "checkIndex", "index", "checkComplete",
       "complete"}

\* cur is `current', the row as this runner last read or wrote it;
\* found the identities the board returned; snap the last parent snapshot
Local == [pc : PC, req : Request \cup {NoRequest}, cur : Row \cup {NoRow},
          item : Idx \cup {0}, found : [Idx -> Card \cup {NoCard}],
          snap : SUBSET Card]

Idle == [pc |-> "idle", req |-> NoRequest, cur |-> NoRow, item |-> 0,
         found |-> [i \in Idx |-> NoCard], snap |-> {}]

Post == [slot : Slot, by : Runner \cup {Nobody}]
Put == [parent : Parent, ids : SUBSET Card, by : Runner \cup {Nobody}]

Init ==
  /\ ledger = [k \in Key |-> NoRow]
  /\ lock = [p \in Parent |-> Nobody]
  /\ loc = [r \in Runner |-> Idle]
  /\ board = [c \in Card |-> NoSlot]
  /\ subs = [p \in Parent |-> {}]
  /\ posts = {} /\ puts = {}
  /\ indexed = {}
  /\ disturbances = 0

KeyAt(r) == KeyOf[loc[r].req]
ParentAt(r) == ParentOf[loc[r].req]
SlotAt(r) == Marker(loc[r].cur.req, loc[r].item)

First(i, S) == i \in S /\ \A j \in S : i <= j

Goto(r, pc) == loc' = [loc EXCEPT ![r].pc = pc]

\* Trouble: "crash" stands also for an exception that leaves run(), such as a
\* lost ledger connection; "lost_lock" for the death of the lock connection;
\* "board_error" for any failing or unusable answer of the board;
\* "late_write" lets a write the runner gave up on reach the board later;
\* "attach", "detach" and "copy" are edits people make on the board.
Disturb(kind) ==
  /\ kind \in Disturbance
  /\ disturbances < MaxDisturbances
  /\ disturbances' = disturbances + 1

\* seeded fault: the advisory lock is not given back
ReturnLocked(r) ==
  /\ loc' = [loc EXCEPT ![r] = Idle]
  /\ UNCHANGED lock

\* leaving the `with try_parent_lock' block, and run() with it
Return(r) ==
  /\ loc' = [loc EXCEPT ![r] = Idle]
  /\ lock' = [p \in Parent |-> IF lock[p] = r THEN Nobody ELSE lock[p]]

\* messages still under way when their sender stops waiting for the answer
Orphaned(M, r) ==
  {m \in M : m.by # r} \cup
  IF "late_write" \in Disturbance
  THEN {[m EXCEPT !.by = Nobody] : m \in {n \in M : n.by = r}}
  ELSE {}

\* the WHERE clause of checkpoint: nobody has written since this runner did
Current(r) ==
  /\ ledger[KeyAt(r)] # NoRow
  /\ ledger[KeyAt(r)].rev = loc[r].cur.rev

Bump(row) == [row EXCEPT !.rev = @ + 1]

\* store.checkpoint, after which the runner goes on with the locals `next';
\* OperationConflictError leaves run()
Checkpoint(r, row, next) ==
  \/ /\ Current(r)
     /\ ledger' = [ledger EXCEPT ![KeyAt(r)] = Bump(row)]
     /\ loc' = [loc EXCEPT ![r] = [next EXCEPT !.cur = Bump(row)]]
     /\ UNCHANGED lock
  \/ /\ ~Current(r)
     /\ Return(r)
     /\ UNCHANGED ledger

\* a last checkpoint, then a partial or complete result
CheckpointAndReturn(r, row) ==
  /\ ledger' = IF Current(r)
               THEN [ledger EXCEPT ![KeyAt(r)] = Bump(row)]
               ELSE ledger
  /\ Return(r)

\* lock.ensure_alive(): the session lock lives as long as its connection
EnsureAlive(r, next) ==
  /\ IF lock[ParentAt(r)] = r
     THEN Goto(r, next) /\ UNCHANGED lock
     ELSE Return(r)
  /\ UNCHANGED <<ledger, boardVars, disturbances>>

----------------------------------------------------------------------------
(* Before the parent lock: preflight, first load, first parent read.       *)

Start(r, q) ==
  /\ loc[r].pc = "idle"
  /\ LET row == ledger[KeyOf[q]]
     IN  row # NoRow /\ (\E i \in Idx : row.manual[i]) => row.rev < MaxRev
  /\ loc' = [loc EXCEPT ![r] = [Idle EXCEPT !.pc = "load", !.req = q]]
  /\ UNCHANGED <<ledger, lock, boardVars, disturbances>>

\* a row to go on with: loadable, of this very request, not yet complete
Resumable(row, q) == Valid(row) /\ row.req = q /\ row.status # "complete"

\* a stored row decides: resume it, or end the call (conflict, complete)
Evaluate(r) ==
  /\ ledger[KeyAt(r)] # NoRow
  /\ IF Resumable(ledger[KeyAt(r)], loc[r].req)
     THEN Goto(r, "lock") /\ UNCHANGED lock
     ELSE Return(r)
  /\ UNCHANGED <<ledger, boardVars, disturbances>>

Load(r) ==
  /\ loc[r].pc = "load"
  /\ \/ Evaluate(r)
     \/ /\ ledger[KeyAt(r)] = NoRow
        /\ Goto(r, "fetchParent")
        /\ UNCHANGED <<ledger, lock, boardVars, disturbances>>

\* the parent is read only for a key without a row; "late" is the second look
\* into the ledger when the board says there is no such parent
FetchParent(r) ==
  /\ loc[r].pc = "fetchParent"
  /\ \/ Goto(r, "lockFresh") /\ UNCHANGED <<lock, disturbances>>
     \/ Disturb("board_error") /\ Return(r)
     \/ Disturb("board_error") /\ Goto(r, "late") /\ UNCHANGED lock
  /\ UNCHANGED <<ledger, boardVars>>

LateLoad(r) ==
  /\ loc[r].pc = "late"
  /\ \/ Evaluate(r)
     \/ /\ ledger[KeyAt(r)] = NoRow
        /\ Return(r)
        /\ UNCHANGED <<ledger, boardVars, disturbances>>

\* try_parent_lock does not wait: a held lock gives "in_progress"
TryParentLock(r) ==
  /\ loc[r].pc \in {"lock", "lockFresh"}
  /\ IF lock[ParentAt(r)] = Nobody
     THEN /\ lock' = [lock EXCEPT ![ParentAt(r)] = r]
          /\ Goto(r, IF loc[r].pc = "lock" THEN "reload" ELSE "reloadFresh")
     ELSE Return(r)
  /\ UNCHANGED <<ledger, boardVars, disturbances>>

----------------------------------------------------------------------------
(* Under the parent lock: the row is read again, inserted if there is none. *)

EntryPoint(row) ==
  CASE row.status = "board_complete" -> "verify"
    [] row.status # "board_complete" /\ InPhase(row, {"in_flight"}) # {} -> "scan"
    [] OTHER -> "items"

Reload(r) ==
  LET row == ledger[KeyAt(r)]
  IN  /\ loc[r].pc \in {"reload", "reloadFresh"}
      /\ CASE row = NoRow /\ loc[r].pc = "reloadFresh" ->
                Goto(r, "insert") /\ UNCHANGED lock
           [] row # NoRow /\ Resumable(row, loc[r].req) ->
                /\ loc' = [loc EXCEPT ![r].cur = row, ![r].pc = EntryPoint(row)]
                /\ UNCHANGED lock
           [] OTHER -> Return(r)
      /\ UNCHANGED <<ledger, boardVars, disturbances>>

\* seeded fault: the row is upserted
InsertOverwriting(r) ==
  /\ loc[r].pc = "insert"
  /\ LET row == FreshOperation(loc[r].req)
     IN  /\ ledger' = [ledger EXCEPT ![KeyAt(r)] = row]
         /\ loc' = [loc EXCEPT ![r].cur = row, ![r].pc = "items"]
  /\ UNCHANGED <<lock, boardVars, disturbances>>

\* the primary key makes the second insert fail; its runner loads the winner
Insert(r) ==
  /\ loc[r].pc = "insert"
  /\ IF ledger[KeyAt(r)] = NoRow
     THEN LET row == FreshOperation(loc[r].req)
          IN  /\ ledger' = [ledger EXCEPT ![KeyAt(r)] = row]
              /\ loc' = [loc EXCEPT ![r].cur = row, ![r].pc = "items"]
     ELSE Goto(r, "reload") /\ UNCHANGED ledger
  /\ UNCHANGED <<lock, boardVars, disturbances>>

----------------------------------------------------------------------------
(* In-flight items of an earlier run: look for their markers on the board.  *)

CardsMarked(slot) == {c \in Card : board[c] = slot}

\* one listing of the board; an item is found when exactly one card has its
\* marker, and a card that moves while the board is paged hides the match
ScanMarkers(r) ==
  /\ loc[r].pc = "scan"
  /\ LET match(i) == CardsMarked(Marker(loc[r].cur.req, i))
         found == [i \in Idx |->
           IF /\ loc[r].cur.phase[i] = "in_flight"
              /\ \E c \in Card : match(i) = {c}
           THEN CHOOSE c \in match(i) : TRUE ELSE NoCard]
     IN \/ /\ loc' = [loc EXCEPT ![r].pc = "reconcile", ![r].found = found]
           /\ UNCHANGED <<ledger, lock, disturbances>>
        \/ /\ Disturb("board_error")
           /\ Goto(r, "reconcile")
           /\ UNCHANGED <<ledger, lock>>
        \/ /\ Disturb("board_error")
           /\ CheckpointAndReturn(r, loc[r].cur)
  /\ UNCHANGED boardVars

\* seeded fault: an item whose marker is not found is posted again
ReconciledForRepost(me, i) ==
  IF me.found[i] # NoCard
  THEN WithItem(me.cur, i, "created", FALSE, me.found[i])
  ELSE WithItem(me.cur, i, "pending", FALSE, NoCard)

\* without a single match a person must look; the item stays in flight
Reconciled(me, i) ==
  IF me.found[i] # NoCard
  THEN WithItem(me.cur, i, "created", FALSE, me.found[i])
  ELSE WithItem(me.cur, i, "in_flight", TRUE, NoCard)

\* one checkpoint per item, in order
Reconcile(r) ==
  LET me == loc[r]
      todo == {i \in InPhase(me.cur, {"in_flight"}) : i > me.item}
  IN  /\ me.pc = "reconcile"
      /\ \/ \E i \in Idx : /\ First(i, todo)
                           /\ Checkpoint(r, Reconciled(me, i), [me EXCEPT !.item = i])
         \/ /\ todo = {}
            /\ loc' = [loc EXCEPT ![r] = [Idle EXCEPT !.pc = "items",
                                          !.req = me.req, !.cur = me.cur]]
            /\ UNCHANGED <<ledger, lock>>
      /\ UNCHANGED <<boardVars, disturbances>>

----------------------------------------------------------------------------
(* Pending items: one POST each, announced in the ledger before it is sent. *)

MarkInFlight(r) ==
  LET me == loc[r]
  IN  /\ me.pc = "items"
      /\ \E i \in Idx :
           /\ First(i, InPhase(me.cur, {"pending"}))
           /\ Checkpoint(r, WithItem(me.cur, i, "in_flight", FALSE, NoCard),
                         [me EXCEPT !.pc = "checkPost", !.item = i])
      /\ UNCHANGED <<boardVars, disturbances>>

CheckBeforePost(r) == loc[r].pc = "checkPost" /\ EnsureAlive(r, "post")

SendPost(r) ==
  /\ loc[r].pc = "post"
  /\ posts' = posts \cup {[slot |-> SlotAt(r), by |-> r]}
  /\ Goto(r, "posted")
  /\ UNCHANGED <<ledger, lock, board, subs, puts, indexed, disturbances>>

PostReturns(r) ==
  /\ loc[r].pc = "posted"
  /\ [slot |-> SlotAt(r), by |-> r] \notin posts
  /\ \E c \in CardsMarked(SlotAt(r)) \ External :
       loc' = [loc EXCEPT ![r].pc = "confirm", ![r].found[loc[r].item] = c]
  /\ UNCHANGED <<ledger, lock, boardVars, disturbances>>

\* a timeout, a refusal or an unusable identity: the outcome is unknown
PostFails(r) ==
  /\ loc[r].pc = "posted"
  /\ Disturb("board_error")
  /\ posts' = Orphaned(posts, r)
  /\ Goto(r, "confirm")
  /\ UNCHANGED <<ledger, lock, board, subs, puts, indexed>>

RecordPost(r) ==
  LET me == loc[r]
      c == me.found[me.item]
      row == IF c # NoCard THEN WithItem(me.cur, me.item, "created", FALSE, c)
             ELSE WithItem(me.cur, me.item, "in_flight", TRUE, NoCard)
  IN  /\ me.pc = "confirm"
      /\ Checkpoint(r, row, [Idle EXCEPT !.pc = "items", !.req = me.req])
      /\ UNCHANGED <<boardVars, disturbances>>

----------------------------------------------------------------------------
(* Attachment: one PUT of the whole list of sub-tasks of the parent.       *)

\* read the parent before the attachment; without confirmed children, stop
FetchBefore(r) ==
  /\ loc[r].pc = "items"
  /\ InPhase(loc[r].cur, {"pending"}) = {}
  /\ \/ /\ Confirmed(loc[r].cur) = {}
        /\ Return(r)
        /\ UNCHANGED <<ledger, disturbances>>
     \/ /\ Confirmed(loc[r].cur) # {}
        /\ loc' = [loc EXCEPT ![r].pc = "attach", ![r].snap = subs[ParentAt(r)]]
        /\ UNCHANGED <<ledger, lock, disturbances>>
     \/ /\ Confirmed(loc[r].cur) # {}
        /\ Disturb("board_error")
        /\ CheckpointAndReturn(r, loc[r].cur)
  /\ UNCHANGED boardVars

\* seeded fault: what others attached to the parent is not kept
ExactUnionOfOwn(me) == me.cur.target \cup ConfirmedCards(me.cur)

ExactUnion(me) == me.cur.target \cup me.snap \cup ConfirmedCards(me.cur)

\* persist the union as the target before it is sent; `put' may be TRUE for
\* equal sets only when the stored target fixes another order of the list
AttachTarget(r) ==
  LET me == loc[r]
      union == ExactUnion(me)
  IN  /\ me.pc = "attach"
      /\ \E put \in BOOLEAN :
           LET next == [me EXCEPT !.pc = IF put THEN "checkPut" ELSE "settle"]
           IN  /\ union # me.snap => put
               /\ put => union # me.snap \/ me.cur.target # {}
               /\ IF union # me.cur.target
                  THEN Checkpoint(r, [me.cur EXCEPT !.target = union], next)
                  ELSE loc' = [loc EXCEPT ![r] = next] /\ UNCHANGED <<ledger, lock>>
      /\ UNCHANGED <<boardVars, disturbances>>

CheckBeforePut(r) == loc[r].pc = "checkPut" /\ EnsureAlive(r, "put")

MyPut(r) ==
  [parent |-> ParentOf[loc[r].cur.req], ids |-> loc[r].cur.target, by |-> r]

SendPut(r) ==
  /\ loc[r].pc = "put"
  /\ puts' = puts \cup {MyPut(r)}
  /\ Goto(r, "putSent")
  /\ UNCHANGED <<ledger, lock, board, subs, posts, indexed, disturbances>>

PutReturns(r) ==
  /\ loc[r].pc = "putSent"
  /\ MyPut(r) \notin puts
  /\ Goto(r, "refetch")
  /\ UNCHANGED <<ledger, lock, boardVars, disturbances>>

PutFails(r) ==
  /\ loc[r].pc = "putSent"
  /\ Disturb("board_error")
  /\ puts' = Orphaned(puts, r)
  /\ CheckpointAndReturn(r, loc[r].cur)
  /\ UNCHANGED <<board, subs, posts, indexed>>

\* read the parent again: only what it now lists counts as attached
FetchAfter(r) ==
  /\ loc[r].pc = "refetch"
  /\ \/ /\ loc' = [loc EXCEPT ![r].pc = "settle", ![r].snap = subs[ParentAt(r)]]
        /\ UNCHANGED <<ledger, lock, disturbances>>
     \/ /\ Disturb("board_error")
        /\ CheckpointAndReturn(r, loc[r].cur)
  /\ UNCHANGED boardVars

DesiredPhase(me, i) ==
  IF me.cur.card[i] \in me.snap THEN "attached" ELSE "created"

Unsettled(me) ==
  {i \in Confirmed(me.cur) : me.cur.phase[i] # DesiredPhase(me, i)}

\* seeded fault: items in flight are taken for attached
AllStarted(row) == \A i \in Idx : row.phase[i] # "pending"

AllAttached(row) == \A i \in Idx : row.phase[i] = "attached"

SettlePhase(r) ==
  LET me == loc[r]
  IN  /\ me.pc = "settle"
      /\ \E i \in Idx :
           /\ First(i, Unsettled(me))
           /\ Checkpoint(r, WithItem(me.cur, i, DesiredPhase(me, i), FALSE,
                                     me.cur.card[i]), me)
      /\ UNCHANGED <<boardVars, disturbances>>

\* board_complete, when the parent lists the whole target
BoardComplete(r) ==
  LET me == loc[r]
  IN  /\ me.pc = "settle"
      /\ Unsettled(me) = {}
      /\ IF me.cur.target \subseteq me.snap /\ AllAttached(me.cur)
         THEN Checkpoint(r, [me.cur EXCEPT !.status = "board_complete"],
                         [me EXCEPT !.pc = "checkIndex"])
         ELSE Return(r) /\ UNCHANGED ledger
      /\ UNCHANGED <<boardVars, disturbances>>

----------------------------------------------------------------------------
(* Write-through into the task store, and the end of the operation.        *)

\* a resumed board_complete row: the parent is read, and nothing repaired
VerifyParent(r) ==
  /\ loc[r].pc = "verify"
  /\ \/ /\ IF loc[r].cur.target \subseteq subs[ParentAt(r)]
           THEN Goto(r, "checkIndex") /\ UNCHANGED lock
           ELSE Return(r)
        /\ UNCHANGED <<ledger, disturbances>>
     \/ /\ Disturb("board_error")
        /\ CheckpointAndReturn(r, loc[r].cur)
  /\ UNCHANGED boardVars

CheckBeforeIndex(r) == loc[r].pc = "checkIndex" /\ EnsureAlive(r, "index")

\* _write_through_subtasks: the parent is read once more, then the batch is
\* indexed; a batch that fails half-way may still have stored the children
WriteThrough(r) ==
  LET me == loc[r]
      children == ConfirmedCards(me.cur)
      covered == children \subseteq subs[ParentAt(r)]
  IN  /\ me.pc = "index"
      /\ \/ /\ covered
            /\ indexed' = indexed \cup children
            /\ Goto(r, "checkComplete")
            /\ UNCHANGED <<ledger, lock, disturbances>>
         \/ /\ ~covered
            /\ CheckpointAndReturn(r, me.cur)
            /\ UNCHANGED <<indexed, disturbances>>
         \/ /\ Disturb("board_error")
            /\ CheckpointAndReturn(r, me.cur)
            /\ indexed' \in {indexed, indexed \cup children}
      /\ UNCHANGED <<board, subs, posts, puts>>

CheckBeforeComplete(r) ==
  loc[r].pc = "checkComplete" /\ EnsureAlive(r, "complete")

Complete(r) ==
  /\ loc[r].pc = "complete"
  /\ CheckpointAndReturn(r, [loc[r].cur EXCEPT !.status = "complete"])
  /\ UNCHANGED <<boardVars, disturbances>>

----------------------------------------------------------------------------
(* The board, the people who use it, and failures.                         *)

\* the board carries out a POST: a new card with a task id of its choice
BoardCreates(m, c) ==
  /\ m \in posts
  /\ c \notin External /\ board[c] = NoSlot
  /\ board' = [board EXCEPT ![c] = m.slot]
  /\ posts' = posts \ {m}
  /\ UNCHANGED <<ledger, lock, loc, subs, puts, indexed, disturbances>>

\* the board carries out a PUT: the list it had is replaced as a whole
BoardReplaces(m) ==
  /\ m \in puts
  /\ subs' = [subs EXCEPT ![m.parent] = m.ids]
  /\ puts' = puts \ {m}
  /\ UNCHANGED <<ledger, lock, loc, board, posts, indexed, disturbances>>

PersonAttaches(p, c) ==
  /\ Disturb("attach")
  /\ c \in External \ subs[p]
  /\ subs' = [subs EXCEPT ![p] = @ \cup {c}]
  /\ UNCHANGED <<ledger, lock, loc, board, posts, puts, indexed>>

PersonDetaches(p, c) ==
  /\ Disturb("detach")
  /\ c \in subs[p]
  /\ subs' = [subs EXCEPT ![p] = @ \ {c}]
  /\ UNCHANGED <<ledger, lock, loc, board, posts, puts, indexed>>

\* a card is duplicated on the board, its description and marker with it
PersonCopies(c, d) ==
  /\ Disturb("copy")
  /\ board[c] # NoSlot
  /\ d \in External /\ board[d] = NoSlot
  /\ board' = [board EXCEPT ![d] = board[c]]
  /\ UNCHANGED <<ledger, lock, loc, subs, posts, puts, indexed>>

LoseLock(r) ==
  /\ Disturb("lost_lock")
  /\ \E p \in Parent : lock[p] = r
  /\ lock' = [p \in Parent |-> IF lock[p] = r THEN Nobody ELSE lock[p]]
  /\ UNCHANGED <<ledger, loc, boardVars>>

Crash(r) ==
  /\ loc[r].pc # "idle"
  /\ Disturb("crash")
  /\ Return(r)
  /\ posts' = Orphaned(posts, r)
  /\ puts' = Orphaned(puts, r)
  /\ UNCHANGED <<ledger, board, subs, indexed>>

----------------------------------------------------------------------------
(* The specification.                                                      *)

RunnerStep(r) ==
  \/ Load(r) \/ FetchParent(r) \/ LateLoad(r) \/ TryParentLock(r)
  \/ Reload(r) \/ Insert(r)
  \/ ScanMarkers(r) \/ Reconcile(r)
  \/ MarkInFlight(r) \/ CheckBeforePost(r) \/ SendPost(r)
  \/ PostReturns(r) \/ PostFails(r) \/ RecordPost(r)
  \/ FetchBefore(r) \/ AttachTarget(r) \/ CheckBeforePut(r) \/ SendPut(r)
  \/ PutReturns(r) \/ PutFails(r) \/ FetchAfter(r)
  \/ SettlePhase(r) \/ BoardComplete(r)
  \/ VerifyParent(r) \/ CheckBeforeIndex(r) \/ WriteThrough(r)
  \/ CheckBeforeComplete(r) \/ Complete(r)

BoardStep ==
  \/ \E m \in posts, c \in Card : BoardCreates(m, c)
  \/ \E m \in puts : BoardReplaces(m)

PersonStep ==
  \/ \E p \in Parent, c \in Card : PersonAttaches(p, c)
  \/ \E p \in Parent, c \in Card : PersonDetaches(p, c)
  \/ \E c, d \in Card : PersonCopies(c, d)

Next ==
  \/ \E r \in Runner, q \in Request : Start(r, q)
  \/ \E r \in Runner : RunnerStep(r)
  \/ \E r \in Runner : LoseLock(r) \/ Crash(r)
  \/ BoardStep
  \/ PersonStep

Spec == Init /\ [][Next]_vars

(***************************************************************************)
(* Fairness.  A process that has not died executes its next statement, the *)
(* board answers a request whose sender is waiting, and the client repeats *)
(* the call (decompose-task/SKILL.md: exact retry with the same key).      *)
(***************************************************************************)
BoardAnswers ==
  \/ \E m \in {n \in posts : n.by # Nobody}, c \in Card : BoardCreates(m, c)
  \/ \E m \in {n \in puts : n.by # Nobody} : BoardReplaces(m)

Fairness ==
  /\ \A r \in Runner : WF_vars(RunnerStep(r))
  /\ \A q \in Request : WF_vars(\E r \in Runner : Start(r, q))
  /\ WF_vars(BoardAnswers)

FairSpec == Spec /\ Fairness

----------------------------------------------------------------------------
(* Properties.                                                             *)

\* Every variable holds values of the shape the code gives it.
TypeOK ==
  /\ ledger \in [Key -> Row \cup {NoRow}]
  /\ lock \in [Parent -> Runner \cup {Nobody}]
  /\ loc \in [Runner -> Local]
  /\ board \in [Card -> Slot \cup {NoSlot}]
  /\ subs \in [Parent -> SUBSET Card]
  /\ posts \subseteq Post
  /\ puts \subseteq Put
  /\ indexed \subseteq Card
  /\ disturbances \in 0..MaxDisturbances

PostsFor(slot) == {m \in posts : m.slot = slot}
CardsMade(slot) == CardsMarked(slot) \ External
AtMostOne(S) == \A x, y \in S : x = y

\* A draft is never posted twice: whatever crashes, timeouts, lost locks and
\* concurrent retries happen, the reviewer makes at most one card with a given
\* marker, the POSTs still under way included (run(), lines 929-1047).
OneCardPerDraft ==
  \A slot \in Slot :
    /\ AtMostOne(PostsFor(slot))
    /\ AtMostOne(CardsMade(slot))
    /\ PostsFor(slot) = {} \/ CardsMade(slot) = {}

\* Every row that run() has checkpointed passes the validation of the next
\* load, so no history of partial runs wedges an operation for good
\* (_validate_persisted_operation rejects what its own writer may produce).
LedgerLoadable == \A k \in Key : ledger[k] # NoRow => Valid(ledger[k])

\* All cards and POSTs of a key come from the one payload in its row, even
\* when two different payloads race to insert the key under different parents.
OnePayloadPerKey ==
  \A slot \in Slot :
    PostsFor(slot) # {} \/ CardsMade(slot) # {} =>
      /\ ledger[KeyOf[slot[1]]] # NoRow
      /\ ledger[KeyOf[slot[1]]].req = slot[1]

\* "complete" is the truth: each draft has its own card with its marker on the
\* board, and the task store has been given all of them.
CompleteIsReal ==
  \A k \in Key :
    ledger[k] # NoRow /\ ledger[k].status = "complete" =>
      \A i \in Idx :
        /\ ledger[k].card[i] \in indexed
        /\ board[ledger[k].card[i]] = Marker(ledger[k].req, i)

\* The ledger, the board and the runners together keep the abstract promise of
\* SubtaskPromise: one payload per key, at most one card per draft, and no
\* "complete" without all cards.
Promise == INSTANCE SubtaskPromise WITH
  Draft <- Idx,
  owner <- [k \in Key |-> IF ledger[k] = NoRow THEN NoRequest ELSE ledger[k].req],
  cards <- [slot \in Slot |-> CardsMade(slot)],
  finished <- {q \in Request : /\ ledger[KeyOf[q]] # NoRow
                               /\ ledger[KeyOf[q]].req = q
                               /\ ledger[KeyOf[q]].status = "complete"}
KeepsPromise == Promise!Spec

\* design/PRI-224 line 114: the parent lock serialises all keys of a parent,
\* so the children of a finished batch stay attached whatever other batches of
\* the same parent do.
FinishedBatchStaysAttached ==
  \A k \in Key :
    ledger[k] # NoRow /\ ledger[k].status = "complete" =>
      ConfirmedCards(ledger[k]) \subseteq subs[ParentOf[ledger[k].req]]

\* Retries with the same key bring an operation to its end unless a person is
\* asked for: an item whose POST has an unknown outcome, or a board-complete
\* batch whose children were taken off the parent (run(), lines 1159-1164).
NeedsPerson(row) ==
  \/ \E i \in Idx : row.manual[i]
  \/ row.status = "board_complete" /\ ~(row.target \subseteq subs[ParentOf[row.req]])
Finished(k) ==
  /\ ledger[k] # NoRow
  /\ ledger[k].status = "complete" \/ NeedsPerson(ledger[k])
RetriesFinish == \A k \in Key : ledger[k] # NoRow ~> Finished(k)
=============================================================================
