------------------------ MODULE SubtaskLedgerProofs ------------------------
(***************************************************************************)
(* Proofs about SubtaskLedger, for any number of runners, requests, keys,  *)
(* parents, drafts and cards, and for every kind and amount of trouble.    *)
(*                                                                         *)
(* The argument for OneCardPerDraft.  A runner sends a POST only for an    *)
(* item it has itself moved from "pending" to "in_flight" with a           *)
(* checkpoint, and a checkpoint only succeeds on the revision the runner   *)
(* has read (Sees).  So an item leaves "pending" once, in one runner; from *)
(* then on the row says so, and no other runner posts it (SlotSafe).  The  *)
(* parent lock plays no part: the property survives the loss of locks.     *)
(*                                                                         *)
(* What the rows of the ledger say is true.  Honest: every row, stored or  *)
(* held by a runner, passes the checks of the next load, the cards it      *)
(* names carry the marker of their draft, and a "complete" row has its     *)
(* cards in the task store.  Markers are never rewritten and the store     *)
(* only grows, so what was true of a row once stays true; a runner writes  *)
(* only what it has seen.                                                  *)
(*                                                                         *)
(* Each step of the ledger and the board is then a step of SubtaskPromise, *)
(* or none: an insert accepts a payload, the POST that the board carries   *)
(* out makes the card, the last checkpoint finishes the operation.         *)
(*                                                                         *)
(* Attached: while a runner is between its read of the parent and the PUT  *)
(* it derives from it, it holds the parent lock, so that no other batch of *)
(* the parent is finished meanwhile.  This one needs the lock to live as   *)
(* long as its runner, and no write that reaches the board late.           *)
(***************************************************************************)
EXTENDS SubtaskLedger, TLAPS

----------------------------------------------------------------------------
(* The inductive invariant, in named parts.                                *)

BeforeRow == {"idle", "load", "fetchParent", "late", "lock", "lockFresh",
              "reload", "reloadFresh", "insert"}
AboutPost == {"checkPost", "post"}

\* a row whose items fit together: identities exactly where they are recorded
SafeRow == {row \in Row : \A i \in Idx : ItemValid(row, i)}

\* a runner has the locals that its program counter promises
LocalSafe(me) ==
  /\ me.pc # "idle" => me.req \in Request
  /\ me.pc \notin BeforeRow => me.cur # NoRow
  /\ me.pc \in AboutPost \cup {"posted", "confirm"} => me.item \in Idx
  /\ me.cur # NoRow => me.cur \in SafeRow

\* the row a runner holds is the stored one or an older one of the same key
Sees(me, rows) ==
  me.cur # NoRow =>
    LET row == rows[KeyOf[me.req]]
    IN  /\ row # NoRow
        /\ me.cur.req = me.req
        /\ row.req = me.req
        /\ me.cur.rev <= row.rev
        /\ me.cur.rev = row.rev => me.cur = row

RowsType(rows) == rows \in [Key -> SafeRow \cup {NoRow}]

Core ==
  /\ RowsType(ledger)
  /\ lock \in [Parent -> Runner \cup {Nobody}]
  /\ loc \in [Runner -> Local]
  /\ \A r \in Runner : LocalSafe(loc[r]) /\ Sees(loc[r], ledger)

BoardType ==
  /\ board \in [Card -> Slot \cup {NoSlot}]
  /\ subs \in [Parent -> SUBSET Card]
  /\ posts \subseteq Post
  /\ puts \subseteq Put
  /\ indexed \subseteq Card
  /\ disturbances \in 0..MaxDisturbances

Base == Core /\ BoardType

\* what any step may do to the rows: nothing is deleted, every write is a new
\* revision of the same request, and no item becomes pending again
Grows(rows, next) ==
  \A k \in Key :
    \/ next[k] = rows[k]
    \/ /\ next[k] \in SafeRow
       /\ rows[k] # NoRow =>
            /\ next[k].req = rows[k].req
            /\ rows[k].rev < next[k].rev
            /\ \A i \in Idx :
                 rows[k].phase[i] # "pending" => next[k].phase[i] # "pending"

\* runner r has announced the POST of this slot and not sent it yet
About(r, slot) == loc[r].pc \in AboutPost /\ SlotAt(r) = slot

Announced(slot) ==
  /\ ledger[KeyOf[slot[1]]] # NoRow
  /\ ledger[KeyOf[slot[1]]].req = slot[1]
  /\ ledger[KeyOf[slot[1]]].phase[slot[2]] # "pending"

SlotSafe(slot) ==
  /\ PostsFor(slot) # {} \/ CardsMade(slot) # {} => Announced(slot)
  /\ \A r \in Runner :
       About(r, slot) =>
         /\ Announced(slot)
         /\ PostsFor(slot) = {}
         /\ CardsMade(slot) = {}
         /\ \A s \in Runner : About(s, slot) => r = s
  /\ AtMostOne(PostsFor(slot))
  /\ AtMostOne(CardsMade(slot))
  /\ PostsFor(slot) = {} \/ CardsMade(slot) = {}

IInv == Base /\ \A slot \in Slot : SlotSafe(slot)


----------------------------------------------------------------------------
(* Rows and locals keep their shape.                                       *)

\* A new row is a row.
LEMMA FreshOperationType ==
  ASSUME NEW q \in Request
  PROVE  FreshOperation(q) \in SafeRow
<1>1. FreshOperation(q) \in Row
  BY DEF FreshOperation, Row, Phase, Status
<1>2. \A i \in Idx : ItemValid(FreshOperation(q), i)
  BY DEF FreshOperation, ItemValid
<1> QED
  BY <1>1, <1>2 DEF SafeRow

\* the contents an item can be given
ItemArgs(ph, man, c) ==
  /\ ph \in Phase /\ man \in BOOLEAN /\ c \in Card \cup {NoCard}
  /\ ph \in {"pending", "in_flight"} => c = NoCard
  /\ ph \in {"created", "attached"} => c # NoCard
  /\ ph # "in_flight" => ~man

\* Replacing one item of a row gives a row of the same request and revision,
\* in which no other item has another phase.
LEMMA WithItemType ==
  ASSUME NEW row \in SafeRow, NEW i \in Idx, NEW ph, NEW man, NEW c,
         ItemArgs(ph, man, c)
  PROVE  LET new == WithItem(row, i, ph, man, c)
         IN  /\ new \in SafeRow
             /\ new.req = row.req
             /\ new.rev = row.rev
             /\ new.phase = [row.phase EXCEPT ![i] = ph]
<1> DEFINE phase == [row.phase EXCEPT ![i] = ph]
           manual == [row.manual EXCEPT ![i] = man]
           card == [row.card EXCEPT ![i] = c]
           new == WithItem(row, i, ph, man, c)
<1>1. /\ phase \in [Idx -> Phase] /\ manual \in [Idx -> BOOLEAN]
      /\ card \in [Idx -> Card \cup {NoCard}]
  BY DEF SafeRow, Row, ItemArgs
<1>2. OperationStatus(phase) \in Status
  BY DEF OperationStatus, Status
<1>3. /\ new \in Row /\ new.req = row.req /\ new.rev = row.rev
      /\ new.phase = phase /\ new.manual = manual /\ new.card = card
  BY <1>1, <1>2 DEF WithItem, SafeRow, Row
<1>4. ASSUME NEW j \in Idx PROVE ItemValid(new, j)
  <2>1. CASE j = i
    <3>1. new.phase[j] = ph /\ new.manual[j] = man /\ new.card[j] = c
      BY <1>3, <2>1 DEF SafeRow, Row
    <3> HIDE DEF new
    <3> QED
      BY <3>1 DEF ItemValid, ItemArgs
  <2>2. CASE j # i
    <3>1. /\ new.phase[j] = row.phase[j] /\ new.manual[j] = row.manual[j]
          /\ new.card[j] = row.card[j]
      BY <1>3, <2>2 DEF SafeRow, Row
    <3>2. ItemValid(row, j)
      BY DEF SafeRow
    <3> HIDE DEF new
    <3> QED
      BY <3>1, <3>2 DEF ItemValid
  <2> QED
    BY <2>1, <2>2
<1> HIDE DEF new
<1>5. new \in SafeRow
  BY <1>3, <1>4 DEF SafeRow
<1> QED
  BY <1>3, <1>5 DEF new

\* The revision that checkpoint writes is the next one.
LEMMA BumpType ==
  ASSUME NEW row \in SafeRow
  PROVE  /\ Bump(row) \in SafeRow
         /\ Bump(row).req = row.req
         /\ Bump(row).rev = row.rev + 1
         /\ Bump(row).phase = row.phase
<1>1. /\ Bump(row) \in Row /\ Bump(row).req = row.req
      /\ Bump(row).rev = row.rev + 1 /\ Bump(row).phase = row.phase
      /\ Bump(row).manual = row.manual /\ Bump(row).card = row.card
  BY DEF Bump, SafeRow, Row
<1>2. \A i \in Idx : ItemValid(Bump(row), i)
  BY <1>1 DEF SafeRow, ItemValid
<1> QED
  BY <1>1, <1>2 DEF SafeRow

\* The locals of a process that runs nothing.
LEMMA IdleType ==
  /\ Idle \in Local
  /\ Idle.pc = "idle" /\ Idle.req = NoRequest /\ Idle.cur = NoRow
BY DEF Idle, Local, PC


----------------------------------------------------------------------------
(* Core is kept by the building blocks of the runner's actions.            *)

\* Rows that only grow leave every runner with the stored row or an older one.
LEMMA SeesGrows ==
  ASSUME NEW rows, NEW next, RowsType(rows), RowsType(next), Grows(rows, next),
         NEW me \in Local, Sees(me, rows)
  PROVE  Sees(me, next)
<1> SUFFICES ASSUME me.cur # NoRow PROVE Sees(me, next)
  BY DEF Sees
<1> DEFINE k == KeyOf[me.req]
<1>1. me.cur \in Row /\ me.cur.req = me.req /\ me.req \in Request
  BY DEF Sees, Local, Row
<1>2. k \in Key
  BY <1>1, RequestAssumption
<1>3. rows[k] \in Row /\ rows[k].req = me.req /\ me.cur.rev <= rows[k].rev
      /\ (me.cur.rev = rows[k].rev => me.cur = rows[k])
  BY <1>2 DEF Sees, RowsType, SafeRow
<1>4. CASE next[k] = rows[k]
  BY <1>4 DEF Sees
<1>5. CASE next[k] # rows[k]
  <2>1. next[k] \in Row /\ next[k].req = me.req /\ rows[k].rev < next[k].rev
    BY <1>2, <1>3, <1>5, NoRowAssumption DEF Grows, SafeRow
  <2>2. me.cur.rev \in Nat /\ rows[k].rev \in Nat /\ next[k].rev \in Nat
    BY <1>1, <1>3, <2>1 DEF Row
  <2>3. me.cur.rev < next[k].rev
    BY <1>3, <2>1, <2>2
  <2> QED
    BY <1>1, <2>1, <2>2, <2>3, NoRowAssumption DEF Sees
<1> QED
  BY <1>4, <1>5

\* One runner gets new locals while the rows grow or stay.
LEMMA LocalsCore ==
  ASSUME Core, NEW r \in Runner, NEW x \in Local,
         RowsType(ledger'), Grows(ledger, ledger'),
         lock' \in [Parent -> Runner \cup {Nobody}],
         loc' = [loc EXCEPT ![r] = x], LocalSafe(x), Sees(x, ledger')
  PROVE  Core' /\ Grows(ledger, ledger')
<1>1. loc' \in [Runner -> Local]
  BY DEF Core
<1>2. ASSUME NEW s \in Runner
      PROVE  LocalSafe(loc'[s]) /\ Sees(loc'[s], ledger')
  <2>1. CASE s = r
    BY <2>1 DEF Core
  <2>2. CASE s # r
    <3>1. loc'[s] = loc[s] /\ loc[s] \in Local
      BY <2>2 DEF Core
    <3>2. LocalSafe(loc[s]) /\ Sees(loc[s], ledger) /\ RowsType(ledger)
      BY DEF Core
    <3>3. Sees(loc[s], ledger')
      BY <3>1, <3>2, SeesGrows
    <3> QED
      BY <3>1, <3>2, <3>3
  <2> QED
    BY <2>1, <2>2
<1> QED
  BY <1>1, <1>2 DEF Core

\* Rows that do not change count as growing.
LEMMA GrowsSame == ASSUME NEW rows PROVE Grows(rows, rows)
BY DEF Grows

\* A runner moves on with the row it has.
LEMMA MoveCore ==
  ASSUME Core, NEW r \in Runner, NEW x \in Local,
         ledger' = ledger, lock' \in [Parent -> Runner \cup {Nobody}],
         loc' = [loc EXCEPT ![r] = x], LocalSafe(x),
         x.req = loc[r].req, x.cur = loc[r].cur
  PROVE  Core' /\ Grows(ledger, ledger')
<1>1. Sees(x, ledger) /\ RowsType(ledger)
  BY DEF Core, Sees
<1>2. Grows(ledger, ledger')
  BY GrowsSame
<1> QED
  BY <1>1, <1>2, LocalsCore

\* A runner leaves run(), whatever it has written before.
LEMMA ReturnCore ==
  ASSUME Core, NEW r \in Runner, Return(r),
         RowsType(ledger'), Grows(ledger, ledger')
  PROVE  Core' /\ Grows(ledger, ledger')
<1>1. LocalSafe(Idle) /\ Sees(Idle, ledger')
  BY IdleType DEF LocalSafe, Sees, BeforeRow, AboutPost
<1>2. lock' \in [Parent -> Runner \cup {Nobody}]
  BY DEF Return, Core
<1> QED
  BY <1>1, <1>2, IdleType, LocalsCore DEF Return

\* A runner leaves run() and has written nothing.
LEMMA QuietReturnCore ==
  ASSUME Core, NEW r \in Runner, Return(r), ledger' = ledger
  PROVE  Core' /\ Grows(ledger, ledger')
BY ReturnCore, GrowsSame DEF Core

\* The row that r holds, and how it may be written back.
Successor(row, cur) ==
  /\ row \in SafeRow
  /\ row.req = cur.req
  /\ row.rev = cur.rev
  /\ \A i \in Idx : cur.phase[i] # "pending" => row.phase[i] # "pending"

\* A successful checkpoint stores the next revision of the runner's row.
LEMMA WriteGrows ==
  ASSUME Core, NEW r \in Runner, loc[r].cur # NoRow, Current(r), NEW row,
         Successor(row, loc[r].cur),
         ledger' = [ledger EXCEPT ![KeyAt(r)] = Bump(row)]
  PROVE  /\ RowsType(ledger') /\ Grows(ledger, ledger')
         /\ loc[r].req \in Request /\ KeyAt(r) \in Key
         /\ ledger[KeyAt(r)] = loc[r].cur
         /\ ledger'[KeyAt(r)] = Bump(row)
<1>1. loc[r] \in Local /\ Sees(loc[r], ledger) /\ RowsType(ledger)
  BY DEF Core
<1>2. loc[r].cur \in Row /\ loc[r].cur.req = loc[r].req
  BY <1>1 DEF Sees, Local
<1>3. loc[r].req \in Request /\ KeyAt(r) \in Key
  BY <1>2, RequestAssumption DEF Row, KeyAt
<1>4. ledger[KeyAt(r)] = loc[r].cur
  BY <1>1 DEF Sees, Current, KeyAt
<1>5. Bump(row) \in SafeRow /\ Bump(row).req = row.req
      /\ Bump(row).rev = row.rev + 1 /\ Bump(row).phase = row.phase
  BY BumpType DEF Successor
<1>6. RowsType(ledger')
  BY <1>1, <1>5 DEF RowsType
<1>7. ledger'[KeyAt(r)] = Bump(row)
      /\ \A k \in Key \ {KeyAt(r)} : ledger'[k] = ledger[k]
  BY <1>1, <1>3 DEF RowsType
<1>8. row.rev \in Nat /\ row.rev < row.rev + 1
  BY DEF Successor, SafeRow, Row
<1>9. Grows(ledger, ledger')
  BY <1>4, <1>5, <1>7, <1>8 DEF Grows, Successor
<1> QED
  BY <1>3, <1>4, <1>6, <1>7, <1>9

\* checkpoint, with the locals the runner goes on with.
LEMMA CheckpointCore ==
  ASSUME Core, NEW r \in Runner, loc[r].cur # NoRow, NEW row,
         Successor(row, loc[r].cur), NEW next \in Local,
         next.req = loc[r].req, next.pc # "idle",
         next.pc \in AboutPost \cup {"posted", "confirm"} => next.item \in Idx,
         Checkpoint(r, row, next)
  PROVE  /\ Core' /\ Grows(ledger, ledger')
         /\ \/ /\ Current(r)
               /\ ledger'[KeyAt(r)] = Bump(row)
               /\ loc' = [loc EXCEPT ![r] = [next EXCEPT !.cur = Bump(row)]]
            \/ loc' = [loc EXCEPT ![r] = Idle]
<1>1. CASE /\ Current(r)
           /\ ledger' = [ledger EXCEPT ![KeyAt(r)] = Bump(row)]
           /\ loc' = [loc EXCEPT ![r] = [next EXCEPT !.cur = Bump(row)]]
           /\ UNCHANGED lock
  <2> DEFINE x == [next EXCEPT !.cur = Bump(row)]
  <2>1. /\ RowsType(ledger') /\ Grows(ledger, ledger')
        /\ loc[r].req \in Request /\ KeyAt(r) \in Key
        /\ ledger'[KeyAt(r)] = Bump(row)
        /\ ledger[KeyAt(r)] = loc[r].cur
    BY <1>1, WriteGrows
  <2>2. Bump(row) \in SafeRow /\ Bump(row) \in Row /\ Bump(row).req = row.req
    BY BumpType DEF Successor, SafeRow
  <2>3. x \in Local /\ x.req = loc[r].req /\ x.cur = Bump(row)
        /\ x.pc = next.pc /\ x.item = next.item
    BY <2>2 DEF Local
  <2>4. LocalSafe(x)
    BY <2>1, <2>2, <2>3, NoRowAssumption DEF LocalSafe
  <2>5. loc[r].cur.req = loc[r].req
    BY DEF Core, Sees
  <2>6. Sees(x, ledger')
    <3>1. ledger'[KeyOf[x.req]] = x.cur
      BY <2>1, <2>3 DEF KeyAt
    <3>2. x.cur.req = x.req
      BY <2>2, <2>3, <2>5 DEF Successor
    <3>3. x.cur.rev <= x.cur.rev
      BY <2>2, <2>3 DEF Row
    <3> QED
      BY <3>1, <3>2, <3>3 DEF Sees
  <2>7. lock' \in [Parent -> Runner \cup {Nobody}]
    BY <1>1 DEF Core
  <2>8. Core' /\ Grows(ledger, ledger')
    BY <1>1, <2>1, <2>3, <2>4, <2>6, <2>7, LocalsCore
  <2> QED
    BY <1>1, <2>1, <2>8
<1>2. CASE ~Current(r) /\ Return(r) /\ UNCHANGED ledger
  BY <1>2, QuietReturnCore DEF Return
<1> QED
  BY <1>1, <1>2 DEF Checkpoint

\* The last checkpoint of a call.
LEMMA CheckpointAndReturnCore ==
  ASSUME Core, NEW r \in Runner, loc[r].cur # NoRow, NEW row,
         Successor(row, loc[r].cur), CheckpointAndReturn(r, row)
  PROVE  Core' /\ Grows(ledger, ledger') /\ loc' = [loc EXCEPT ![r] = Idle]
<1>1. CASE Current(r)
  <2>1. RowsType(ledger') /\ Grows(ledger, ledger')
    BY <1>1, WriteGrows DEF CheckpointAndReturn
  <2> QED
    BY <2>1, ReturnCore DEF CheckpointAndReturn, Return
<1>2. CASE ~Current(r)
  BY <1>2, QuietReturnCore DEF CheckpointAndReturn, Return
<1> QED
  BY <1>1, <1>2


\* Moving on without touching the ledger, to an ordinary place.
LEMMA GotoCore ==
  ASSUME Core, NEW r \in Runner, NEW pc \in PC, Goto(r, pc), UNCHANGED <<ledger, lock>>,
         loc[r].pc # "idle", pc \in BeforeRow \/ loc[r].pc \notin BeforeRow,
         pc \in AboutPost \cup {"posted", "confirm"} => loc[r].item \in Idx
  PROVE  /\ Core' /\ Grows(ledger, ledger')
         /\ loc' = [loc EXCEPT ![r] = [loc[r] EXCEPT !.pc = pc]]
<1> DEFINE x == [loc[r] EXCEPT !.pc = pc]
<1>1. loc \in [Runner -> Local] /\ LocalSafe(loc[r])
      /\ lock \in [Parent -> Runner \cup {Nobody}]
  BY DEF Core
<1>2. x \in Local /\ x.pc = pc /\ x.req = loc[r].req /\ x.cur = loc[r].cur
      /\ x.item = loc[r].item
  BY <1>1 DEF Local
<1>3. LocalSafe(x)
  BY <1>1, <1>2 DEF LocalSafe
<1>4. loc' = [loc EXCEPT ![r] = x]
  BY <1>1 DEF Goto, Local
<1> QED
  BY <1>1, <1>2, <1>3, <1>4, MoveCore

\* ensure_alive, in front of a write to the outside.
LEMMA EnsureAliveCore ==
  ASSUME Core, NEW r \in Runner, NEW pc \in PC, EnsureAlive(r, pc),
         loc[r].pc # "idle", loc[r].pc \notin BeforeRow,
         pc \in AboutPost \cup {"posted", "confirm"} => loc[r].item \in Idx
  PROVE  /\ Core' /\ Grows(ledger, ledger')
         /\ \/ loc' = [loc EXCEPT ![r] = [loc[r] EXCEPT !.pc = pc]]
            \/ loc' = [loc EXCEPT ![r] = Idle]
<1>1. CASE lock[ParentAt(r)] = r
  BY <1>1, GotoCore DEF EnsureAlive
<1>2. CASE lock[ParentAt(r)] # r
  BY <1>2, QuietReturnCore DEF EnsureAlive, Return
<1> QED
  BY <1>1, <1>2

\* What a runner knows of itself.
LEMMA Self ==
  ASSUME Core, NEW r \in Runner
  PROVE  /\ loc[r] \in Local
         /\ loc[r].pc # "idle" =>
              loc[r].req \in Request /\ KeyAt(r) \in Key /\ ParentAt(r) \in Parent
         /\ loc[r].pc \notin BeforeRow =>
              /\ loc[r].cur # NoRow /\ loc[r].cur \in Row
              /\ loc[r].cur \in SafeRow
              /\ loc[r].cur.req = loc[r].req
              /\ loc[r].pc # "idle"
              /\ ParentOf[loc[r].cur.req] \in Parent
         /\ loc[r].pc \in AboutPost \cup {"posted", "confirm"} =>
              loc[r].item \in Idx /\ SlotAt(r) \in Slot
<1>1. loc[r] \in Local /\ LocalSafe(loc[r]) /\ Sees(loc[r], ledger)
  BY DEF Core
<1>2. loc[r].pc # "idle" =>
        loc[r].req \in Request /\ KeyAt(r) \in Key /\ ParentAt(r) \in Parent
  BY <1>1, RequestAssumption DEF LocalSafe, KeyAt, ParentAt
<1>3. loc[r].pc \notin BeforeRow =>
        /\ loc[r].cur # NoRow /\ loc[r].cur \in Row
        /\ loc[r].cur \in SafeRow
        /\ loc[r].cur.req = loc[r].req
        /\ loc[r].pc # "idle"
        /\ loc[r].cur.req \in Request
  BY <1>1 DEF LocalSafe, Sees, Local, BeforeRow, Row
<1>4. loc[r].pc \in AboutPost \cup {"posted", "confirm"} =>
        loc[r].item \in Idx /\ loc[r].pc \notin BeforeRow
  BY <1>1 DEF LocalSafe, AboutPost, BeforeRow
<1>5. loc[r].pc \notin BeforeRow => ParentOf[loc[r].cur.req] \in Parent
  BY <1>3, RequestAssumption
<1>6. loc[r].pc \in AboutPost \cup {"posted", "confirm"} => SlotAt(r) \in Slot
  BY <1>3, <1>4 DEF SlotAt, Marker, Slot
<1> QED
  BY <1>1, <1>2, <1>3, <1>4, <1>5, <1>6

\* Rows that run() writes back are successors of the row it holds.
LEMMA ItemSuccessor ==
  ASSUME NEW row \in SafeRow, NEW i \in Idx, NEW ph, NEW man, NEW c,
         ItemArgs(ph, man, c), ph # "pending"
  PROVE  Successor(WithItem(row, i, ph, man, c), row)
<1> DEFINE new == WithItem(row, i, ph, man, c)
<1>1. new \in SafeRow /\ new.req = row.req /\ new.rev = row.rev
      /\ new.phase = [row.phase EXCEPT ![i] = ph]
  BY WithItemType
<1>2. \A j \in Idx : row.phase[j] # "pending" => new.phase[j] # "pending"
  BY <1>1 DEF SafeRow, Row
<1> QED
  BY <1>1, <1>2 DEF Successor

LEMMA RowSuccessor ==
  ASSUME NEW row \in SafeRow
  PROVE  /\ Successor(row, row)
         /\ \A target \in SUBSET Card :
              Successor([row EXCEPT !.target = target], row)
         /\ \A status \in Status :
              Successor([row EXCEPT !.status = status], row)
<1>1. Successor(row, row)
  BY DEF Successor
<1>2. ASSUME NEW target \in SUBSET Card
      PROVE  Successor([row EXCEPT !.target = target], row)
  BY DEF Successor, SafeRow, Row, ItemValid
<1>3. ASSUME NEW status \in Status
      PROVE  Successor([row EXCEPT !.status = status], row)
  BY DEF Successor, SafeRow, Row, ItemValid
<1> QED
  BY <1>1, <1>2, <1>3

----------------------------------------------------------------------------
(* Every action keeps Base, lets the rows grow and says who may post next. *)

\* the effect on everything but the slots
Step == Core' /\ Grows(ledger, ledger') /\ BoardType'

\* after the step, r is not about to post
NotAbout(r) == \E x : loc' = [loc EXCEPT ![r] = x] /\ x.pc \notin AboutPost

\* An idle runner is not about to post.
LEMMA IdleNotAbout ==
  ASSUME NEW r, loc' = [loc EXCEPT ![r] = Idle] PROVE NotAbout(r)
BY IdleType DEF NotAbout, AboutPost

\* Nor is one that has moved to an ordinary place.
LEMMA GotoNotAbout ==
  ASSUME NEW r \in Runner, loc[r] \in Local, NEW pc, pc \notin AboutPost,
         loc' = [loc EXCEPT ![r] = [loc[r] EXCEPT !.pc = pc]]
  PROVE  NotAbout(r)
<1>1. [loc[r] EXCEPT !.pc = pc].pc = pc
  BY DEF Local
<1> QED
  BY <1>1 DEF NotAbout


\* The board and the disturbances, where a step leaves the board alone.
LEMMA BoardKept ==
  ASSUME BoardType, UNCHANGED boardVars,
         UNCHANGED disturbances \/ \E kind : Disturb(kind)
  PROVE  BoardType'
<1>1. disturbances' \in 0..MaxDisturbances
  BY BoundAssumption DEF BoardType, Disturb
<1> QED
  BY <1>1 DEF BoardType, boardVars

\* Leaving run() without a write.
LEMMA QuietReturn ==
  ASSUME Core, NEW r \in Runner, Return(r), UNCHANGED ledger
  PROVE  Core' /\ Grows(ledger, ledger') /\ NotAbout(r)
BY QuietReturnCore, IdleNotAbout DEF Return

\* Leaving run() after a last checkpoint.
LEMMA LastCheckpoint ==
  ASSUME Core, NEW r \in Runner, NEW row, loc[r].pc \notin BeforeRow,
         Successor(row, loc[r].cur), CheckpointAndReturn(r, row)
  PROVE  Core' /\ Grows(ledger, ledger') /\ NotAbout(r)
BY Self, CheckpointAndReturnCore, IdleNotAbout

\* Going to a place where nothing is posted.
LEMMA PlainGoto ==
  ASSUME Core, NEW r \in Runner, NEW pc \in PC, Goto(r, pc), UNCHANGED <<ledger, lock>>,
         loc[r].pc # "idle", pc \in BeforeRow \/ loc[r].pc \notin BeforeRow,
         pc \notin AboutPost,
         pc \in {"posted", "confirm"} => loc[r].item \in Idx
  PROVE  Core' /\ Grows(ledger, ledger') /\ NotAbout(r)
<1>1. /\ Core' /\ Grows(ledger, ledger')
      /\ loc' = [loc EXCEPT ![r] = [loc[r] EXCEPT !.pc = pc]]
  BY GotoCore
<1> QED
  BY <1>1, Self, GotoNotAbout

\* A checkpoint after which the runner is not about to post.
LEMMA PlainCheckpoint ==
  ASSUME Core, NEW r \in Runner, loc[r].pc \notin BeforeRow, NEW row,
         Successor(row, loc[r].cur), NEW next \in Local,
         next.req = loc[r].req, next.pc # "idle",
         next.pc \notin AboutPost \cup {"posted", "confirm"},
         Checkpoint(r, row, next)
  PROVE  Core' /\ Grows(ledger, ledger') /\ NotAbout(r)
<1>1. /\ Core' /\ Grows(ledger, ledger')
      /\ \/ loc' = [loc EXCEPT ![r] = [next EXCEPT !.cur = Bump(row)]]
         \/ loc' = [loc EXCEPT ![r] = Idle]
  BY Self, CheckpointCore
<1>2. [next EXCEPT !.cur = Bump(row)].pc \notin AboutPost
  BY DEF Local
<1> QED
  BY <1>1, <1>2, IdleNotAbout DEF NotAbout

\* A move with new locals to a place where nothing is posted.
LEMMA PlainMove ==
  ASSUME Core, NEW r \in Runner, loc[r].pc \notin BeforeRow, NEW x \in Local,
         loc' = [loc EXCEPT ![r] = x], UNCHANGED <<ledger, lock>>,
         x.req = loc[r].req, x.cur = loc[r].cur, x.pc # "idle",
         x.pc \notin AboutPost,
         x.pc \in {"posted", "confirm"} => x.item \in Idx
  PROVE  Core' /\ Grows(ledger, ledger') /\ NotAbout(r)
<1>1. LocalSafe(x)
  BY Self DEF LocalSafe
<1>2. lock' \in [Parent -> Runner \cup {Nobody}]
  BY DEF Core
<1> QED
  BY <1>1, <1>2, MoveCore DEF NotAbout

\* The steps before the parent lock, and the lock.
LEMMA PreflightStep ==
  ASSUME Base, NEW r \in Runner,
         Load(r) \/ FetchParent(r) \/ LateLoad(r) \/ TryParentLock(r)
  PROVE  Step /\ NotAbout(r)
<1> USE DEF BeforeRow, AboutPost, PC
<1>1. ASSUME Evaluate(r), loc[r].pc # "idle"
      PROVE  Core' /\ Grows(ledger, ledger') /\ NotAbout(r)
  <2>1. CASE Goto(r, "lock") /\ UNCHANGED <<ledger, lock>>
    BY <1>1, <2>1, PlainGoto DEF Base
  <2>2. CASE Return(r) /\ UNCHANGED ledger
    BY <2>2, QuietReturn DEF Base
  <2> QED
    BY <1>1, <2>1, <2>2 DEF Evaluate
<1>2. UNCHANGED boardVars /\ (UNCHANGED disturbances \/ \E kind : Disturb(kind))
  BY DEF Load, FetchParent, LateLoad, TryParentLock, Evaluate
<1> SUFFICES Core' /\ Grows(ledger, ledger') /\ NotAbout(r)
  BY <1>2, BoardKept DEF Base, Step
<1>3. CASE Load(r)
  <2>1. CASE Evaluate(r)
    BY <1>3, <2>1, <1>1 DEF Load
  <2>2. CASE Goto(r, "fetchParent") /\ UNCHANGED <<ledger, lock>>
    BY <1>3, <2>2, PlainGoto DEF Base, Load
  <2> QED
    BY <1>3, <2>1, <2>2 DEF Load
<1>4. CASE FetchParent(r)
  <2>1. CASE Goto(r, "lockFresh") /\ UNCHANGED <<ledger, lock>>
    BY <1>4, <2>1, PlainGoto DEF Base, FetchParent
  <2>2. CASE Goto(r, "late") /\ UNCHANGED <<ledger, lock>>
    BY <1>4, <2>2, PlainGoto DEF Base, FetchParent
  <2>3. CASE Return(r) /\ UNCHANGED ledger
    BY <2>3, QuietReturn DEF Base
  <2> QED
    BY <1>4, <2>1, <2>2, <2>3 DEF FetchParent
<1>5. CASE LateLoad(r)
  <2>1. CASE Evaluate(r)
    BY <1>5, <2>1, <1>1 DEF LateLoad
  <2>2. CASE Return(r) /\ UNCHANGED ledger
    BY <2>2, QuietReturn DEF Base
  <2> QED
    BY <1>5, <2>1, <2>2 DEF LateLoad
<1>6. CASE TryParentLock(r)
  <2>1. CASE lock[ParentAt(r)] = Nobody
    <3> DEFINE pc == IF loc[r].pc = "lock" THEN "reload" ELSE "reloadFresh"
               x == [loc[r] EXCEPT !.pc = pc]
    <3>1. loc[r] \in Local /\ LocalSafe(loc[r])
          /\ loc[r].pc \in {"lock", "lockFresh"}
      BY <1>6 DEF Base, Core, TryParentLock
    <3>2. loc' = [loc EXCEPT ![r] = x]
      BY <1>6, <2>1 DEF Base, Core, TryParentLock, Goto, Local
    <3> HIDE DEF pc
    <3>3. x \in Local /\ x.pc = pc /\ x.req = loc[r].req /\ x.cur = loc[r].cur
      BY <3>1 DEF Local, pc
    <3> HIDE DEF x
    <3>0. pc \in {"reload", "reloadFresh"} /\ LocalSafe(x)
      BY <3>1, <3>3 DEF LocalSafe, pc
    <3>4. lock' \in [Parent -> Runner \cup {Nobody}] /\ ledger' = ledger
      BY <1>6, <2>1 DEF Base, Core, TryParentLock
    <3>5. Core' /\ Grows(ledger, ledger')
      BY <3>0, <3>2, <3>3, <3>4, MoveCore DEF Base
    <3>6. NotAbout(r)
      BY <3>0, <3>2, <3>3 DEF NotAbout
    <3> QED
      BY <3>5, <3>6
  <2>2. CASE lock[ParentAt(r)] # Nobody
    BY <1>6, <2>2, QuietReturn DEF Base, TryParentLock
  <2> QED
    BY <2>1, <2>2
<1> QED
  BY <1>3, <1>4, <1>5, <1>6

\* The second look into the ledger and the insert, under the parent lock.
LEMMA OpenRowStep ==
  ASSUME Base, NEW r \in Runner, Reload(r) \/ Insert(r)
  PROVE  Step /\ NotAbout(r)
<1> USE DEF BeforeRow, AboutPost, PC
<1>1. UNCHANGED boardVars /\ UNCHANGED disturbances
  BY DEF Reload, Insert
<1> SUFFICES Core' /\ Grows(ledger, ledger') /\ NotAbout(r)
  BY <1>1, BoardKept DEF Base, Step
<1>2. /\ loc[r].pc \in {"reload", "reloadFresh", "insert"}
      /\ loc[r] \in Local /\ loc[r].req \in Request /\ KeyAt(r) \in Key
      /\ RowsType(ledger) /\ lock \in [Parent -> Runner \cup {Nobody}]
      /\ loc \in [Runner -> Local]
  BY Self DEF Reload, Insert, Base, Core
<1>3. CASE Reload(r)
  <2> DEFINE row == ledger[KeyAt(r)]
             pc == EntryPoint(row)
             x == [loc[r] EXCEPT !.cur = row, !.pc = pc]
  <2>1. CASE Goto(r, "insert") /\ UNCHANGED <<ledger, lock>>
    BY <1>2, <2>1, PlainGoto DEF Base
  <2>2. CASE Return(r) /\ UNCHANGED ledger
    BY <2>2, QuietReturn DEF Base
  <2>3. CASE /\ row # NoRow /\ Resumable(row, loc[r].req)
             /\ loc' = [loc EXCEPT ![r].cur = row, ![r].pc = EntryPoint(row)]
             /\ UNCHANGED <<ledger, lock>>
    <3>1. row \in SafeRow /\ row \in Row /\ row.req = loc[r].req /\ row.rev \in Nat
      BY <1>2, <2>3 DEF RowsType, Resumable, SafeRow, Row
    <3>2. pc \in {"verify", "scan", "items"}
      BY DEF EntryPoint
    <3>3. loc' = [loc EXCEPT ![r] = x]
      BY <1>2, <2>3 DEF Local
    <3> HIDE DEF pc
    <3>4. x \in Local /\ x.pc = pc /\ x.cur = row /\ x.req = loc[r].req
      BY <1>2, <3>1, <3>2 DEF Local
    <3> HIDE DEF x
    <3>5. LocalSafe(x)
      BY <1>2, <2>3, <3>1, <3>2, <3>4 DEF LocalSafe
    <3>6. Sees(x, ledger')
      BY <1>2, <2>3, <3>1, <3>4 DEF Sees, KeyAt
    <3>7. RowsType(ledger') /\ Grows(ledger, ledger')
      BY <1>2, <2>3, GrowsSame
    <3>8. lock' \in [Parent -> Runner \cup {Nobody}]
      BY <1>2, <2>3
    <3>9. Core' /\ Grows(ledger, ledger')
      BY <3>3, <3>4, <3>5, <3>6, <3>7, <3>8, LocalsCore DEF Base
    <3> QED
      BY <3>2, <3>3, <3>4, <3>9 DEF NotAbout
  <2> QED
    BY <1>3, <2>1, <2>2, <2>3 DEF Reload
<1>4. CASE Insert(r)
  <2>1. CASE ledger[KeyAt(r)] = NoRow
    <3> DEFINE row == FreshOperation(loc[r].req)
               x == [loc[r] EXCEPT !.cur = row, !.pc = "items"]
    <3>1. row \in SafeRow /\ row \in Row
      BY <1>2, FreshOperationType DEF SafeRow
    <3>2. row.req = loc[r].req /\ row.rev = 0
      BY DEF FreshOperation
    <3>3. /\ ledger' = [ledger EXCEPT ![KeyAt(r)] = row]
          /\ loc' = [loc EXCEPT ![r].cur = row, ![r].pc = "items"]
          /\ UNCHANGED lock
      BY <1>4, <2>1 DEF Insert
    <3> HIDE DEF row
    <3>4. loc' = [loc EXCEPT ![r] = x]
      BY <1>2, <3>3 DEF Local
    <3>5. x \in Local /\ x.pc = "items" /\ x.cur = row /\ x.req = loc[r].req
      BY <1>2, <3>1 DEF Local
    <3> HIDE DEF x
    <3>6. LocalSafe(x)
      BY <1>2, <3>1, <3>5, NoRowAssumption DEF LocalSafe
    <3>7. ledger'[KeyAt(r)] = row
          /\ \A k \in Key \ {KeyAt(r)} : ledger'[k] = ledger[k]
      BY <1>2, <3>3 DEF RowsType
    <3>8. Sees(x, ledger')
      BY <3>1, <3>2, <3>5, <3>7, NoRowAssumption DEF Sees, KeyAt
    <3>9. RowsType(ledger') /\ Grows(ledger, ledger')
      BY <1>2, <2>1, <3>1, <3>3, <3>7 DEF RowsType, Grows
    <3>10. lock' \in [Parent -> Runner \cup {Nobody}]
      BY <1>2, <3>3
    <3>11. Core' /\ Grows(ledger, ledger')
      BY <3>4, <3>5, <3>6, <3>8, <3>9, <3>10, LocalsCore DEF Base
    <3> QED
      BY <3>4, <3>5, <3>11 DEF NotAbout
  <2>2. CASE ledger[KeyAt(r)] # NoRow
    BY <1>2, <1>4, <2>2, PlainGoto DEF Base, Insert
  <2> QED
    BY <2>1, <2>2
<1> QED
  BY <1>3, <1>4

\* In-flight items of an earlier run.
LEMMA ReconcileStep ==
  ASSUME Base, NEW r \in Runner, ScanMarkers(r) \/ Reconcile(r)
  PROVE  Step /\ NotAbout(r)
<1> USE DEF BeforeRow, AboutPost, PC
<1>1. UNCHANGED boardVars /\ (UNCHANGED disturbances \/ \E kind : Disturb(kind))
  BY DEF ScanMarkers, Reconcile
<1> SUFFICES Core' /\ Grows(ledger, ledger') /\ NotAbout(r)
  BY <1>1, BoardKept DEF Base, Step
<1>2. /\ loc[r].pc \in {"scan", "reconcile"} /\ loc[r] \in Local
      /\ loc[r].cur \in SafeRow /\ loc[r].req \in Request
      /\ loc[r].cur \in Row /\ loc \in [Runner -> Local]
      /\ loc[r].found \in [Idx -> Card \cup {NoCard}]
  BY Self DEF ScanMarkers, Reconcile, Base, Core, Local
<1>3. CASE ScanMarkers(r)
  <2> DEFINE match(i) == CardsMarked(Marker(loc[r].cur.req, i))
             found == [i \in Idx |->
               IF /\ loc[r].cur.phase[i] = "in_flight"
                  /\ \E c \in Card : match(i) = {c}
               THEN CHOOSE c \in match(i) : TRUE ELSE NoCard]
             x == [loc[r] EXCEPT !.pc = "reconcile", !.found = found]
  <2>1. CASE /\ loc' = [loc EXCEPT ![r].pc = "reconcile", ![r].found = found]
             /\ UNCHANGED <<ledger, lock>>
    <3>1. found \in [Idx -> Card \cup {NoCard}]
      <4>1. ASSUME NEW i \in Idx, NEW c \in Card, match(i) = {c}
            PROVE  (CHOOSE d \in match(i) : TRUE) \in Card
        BY <4>1
      <4> QED
        BY <4>1
    <3> HIDE DEF found
    <3>2. loc' = [loc EXCEPT ![r] = x]
      BY <1>2, <2>1 DEF Local
    <3>3. x \in Local /\ x.pc = "reconcile" /\ x.req = loc[r].req
          /\ x.cur = loc[r].cur
      BY <1>2, <3>1 DEF Local
    <3> HIDE DEF x
    <3> QED
      BY <1>2, <2>1, <3>2, <3>3, PlainMove DEF Base
  <2>2. CASE Goto(r, "reconcile") /\ UNCHANGED <<ledger, lock>>
    BY <1>2, <2>2, PlainGoto DEF Base
  <2>3. CASE CheckpointAndReturn(r, loc[r].cur)
    BY <1>2, <1>3, <2>3, RowSuccessor, LastCheckpoint DEF Base, ScanMarkers
  <2> QED
    BY <1>3, <2>1, <2>2, <2>3 DEF ScanMarkers
<1>4. CASE Reconcile(r)
  <2> DEFINE me == loc[r]
             todo == {i \in InPhase(me.cur, {"in_flight"}) : i > me.item}
             x == [Idle EXCEPT !.pc = "items", !.req = me.req, !.cur = me.cur]
  <2>1. ASSUME NEW i \in Idx,
               Checkpoint(r, Reconciled(me, i), [me EXCEPT !.item = i])
        PROVE  Core' /\ Grows(ledger, ledger') /\ NotAbout(r)
    <3>1. Successor(Reconciled(me, i), me.cur)
      <4>1. me.found[i] \in Card \cup {NoCard}
        BY <1>2
      <4>2. me.found[i] # NoCard => ItemArgs("created", FALSE, me.found[i])
        BY <4>1 DEF Phase, ItemArgs
      <4>3. ItemArgs("in_flight", TRUE, NoCard)
        BY DEF Phase, ItemArgs
      <4> QED
        BY <1>2, <4>2, <4>3, ItemSuccessor DEF Reconciled
    <3>2. [me EXCEPT !.item = i] \in Local /\ [me EXCEPT !.item = i].pc = me.pc
          /\ [me EXCEPT !.item = i].req = me.req
      BY <1>2 DEF Local
    <3> QED
      BY <1>2, <1>4, <2>1, <3>1, <3>2, PlainCheckpoint DEF Base, Reconcile
  <2>2. CASE loc' = [loc EXCEPT ![r] = x] /\ UNCHANGED <<ledger, lock>>
    <3>1. x \in Local /\ x.pc = "items" /\ x.req = me.req /\ x.cur = me.cur
      BY <1>2, IdleType DEF Local
    <3> HIDE DEF x
    <3> QED
      BY <1>2, <2>2, <3>1, PlainMove DEF Base
  <2> QED
    BY <1>4, <2>1, <2>2 DEF Reconcile
<1> QED
  BY <1>3, <1>4

\* Writes still under way keep their shape when their sender gives up.
LEMMA OrphanedType ==
  ASSUME NEW r \in Runner
  PROVE  /\ posts \subseteq Post => Orphaned(posts, r) \subseteq Post
         /\ puts \subseteq Put => Orphaned(puts, r) \subseteq Put
BY DEF Orphaned, Post, Put

\* Announcing a POST.
LEMMA MarkInFlightStep ==
  ASSUME Base, NEW r \in Runner, MarkInFlight(r)
  PROVE  /\ Step
         /\ \/ NotAbout(r)
            \/ \E i \in Idx :
                 /\ Current(r)
                 /\ loc[r].cur.phase[i] = "pending"
                 /\ LET row == Bump(WithItem(loc[r].cur, i, "in_flight", FALSE, NoCard))
                    IN  /\ ledger'[KeyAt(r)] = row
                        /\ loc' = [loc EXCEPT ![r] =
                             [loc[r] EXCEPT !.pc = "checkPost", !.item = i, !.cur = row]]
<1> USE DEF BeforeRow, AboutPost, PC
<1>1. UNCHANGED boardVars /\ UNCHANGED disturbances
  BY DEF MarkInFlight
<1>2. /\ loc[r].pc = "items" /\ loc[r] \in Local /\ loc[r].cur # NoRow
      /\ loc[r].cur \in SafeRow /\ loc[r].req \in Request
      /\ loc[r].cur \in Row
  BY Self DEF MarkInFlight, Base
<1>3. PICK i \in Idx :
        /\ loc[r].cur.phase[i] = "pending"
        /\ Checkpoint(r, WithItem(loc[r].cur, i, "in_flight", FALSE, NoCard),
                      [loc[r] EXCEPT !.pc = "checkPost", !.item = i])
  BY DEF MarkInFlight, First, InPhase
<1> DEFINE row == WithItem(loc[r].cur, i, "in_flight", FALSE, NoCard)
           next == [loc[r] EXCEPT !.pc = "checkPost", !.item = i]
<1>4. next \in Local /\ next.pc = "checkPost" /\ next.item = i
      /\ next.req = loc[r].req
  BY <1>2 DEF Local
<1>5. Successor(row, loc[r].cur)
  <2>1. ItemArgs("in_flight", FALSE, NoCard)
    BY DEF ItemArgs, Phase
  <2> QED
    BY <1>2, <2>1, ItemSuccessor
<1>6. Checkpoint(r, row, next)
  BY <1>3
<1>7. [next EXCEPT !.cur = Bump(row)] =
        [loc[r] EXCEPT !.pc = "checkPost", !.item = i, !.cur = Bump(row)]
  BY <1>2 DEF Local
<1> HIDE DEF row, next
<1>8. /\ Core' /\ Grows(ledger, ledger')
      /\ \/ /\ Current(r)
            /\ ledger'[KeyAt(r)] = Bump(row)
            /\ loc' = [loc EXCEPT ![r] = [next EXCEPT !.cur = Bump(row)]]
         \/ loc' = [loc EXCEPT ![r] = Idle]
  BY <1>2, <1>4, <1>5, <1>6, CheckpointCore DEF Base
<1>9. Step
  BY <1>1, <1>8, BoardKept DEF Base, Step
<1> QED
  BY <1>3, <1>7, <1>8, <1>9, IdleNotAbout DEF row

\* The lock is checked once more before the POST.
LEMMA CheckBeforePostStep ==
  ASSUME Base, NEW r \in Runner, CheckBeforePost(r)
  PROVE  /\ Step
         /\ NotAbout(r) \/ loc' = [loc EXCEPT ![r] = [loc[r] EXCEPT !.pc = "post"]]
<1> USE DEF BeforeRow, AboutPost, PC
<1>1. /\ Core' /\ Grows(ledger, ledger')
      /\ \/ loc' = [loc EXCEPT ![r] = [loc[r] EXCEPT !.pc = "post"]]
         \/ loc' = [loc EXCEPT ![r] = Idle]
  BY Self, EnsureAliveCore DEF CheckBeforePost, Base
<1>2. UNCHANGED boardVars /\ UNCHANGED disturbances
  BY DEF CheckBeforePost, EnsureAlive
<1> QED
  BY <1>1, <1>2, BoardKept, IdleNotAbout DEF Base, Step

\* The POST, its answer, and the checkpoint of its outcome.
LEMMA PostStep ==
  ASSUME Base, NEW r \in Runner,
         SendPost(r) \/ PostReturns(r) \/ PostFails(r) \/ RecordPost(r)
  PROVE  Step /\ NotAbout(r)
<1> USE DEF BeforeRow, AboutPost, PC
<1>1. /\ loc[r].pc \in {"post", "posted", "confirm"} /\ loc[r] \in Local
      /\ loc[r].item \in Idx /\ SlotAt(r) \in Slot
      /\ loc[r].cur \in SafeRow /\ loc[r].req \in Request
      /\ loc[r].cur \in Row /\ loc \in [Runner -> Local]
      /\ loc[r].found \in [Idx -> Card \cup {NoCard}]
  BY Self DEF SendPost, PostReturns, PostFails, RecordPost, Base, Core, Local
<1>2. CASE SendPost(r)
  <2>1. Core' /\ Grows(ledger, ledger') /\ NotAbout(r)
    BY <1>1, <1>2, PlainGoto DEF Base, SendPost
  <2>2. posts' \subseteq Post
    BY <1>1, <1>2 DEF SendPost, Base, BoardType, Post
  <2>3. BoardType'
    BY <1>2, <2>2 DEF SendPost, Base, BoardType
  <2> QED
    BY <2>1, <2>3 DEF Step
<1>3. CASE PostReturns(r)
  <2>1. PICK c \in Card :
          loc' = [loc EXCEPT ![r].pc = "confirm", ![r].found[loc[r].item] = c]
    BY <1>3 DEF PostReturns, CardsMarked
  <2> DEFINE found == [loc[r].found EXCEPT ![loc[r].item] = c]
             x == [loc[r] EXCEPT !.pc = "confirm", !.found = found]
  <2>2. found \in [Idx -> Card \cup {NoCard}]
    BY <1>1
  <2>3. loc' = [loc EXCEPT ![r] = x]
    BY <1>1, <2>1 DEF Local
  <2> HIDE DEF found
  <2>4. x \in Local /\ x.pc = "confirm" /\ x.req = loc[r].req
        /\ x.cur = loc[r].cur /\ x.item = loc[r].item
    BY <1>1, <2>2 DEF Local
  <2> HIDE DEF x
  <2>5. UNCHANGED <<ledger, lock>> /\ UNCHANGED boardVars /\ UNCHANGED disturbances
        /\ loc[r].pc = "posted"
    BY <1>3 DEF PostReturns
  <2> QED
    BY <1>1, <2>3, <2>4, <2>5, PlainMove, BoardKept DEF Base, Step
<1>4. CASE PostFails(r)
  <2>1. Core' /\ Grows(ledger, ledger') /\ NotAbout(r)
    BY <1>1, <1>4, PlainGoto DEF Base, PostFails
  <2>2. posts' \subseteq Post
    BY <1>4, OrphanedType DEF PostFails, Base, BoardType
  <2>3. disturbances' \in 0..MaxDisturbances
    BY <1>4, BoundAssumption DEF PostFails, Disturb, Base, BoardType
  <2>4. BoardType'
    BY <1>4, <2>2, <2>3 DEF PostFails, Base, BoardType
  <2> QED
    BY <2>1, <2>4 DEF Step
<1>5. CASE RecordPost(r)
  <2> DEFINE me == loc[r]
             c == me.found[me.item]
             row == IF c # NoCard THEN WithItem(me.cur, me.item, "created", FALSE, c)
                    ELSE WithItem(me.cur, me.item, "in_flight", TRUE, NoCard)
             next == [Idle EXCEPT !.pc = "items", !.req = me.req]
  <2>1. c \in Card \cup {NoCard}
    BY <1>1
  <2>2. Successor(row, me.cur)
    <3>1. /\ c # NoCard => ItemArgs("created", FALSE, c)
          /\ ItemArgs("in_flight", TRUE, NoCard)
      BY <2>1 DEF ItemArgs, Phase
    <3> QED
      BY <1>1, <3>1, ItemSuccessor
  <2>3. next \in Local /\ next.pc = "items" /\ next.req = me.req
    BY <1>1, IdleType DEF Local
  <2>4. Checkpoint(r, row, next) /\ me.pc = "confirm"
        /\ UNCHANGED boardVars /\ UNCHANGED disturbances
    BY <1>5 DEF RecordPost
  <2> HIDE DEF row, next
  <2> QED
    BY <2>2, <2>3, <2>4, PlainCheckpoint, BoardKept DEF Base, Step
<1> QED
  BY <1>2, <1>3, <1>4, <1>5

\* The identities of confirmed items are cards.
LEMMA ConfirmedType ==
  ASSUME NEW row \in SafeRow
  PROVE  ConfirmedCards(row) \in SUBSET Card
<1>1. ASSUME NEW i \in Confirmed(row) PROVE row.card[i] \in Card
  BY DEF Confirmed, InPhase, SafeRow, Row, ItemValid
<1> QED
  BY <1>1 DEF ConfirmedCards

\* The attachment: first read, target, PUT, second read.
LEMMA AttachStep ==
  ASSUME Base, NEW r \in Runner,
         \/ FetchBefore(r) \/ AttachTarget(r) \/ CheckBeforePut(r) \/ SendPut(r)
         \/ PutReturns(r) \/ PutFails(r) \/ FetchAfter(r)
  PROVE  Step /\ NotAbout(r)
<1> USE DEF BeforeRow, AboutPost, PC
<1>1. /\ loc[r].pc \in {"items", "attach", "checkPut", "put", "putSent", "refetch"}
      /\ loc[r] \in Local /\ loc[r].cur \in SafeRow /\ loc[r].req \in Request
      /\ ParentAt(r) \in Parent /\ ParentOf[loc[r].cur.req] \in Parent
      /\ loc \in [Runner -> Local] /\ loc[r].cur.target \in SUBSET Card
      /\ loc[r].snap \in SUBSET Card
      /\ subs \in [Parent -> SUBSET Card] /\ subs[ParentAt(r)] \in SUBSET Card
  BY Self DEF FetchBefore, AttachTarget, CheckBeforePut, SendPut, PutReturns,
              PutFails, FetchAfter, Base, Core, BoardType, Local, Row
<1>2. ASSUME NEW pc \in {"attach", "settle"},
             loc' = [loc EXCEPT ![r].pc = pc, ![r].snap = subs[ParentAt(r)]],
             UNCHANGED <<ledger, lock>>
      PROVE  Core' /\ Grows(ledger, ledger') /\ NotAbout(r)
  <2> DEFINE x == [loc[r] EXCEPT !.pc = pc, !.snap = subs[ParentAt(r)]]
  <2>1. loc' = [loc EXCEPT ![r] = x]
    BY <1>1, <1>2 DEF Local
  <2>2. x \in Local /\ x.pc = pc /\ x.req = loc[r].req /\ x.cur = loc[r].cur
    BY <1>1, <1>2 DEF Local
  <2> HIDE DEF x
  <2> QED
    BY <1>1, <1>2, <2>1, <2>2, PlainMove DEF Base
<1>3. ASSUME CheckpointAndReturn(r, loc[r].cur)
      PROVE  Core' /\ Grows(ledger, ledger') /\ NotAbout(r)
  BY <1>1, <1>3, RowSuccessor, LastCheckpoint DEF Base
<1>4. CASE FetchBefore(r)
  <2>1. UNCHANGED boardVars /\ (UNCHANGED disturbances \/ \E kind : Disturb(kind))
    BY <1>4 DEF FetchBefore
  <2>2. ASSUME Return(r) /\ UNCHANGED ledger
        PROVE  Core' /\ Grows(ledger, ledger') /\ NotAbout(r)
    BY <2>2, QuietReturn DEF Base
  <2>3. Core' /\ Grows(ledger, ledger') /\ NotAbout(r)
    BY <1>2, <1>3, <1>4, <2>2 DEF FetchBefore
  <2> QED
    BY <2>1, <2>3, BoardKept DEF Base, Step
<1>5. CASE AttachTarget(r)
  <2> DEFINE union == ExactUnion(loc[r])
             row == [loc[r].cur EXCEPT !.target = union]
  <2>1. union \in SUBSET Card
    BY <1>1, ConfirmedType DEF ExactUnion
  <2>2. Successor(row, loc[r].cur)
    BY <1>1, <2>1, RowSuccessor
  <2>3. PICK put \in BOOLEAN :
          LET next == [loc[r] EXCEPT !.pc = IF put THEN "checkPut" ELSE "settle"]
          IN  IF union # loc[r].cur.target
              THEN Checkpoint(r, row, next)
              ELSE loc' = [loc EXCEPT ![r] = next] /\ UNCHANGED <<ledger, lock>>
    BY <1>5 DEF AttachTarget
  <2> DEFINE pc == IF put THEN "checkPut" ELSE "settle"
             next == [loc[r] EXCEPT !.pc = pc]
  <2>4. pc \in {"checkPut", "settle"}
    OBVIOUS
  <2> HIDE DEF pc
  <2>5. next \in Local /\ next.pc = pc /\ next.req = loc[r].req
        /\ next.cur = loc[r].cur
    BY <1>1, <2>4 DEF Local
  <2> HIDE DEF row, union
  <2>6. \/ Checkpoint(r, row, next)
        \/ loc' = [loc EXCEPT ![r] = next] /\ UNCHANGED <<ledger, lock>>
    BY <2>3 DEF pc
  <2> HIDE DEF next
  <2>7. loc[r].pc \notin BeforeRow /\ UNCHANGED boardVars /\ UNCHANGED disturbances
    BY <1>5 DEF AttachTarget
  <2>8. CASE Checkpoint(r, row, next)
    BY <2>2, <2>4, <2>5, <2>7, <2>8, PlainCheckpoint, BoardKept DEF Base, Step
  <2>9. CASE loc' = [loc EXCEPT ![r] = next] /\ UNCHANGED <<ledger, lock>>
    BY <2>4, <2>5, <2>7, <2>9, PlainMove, BoardKept DEF Base, Step
  <2> QED
    BY <2>6, <2>8, <2>9
<1>6. CASE CheckBeforePut(r)
  <2>1. Core' /\ Grows(ledger, ledger')
        /\ \/ loc' = [loc EXCEPT ![r] = [loc[r] EXCEPT !.pc = "put"]]
           \/ loc' = [loc EXCEPT ![r] = Idle]
    BY <1>1, <1>6, EnsureAliveCore DEF CheckBeforePut, Base
  <2>2. NotAbout(r)
    BY <1>1, <2>1, IdleNotAbout, GotoNotAbout
  <2>3. UNCHANGED boardVars /\ UNCHANGED disturbances
    BY <1>6 DEF CheckBeforePut, EnsureAlive
  <2> QED
    BY <2>1, <2>2, <2>3, BoardKept DEF Base, Step
<1>7. CASE SendPut(r)
  <2>1. Core' /\ Grows(ledger, ledger') /\ NotAbout(r)
    BY <1>1, <1>7, PlainGoto DEF Base, SendPut
  <2>2. puts' \subseteq Put
    BY <1>1, <1>7 DEF SendPut, Base, BoardType, Put, MyPut
  <2>3. BoardType'
    BY <1>7, <2>2 DEF SendPut, Base, BoardType
  <2> QED
    BY <2>1, <2>3 DEF Step
<1>8. CASE PutReturns(r)
  BY <1>1, <1>8, PlainGoto, BoardKept DEF Base, PutReturns, Step
<1>9. CASE PutFails(r)
  <2>1. Core' /\ Grows(ledger, ledger') /\ NotAbout(r)
    BY <1>3, <1>9 DEF PutFails
  <2>2. puts' \subseteq Put
    BY <1>9, OrphanedType DEF PutFails, Base, BoardType
  <2>3. disturbances' \in 0..MaxDisturbances
    BY <1>9, BoundAssumption DEF PutFails, Disturb, Base, BoardType
  <2>4. BoardType'
    BY <1>9, <2>2, <2>3 DEF PutFails, Base, BoardType
  <2> QED
    BY <2>1, <2>4 DEF Step
<1>10. CASE FetchAfter(r)
  <2>1. UNCHANGED boardVars /\ (UNCHANGED disturbances \/ \E kind : Disturb(kind))
    BY <1>10 DEF FetchAfter
  <2>2. Core' /\ Grows(ledger, ledger') /\ NotAbout(r)
    BY <1>2, <1>3, <1>10 DEF FetchAfter
  <2> QED
    BY <2>1, <2>2, BoardKept DEF Base, Step
<1> QED
  BY <1>4, <1>5, <1>6, <1>7, <1>8, <1>9, <1>10

\* Settling the phases, the write-through and the end of the operation.
LEMMA FinishStep ==
  ASSUME Base, NEW r \in Runner,
         \/ SettlePhase(r) \/ BoardComplete(r) \/ VerifyParent(r)
         \/ CheckBeforeIndex(r) \/ WriteThrough(r) \/ CheckBeforeComplete(r)
         \/ Complete(r)
  PROVE  Step /\ NotAbout(r)
<1> USE DEF BeforeRow, AboutPost, PC
<1>1. /\ loc[r].pc \in {"settle", "verify", "checkIndex", "index",
                        "checkComplete", "complete"}
      /\ loc[r] \in Local /\ loc[r].cur \in SafeRow /\ loc[r].req \in Request
  BY Self DEF SettlePhase, BoardComplete, VerifyParent, CheckBeforeIndex,
              WriteThrough, CheckBeforeComplete, Complete, Base
<1>2. ASSUME CheckpointAndReturn(r, loc[r].cur)
      PROVE  Core' /\ Grows(ledger, ledger') /\ NotAbout(r)
  BY <1>1, <1>2, RowSuccessor, LastCheckpoint DEF Base
<1>3. ASSUME Return(r) /\ UNCHANGED ledger
      PROVE  Core' /\ Grows(ledger, ledger') /\ NotAbout(r)
  BY <1>3, QuietReturn DEF Base
<1>4. ASSUME NEW pc \in PC \ AboutPost, EnsureAlive(r, pc),
             pc \notin BeforeRow \cup {"posted", "confirm"}
      PROVE  Step /\ NotAbout(r)
  <2>1. Core' /\ Grows(ledger, ledger')
        /\ \/ loc' = [loc EXCEPT ![r] = [loc[r] EXCEPT !.pc = pc]]
           \/ loc' = [loc EXCEPT ![r] = Idle]
    BY <1>1, <1>4, EnsureAliveCore DEF Base
  <2>2. NotAbout(r)
    BY <1>1, <1>4, <2>1, IdleNotAbout, GotoNotAbout
  <2>3. UNCHANGED boardVars /\ UNCHANGED disturbances
    BY <1>4 DEF EnsureAlive
  <2> QED
    BY <2>1, <2>2, <2>3, BoardKept DEF Base, Step
<1>5. CASE SettlePhase(r)
  <2> DEFINE me == loc[r]
             row(i) == WithItem(me.cur, i, DesiredPhase(me, i), FALSE, me.cur.card[i])
  <2>1. PICK i \in Idx : i \in Confirmed(me.cur) /\ Checkpoint(r, row(i), me)
    BY <1>5 DEF SettlePhase, First, Unsettled
  <2>2. ItemArgs(DesiredPhase(me, i), FALSE, me.cur.card[i])
    BY <1>1, <2>1
    DEF ItemArgs, DesiredPhase, Phase, Confirmed, InPhase, SafeRow, Row, ItemValid
  <2>3. Successor(row(i), me.cur)
    BY <1>1, <2>2, ItemSuccessor DEF DesiredPhase
  <2>4. Checkpoint(r, row(i), me) /\ me.pc = "settle"
        /\ UNCHANGED boardVars /\ UNCHANGED disturbances
    BY <1>5, <2>1 DEF SettlePhase
  <2> HIDE DEF row
  <2> QED
    BY <1>1, <2>3, <2>4, PlainCheckpoint, BoardKept DEF Base, Step
<1>6. CASE BoardComplete(r)
  <2> DEFINE row == [loc[r].cur EXCEPT !.status = "board_complete"]
             next == [loc[r] EXCEPT !.pc = "checkIndex"]
  <2>1. Successor(row, loc[r].cur)
    BY <1>1, RowSuccessor DEF Status
  <2>2. next \in Local /\ next.pc = "checkIndex" /\ next.req = loc[r].req
    BY <1>1 DEF Local
  <2>3. /\ loc[r].pc = "settle" /\ UNCHANGED boardVars /\ UNCHANGED disturbances
        /\ Checkpoint(r, row, next) \/ (Return(r) /\ UNCHANGED ledger)
    BY <1>6 DEF BoardComplete
  <2> HIDE DEF row, next
  <2> QED
    BY <1>3, <2>1, <2>2, <2>3, PlainCheckpoint, BoardKept DEF Base, Step
<1>7. CASE VerifyParent(r)
  <2>1. UNCHANGED boardVars /\ (UNCHANGED disturbances \/ \E kind : Disturb(kind))
    BY <1>7 DEF VerifyParent
  <2>2. ASSUME Goto(r, "checkIndex") /\ UNCHANGED <<ledger, lock>>
        PROVE  Core' /\ Grows(ledger, ledger') /\ NotAbout(r)
    BY <1>1, <2>2, PlainGoto DEF Base
  <2>3. Core' /\ Grows(ledger, ledger') /\ NotAbout(r)
    BY <1>2, <1>3, <1>7, <2>2 DEF VerifyParent
  <2> QED
    BY <2>1, <2>3, BoardKept DEF Base, Step
<1>8. CASE CheckBeforeIndex(r)
  BY <1>4, <1>8 DEF CheckBeforeIndex
<1>9. CASE WriteThrough(r)
  <2>1. ASSUME Goto(r, "checkComplete") /\ UNCHANGED <<ledger, lock>>
        PROVE  Core' /\ Grows(ledger, ledger') /\ NotAbout(r)
    BY <1>1, <2>1, PlainGoto DEF Base
  <2>2. Core' /\ Grows(ledger, ledger') /\ NotAbout(r)
    BY <1>2, <1>9, <2>1 DEF WriteThrough
  <2>3. indexed' \subseteq Card
    BY <1>1, <1>9, ConfirmedType DEF WriteThrough, Base, BoardType
  <2>4. disturbances' \in 0..MaxDisturbances
    BY <1>9, BoundAssumption DEF WriteThrough, Disturb, Base, BoardType
  <2>5. BoardType'
    BY <1>9, <2>3, <2>4 DEF WriteThrough, Base, BoardType
  <2> QED
    BY <2>2, <2>5 DEF Step
<1>10. CASE CheckBeforeComplete(r)
  BY <1>4, <1>10 DEF CheckBeforeComplete
<1>11. CASE Complete(r)
  <2>1. Successor([loc[r].cur EXCEPT !.status = "complete"], loc[r].cur)
    BY <1>1, RowSuccessor DEF Status
  <2>2. Core' /\ Grows(ledger, ledger') /\ NotAbout(r)
    BY <1>1, <1>11, <2>1, LastCheckpoint DEF Complete, Base
  <2>3. UNCHANGED boardVars /\ UNCHANGED disturbances
    BY <1>11 DEF Complete
  <2> QED
    BY <2>2, <2>3, BoardKept DEF Base, Step
<1> QED
  BY <1>5, <1>6, <1>7, <1>8, <1>9, <1>10, <1>11

\* A new call.
LEMMA StartStep ==
  ASSUME Base, NEW r \in Runner, NEW q \in Request, Start(r, q)
  PROVE  Step /\ NotAbout(r)
<1> USE DEF BeforeRow, AboutPost, PC
<1> DEFINE x == [Idle EXCEPT !.pc = "load", !.req = q]
<1>1. loc' = [loc EXCEPT ![r] = x] /\ UNCHANGED <<ledger, lock>>
      /\ UNCHANGED boardVars /\ UNCHANGED disturbances
  BY DEF Start
<1>2. x \in Local /\ x.pc = "load" /\ x.req = q /\ x.cur = NoRow
  BY IdleType DEF Local
<1> HIDE DEF x
<1>3. LocalSafe(x) /\ Sees(x, ledger')
  BY <1>2 DEF LocalSafe, Sees
<1>4. RowsType(ledger') /\ Grows(ledger, ledger')
      /\ lock' \in [Parent -> Runner \cup {Nobody}]
  BY <1>1, GrowsSame DEF Base, Core
<1>5. Core' /\ Grows(ledger, ledger')
  BY <1>1, <1>2, <1>3, <1>4, LocalsCore DEF Base
<1> QED
  BY <1>1, <1>2, <1>5, BoardKept DEF Base, Step, NotAbout

\* Every step of a runner.
LEMMA AnyRunnerStep ==
  ASSUME Base, NEW r \in Runner, RunnerStep(r)
  PROVE  Step
BY PreflightStep, OpenRowStep, ReconcileStep, MarkInFlightStep,
   CheckBeforePostStep, PostStep, AttachStep, FinishStep DEF RunnerStep

\* A crash, or the loss of the lock connection.
LEMMA FailureStep ==
  ASSUME Base, NEW r \in Runner, LoseLock(r) \/ Crash(r)
  PROVE  Step
<1>1. disturbances' \in 0..MaxDisturbances
  BY BoundAssumption DEF LoseLock, Crash, Disturb, Base, BoardType
<1>2. CASE LoseLock(r)
  <2>1. lock' \in [Parent -> Runner \cup {Nobody}]
    BY <1>2 DEF LoseLock, Base, Core
  <2>2. Core' /\ Grows(ledger, ledger')
    BY <1>2, <2>1, GrowsSame DEF LoseLock, Base, Core
  <2>3. BoardType'
    BY <1>1, <1>2 DEF LoseLock, Base, BoardType, boardVars
  <2> QED
    BY <2>2, <2>3 DEF Step
<1>3. CASE Crash(r)
  <2>1. Core' /\ Grows(ledger, ledger')
    BY <1>3, QuietReturn DEF Crash, Base
  <2>2. posts' \subseteq Post /\ puts' \subseteq Put
    BY <1>3, OrphanedType DEF Crash, Base, BoardType
  <2>3. BoardType'
    BY <1>1, <1>3, <2>2 DEF Crash, Base, BoardType
  <2> QED
    BY <2>1, <2>3 DEF Step
<1> QED
  BY <1>2, <1>3

\* The board and the people who use it.
LEMMA OutsideStep ==
  ASSUME Base, BoardStep \/ PersonStep
  PROVE  Step /\ UNCHANGED <<ledger, loc>>
<1>1. UNCHANGED <<ledger, lock, loc>>
  BY DEF BoardStep, PersonStep, BoardCreates, BoardReplaces, PersonAttaches,
         PersonDetaches, PersonCopies
<1>2. Core' /\ Grows(ledger, ledger')
  BY <1>1, GrowsSame DEF Base, Core
<1>3. ASSUME NEW m \in posts, NEW c \in Card, BoardCreates(m, c)
      PROVE  BoardType'
  <2>1. m.slot \in Slot
    BY DEF Base, BoardType, Post
  <2> QED
    BY <1>3, <2>1 DEF BoardCreates, Base, BoardType
<1>4. ASSUME NEW m \in puts, BoardReplaces(m)
      PROVE  BoardType'
  <2>1. m.ids \in SUBSET Card
    BY DEF Base, BoardType, Put
  <2> QED
    BY <1>4, <2>1 DEF BoardReplaces, Base, BoardType
<1>5. ASSUME PersonStep PROVE BoardType'
  <2>1. disturbances' \in 0..MaxDisturbances
    BY <1>5, BoundAssumption
    DEF PersonStep, PersonAttaches, PersonDetaches, PersonCopies, Disturb, Base, BoardType
  <2>2. ASSUME NEW p \in Parent, NEW c \in Card, PersonAttaches(p, c)
        PROVE  BoardType'
    BY <2>1, <2>2 DEF PersonAttaches, Base, BoardType
  <2>3. ASSUME NEW p \in Parent, NEW c \in Card, PersonDetaches(p, c)
        PROVE  BoardType'
    BY <2>1, <2>3 DEF PersonDetaches, Base, BoardType
  <2>4. ASSUME NEW c \in Card, NEW d \in Card, PersonCopies(c, d)
        PROVE  BoardType'
    <3>1. board' = [board EXCEPT ![d] = board[c]] /\ board[c] \in Slot \cup {NoSlot}
      BY <2>4 DEF PersonCopies, Base, BoardType
    <3>2. board' \in [Card -> Slot \cup {NoSlot}]
      BY <3>1 DEF Base, BoardType
    <3> QED
      BY <2>1, <2>4, <3>2 DEF PersonCopies, Base, BoardType
  <2> QED
    BY <1>5, <2>2, <2>3, <2>4 DEF PersonStep
<1> QED
  BY <1>1, <1>2, <1>3, <1>4, <1>5 DEF BoardStep, Step

----------------------------------------------------------------------------
(* Base is an invariant.                                                   *)

LEMMA BaseInit == ASSUME Init PROVE Base
<1>1. RowsType(ledger)
  BY DEF Init, RowsType
<1>2. loc \in [Runner -> Local]
  BY IdleType DEF Init
<1>3. \A r \in Runner : LocalSafe(loc[r]) /\ Sees(loc[r], ledger)
  BY IdleType DEF Init, LocalSafe, Sees, BeforeRow, AboutPost
<1>4. lock \in [Parent -> Runner \cup {Nobody}]
  BY DEF Init
<1>5. BoardType
  BY BoundAssumption DEF Init, BoardType
<1> QED
  BY <1>1, <1>2, <1>3, <1>4, <1>5 DEF Base, Core

\* What holds of each step.
LEMMA NextStep == ASSUME Base, Next PROVE Step
<1>1. CASE \E r \in Runner, q \in Request : Start(r, q)
  BY <1>1, StartStep
<1>2. CASE \E r \in Runner : RunnerStep(r)
  BY <1>2, AnyRunnerStep
<1>3. CASE \E r \in Runner : LoseLock(r) \/ Crash(r)
  BY <1>3, FailureStep
<1>4. CASE BoardStep \/ PersonStep
  BY <1>4, OutsideStep
<1> QED
  BY <1>1, <1>2, <1>3, <1>4 DEF Next

LEMMA BaseNext == ASSUME Base, [Next]_vars PROVE Base'
<1>1. CASE Next
  BY <1>1, NextStep DEF Step, Base
<1>2. CASE UNCHANGED vars
  BY <1>2 DEF vars, Base, Core, BoardType, RowsType, Sees, LocalSafe
<1> QED
  BY <1>1, <1>2

LEMMA BaseTypeOK == ASSUME Base PROVE TypeOK
<1>1. ledger \in [Key -> Row \cup {NoRow}]
  BY DEF Base, Core, RowsType, SafeRow
<1> QED
  BY <1>1 DEF Base, Core, BoardType, TypeOK

\* Type correctness: whatever the board, people and failures do, every
\* variable keeps the shape the code gives it.
THEOREM TypeCorrect == Spec => []TypeOK
<1>1. Init => Base
  BY BaseInit
<1>2. Base /\ [Next]_vars => Base'
  BY BaseNext
<1>3. Base => TypeOK
  BY BaseTypeOK
<1> QED
  BY <1>1, <1>2, <1>3, PTL DEF Spec

----------------------------------------------------------------------------
(* SlotSafe is kept by every step.                                         *)

\* What the rows say of an announced item stays said.
LEMMA AnnouncedKept ==
  ASSUME Base, Step, NEW slot \in Slot, Announced(slot)
  PROVE  Announced(slot)'
<1> DEFINE k == KeyOf[slot[1]]
<1>1. k \in Key /\ slot[2] \in Idx
  BY RequestAssumption DEF Slot
<1>2. RowsType(ledger) /\ Grows(ledger, ledger')
  BY DEF Base, Core, Step
<1>3. CASE ledger'[k] = ledger[k]
  BY <1>3 DEF Announced
<1>4. CASE ledger'[k] # ledger[k]
  <2>1. ledger'[k] \in SafeRow /\ ledger'[k].req = ledger[k].req
        /\ \A i \in Idx : ledger[k].phase[i] # "pending" => ledger'[k].phase[i] # "pending"
    BY <1>1, <1>2, <1>4 DEF Grows, Announced
  <2> QED
    BY <1>1, <2>1, NoRowAssumption DEF Announced, SafeRow
<1> QED
  BY <1>3, <1>4

\* A step after which nothing new is under way for the slot.
LEMMA SlotKept ==
  ASSUME Base, Step, NEW slot \in Slot, SlotSafe(slot),
         CardsMade(slot)' = CardsMade(slot),
         PostsFor(slot)' # {} => PostsFor(slot) # {},
         AtMostOne(PostsFor(slot)'),
         \A s \in Runner : About(s, slot)' => About(s, slot)
  PROVE  SlotSafe(slot)'
<1>1. Announced(slot) => Announced(slot)'
  BY AnnouncedKept
<1>2. PostsFor(slot)' # {} \/ CardsMade(slot)' # {} => Announced(slot)'
  BY <1>1 DEF SlotSafe
<1>3. ASSUME NEW r \in Runner, About(r, slot)'
      PROVE  /\ Announced(slot)'
             /\ PostsFor(slot)' = {}
             /\ CardsMade(slot)' = {}
             /\ \A s \in Runner : About(s, slot)' => r = s
  <2>1. About(r, slot)
    BY <1>3
  <2>2. /\ Announced(slot) /\ PostsFor(slot) = {} /\ CardsMade(slot) = {}
        /\ \A s \in Runner : About(s, slot) => r = s
    BY <2>1 DEF SlotSafe
  <2> QED
    BY <1>1, <2>2
<1>4. AtMostOne(CardsMade(slot)') /\ (PostsFor(slot)' = {} \/ CardsMade(slot)' = {})
  BY DEF SlotSafe
<1> QED
  BY <1>2, <1>3, <1>4 DEF SlotSafe, AtMostOne

\* A runner that is not about to post is not about to post this slot.
LEMMA AboutKept ==
  ASSUME Base, NEW r \in Runner, NotAbout(r), NEW slot
  PROVE  \A s \in Runner : About(s, slot)' => About(s, slot)
<1>1. PICK x : loc' = [loc EXCEPT ![r] = x] /\ x.pc \notin AboutPost
  BY DEF NotAbout
<1>2. \A s \in Runner : s # r => loc'[s] = loc[s]
  BY <1>1 DEF Base, Core
<1>3. loc'[r].pc \notin AboutPost
  BY <1>1 DEF Base, Core
<1> QED
  BY <1>2, <1>3 DEF About, SlotAt

\* When a sender gives up, no second POST comes into being.
LEMMA OrphanedPosts ==
  ASSUME Base, NEW r \in Runner, posts' = Orphaned(posts, r),
         NEW slot \in Slot, SlotSafe(slot)
  PROVE  /\ PostsFor(slot)' # {} => PostsFor(slot) # {}
         /\ AtMostOne(PostsFor(slot)')
<1>1. posts \subseteq Post
  BY DEF Base, BoardType
<1>2. ASSUME NEW m \in PostsFor(slot)'
      PROVE  \E n \in PostsFor(slot) :
               \/ m = n /\ n.by # r
               \/ m = [n EXCEPT !.by = Nobody] /\ n.by = r
  BY <1>1, <1>2 DEF Orphaned, PostsFor, Post
<1>3. \A x, y \in PostsFor(slot) : x = y
  BY DEF SlotSafe, AtMostOne
<1> QED
  BY <1>2, <1>3 DEF AtMostOne

\* Steps of a runner that neither announce nor send.
LEMMA PlainSlot ==
  ASSUME Base, Step, NEW r \in Runner, NotAbout(r), NEW slot \in Slot,
         SlotSafe(slot), board' = board,
         posts' = posts \/ posts' = Orphaned(posts, r)
  PROVE  SlotSafe(slot)'
<1>1. CardsMade(slot)' = CardsMade(slot)
  BY DEF CardsMade, CardsMarked
<1>2. \A s \in Runner : About(s, slot)' => About(s, slot)
  BY AboutKept
<1>3. (PostsFor(slot)' # {} => PostsFor(slot) # {}) /\ AtMostOne(PostsFor(slot)')
  <2>1. CASE posts' = posts
    BY <2>1 DEF PostsFor, SlotSafe
  <2>2. CASE posts' = Orphaned(posts, r)
    BY <2>2, OrphanedPosts
  <2> QED
    BY <2>1, <2>2
<1> QED
  BY <1>1, <1>2, <1>3, SlotKept

\* The row that announces a POST.
LEMMA InFlightRow ==
  ASSUME NEW row \in SafeRow, NEW i \in Idx
  PROVE  LET next == Bump(WithItem(row, i, "in_flight", FALSE, NoCard))
         IN  next \in SafeRow /\ next.req = row.req /\ next.phase[i] = "in_flight"
<1> DEFINE new == WithItem(row, i, "in_flight", FALSE, NoCard)
<1>1. ItemArgs("in_flight", FALSE, NoCard)
  BY DEF ItemArgs, Phase
<1>2. Successor(new, row)
  BY <1>1, ItemSuccessor
<1>3. new.phase = [row.phase EXCEPT ![i] = "in_flight"]
  BY DEF WithItem, SafeRow, Row
<1> HIDE DEF new
<1>4. Bump(new) \in SafeRow /\ Bump(new).req = new.req /\ Bump(new).phase = new.phase
  BY <1>2, BumpType DEF Successor
<1>5. row.phase \in [Idx -> Phase]
  BY DEF SafeRow, Row
<1> QED
  BY <1>2, <1>3, <1>4, <1>5 DEF new, Successor

\* Announcing: the item was pending in the stored row, so nothing had been
\* posted for it and nobody else is about to.
LEMMA MarkInFlightSlot ==
  ASSUME Base, NEW r \in Runner, MarkInFlight(r), NEW slot \in Slot, SlotSafe(slot)
  PROVE  SlotSafe(slot)'
<1>1. Step
  BY MarkInFlightStep
<1>2. posts' = posts /\ board' = board
  BY DEF MarkInFlight, boardVars
<1>3. CASE NotAbout(r)
  BY <1>1, <1>2, <1>3, PlainSlot
<1>4. CASE ~NotAbout(r)
  <2> DEFINE row(i) == Bump(WithItem(loc[r].cur, i, "in_flight", FALSE, NoCard))
             x(i) == [loc[r] EXCEPT !.pc = "checkPost", !.item = i, !.cur = row(i)]
  <2>1. PICK i \in Idx : /\ Current(r)
                         /\ loc[r].cur.phase[i] = "pending"
                         /\ ledger'[KeyAt(r)] = row(i)
                         /\ loc' = [loc EXCEPT ![r] = x(i)]
    BY <1>4, MarkInFlightStep
  <2>2. /\ loc[r] \in Local /\ loc[r].cur \in SafeRow /\ loc[r].cur # NoRow
        /\ loc[r].cur.req = loc[r].req /\ KeyAt(r) \in Key
        /\ loc \in [Runner -> Local]
        /\ Sees(loc[r], ledger)
    BY Self DEF MarkInFlight, Base, Core, BeforeRow
  <2>3. ledger[KeyAt(r)] = loc[r].cur
    BY <2>1, <2>2 DEF Sees, Current, KeyAt
  <2> DEFINE mine == Marker(loc[r].req, i)
  <2>4. ~Announced(mine) /\ mine \in Slot
    <3>1. mine[1] = loc[r].req /\ mine[2] = i
      BY DEF Marker
    <3>2. loc[r].req \in Request
      BY <2>2 DEF SafeRow, Row
    <3> QED
      BY <2>1, <2>3, <3>1, <3>2 DEF Announced, KeyAt, Marker, Slot
  <2>5. /\ loc'[r].pc = "checkPost" /\ loc'[r].item = i /\ loc'[r].cur = row(i)
        /\ \A s \in Runner : s # r => loc'[s] = loc[s]
    BY <2>1, <2>2 DEF Local
  <2>7. row(i) \in SafeRow /\ row(i).req = loc[r].req /\ row(i).phase[i] = "in_flight"
    BY <2>2, InFlightRow
  <2> HIDE DEF row, x
  <2>8. SlotAt(r)' = mine
    BY <2>5, <2>7 DEF SlotAt
  <2>9. CASE slot # mine
    <3>1. \A s \in Runner : About(s, slot)' => About(s, slot)
      BY <2>5, <2>8, <2>9 DEF About, SlotAt
    <3>2. CardsMade(slot)' = CardsMade(slot) /\ PostsFor(slot)' = PostsFor(slot)
      BY <1>2 DEF CardsMade, CardsMarked, PostsFor
    <3> QED
      BY <1>1, <3>1, <3>2, SlotKept DEF SlotSafe
  <2>10. CASE slot = mine
    <3>1. PostsFor(slot) = {} /\ CardsMade(slot) = {}
          /\ \A s \in Runner : ~About(s, slot)
      BY <2>4, <2>10 DEF SlotSafe
    <3>2. CardsMade(slot)' = {} /\ PostsFor(slot)' = {}
      BY <1>2, <3>1 DEF CardsMade, CardsMarked, PostsFor
    <3>3. \A s \in Runner : About(s, slot)' => s = r
      BY <2>5, <3>1 DEF About, SlotAt
    <3>4. Announced(slot)'
      <4>1. Sees(loc'[r], ledger') /\ RowsType(ledger')
        BY <1>1 DEF Step, Core
      <4>2. loc'[r].cur # NoRow /\ loc'[r].req = loc[r].req
        <5>1. loc'[r].cur # NoRow
          BY <2>5, <2>7, NoRowAssumption DEF SafeRow
        <5> QED
          BY <2>1, <2>2, <5>1 DEF x, Local
      <4>3. ledger'[KeyAt(r)] # NoRow /\ ledger'[KeyAt(r)].req = loc[r].req
        BY <4>1, <4>2 DEF Sees, KeyAt
      <4>4. ledger'[KeyAt(r)] = row(i)
        BY <2>1
      <4> QED
        BY <2>7, <2>10, <4>3, <4>4 DEF Announced, Marker, KeyAt
    <3> QED
      BY <3>2, <3>3, <3>4 DEF SlotSafe, AtMostOne
  <2> QED
    BY <2>9, <2>10
<1> QED
  BY <1>3, <1>4

\* The check of the lock: the runner stays the only one about to post.
LEMMA CheckBeforePostSlot ==
  ASSUME Base, NEW r \in Runner, CheckBeforePost(r), NEW slot \in Slot, SlotSafe(slot)
  PROVE  SlotSafe(slot)'
<1>1. Step
  BY CheckBeforePostStep
<1>2. posts' = posts /\ board' = board /\ loc[r].pc = "checkPost"
  BY DEF CheckBeforePost, EnsureAlive, boardVars
<1>3. CASE NotAbout(r)
  BY <1>1, <1>2, <1>3, PlainSlot
<1>4. CASE loc' = [loc EXCEPT ![r] = [loc[r] EXCEPT !.pc = "post"]]
  <2>1. loc \in [Runner -> Local]
    BY DEF Base, Core
  <2>2. loc'[r].cur = loc[r].cur /\ loc'[r].item = loc[r].item
        /\ \A s \in Runner : s # r => loc'[s] = loc[s]
    BY <1>4, <2>1 DEF Local
  <2>3. \A s \in Runner : About(s, slot)' => About(s, slot)
    BY <1>2, <2>2 DEF About, SlotAt, AboutPost
  <2>4. CardsMade(slot)' = CardsMade(slot) /\ PostsFor(slot)' = PostsFor(slot)
    BY <1>2 DEF CardsMade, CardsMarked, PostsFor
  <2> QED
    BY <1>1, <2>3, <2>4, SlotKept DEF SlotSafe
<1> QED
  BY <1>3, <1>4, CheckBeforePostStep

\* The POST: the first one of its slot, and the runner is not about to post
\* any more.
LEMMA SendPostSlot ==
  ASSUME Base, NEW r \in Runner, SendPost(r), NEW slot \in Slot, SlotSafe(slot)
  PROVE  SlotSafe(slot)'
<1>1. Step /\ NotAbout(r)
  BY PostStep
<1>2. /\ loc[r].pc = "post" /\ board' = board
      /\ posts' = posts \cup {[slot |-> SlotAt(r), by |-> r]}
  BY DEF SendPost
<1>3. \A s \in Runner : About(s, slot)' => About(s, slot)
  BY <1>1, AboutKept
<1>4. CardsMade(slot)' = CardsMade(slot)
  BY <1>2 DEF CardsMade, CardsMarked
<1>5. CASE SlotAt(r) # slot
  <2>1. PostsFor(slot)' = PostsFor(slot)
    BY <1>2, <1>5 DEF PostsFor
  <2> QED
    BY <1>1, <1>3, <1>4, <2>1, SlotKept DEF SlotSafe
<1>6. CASE SlotAt(r) = slot
  <2>1. About(r, slot)
    BY <1>2, <1>6 DEF About, AboutPost
  <2>2. /\ Announced(slot) /\ PostsFor(slot) = {} /\ CardsMade(slot) = {}
        /\ \A s \in Runner : About(s, slot) => s = r
    BY <2>1 DEF SlotSafe
  <2>3. PostsFor(slot)' = {[slot |-> SlotAt(r), by |-> r]}
    BY <1>2, <1>6, <2>2 DEF PostsFor
  <2>4. ~About(r, slot)'
    BY <1>1 DEF NotAbout, About, Base, Core
  <2>5. \A s \in Runner : ~About(s, slot)'
    BY <1>3, <2>2, <2>4
  <2>6. Announced(slot)'
    BY <1>1, <2>2, AnnouncedKept
  <2> QED
    BY <1>4, <2>2, <2>3, <2>5, <2>6 DEF SlotSafe, AtMostOne
<1> QED
  BY <1>5, <1>6

\* The board turns the one POST of a slot into its one card.
LEMMA BoardCreatesSlot ==
  ASSUME Base, NEW m \in posts, NEW c \in Card, BoardCreates(m, c),
         NEW slot \in Slot, SlotSafe(slot)
  PROVE  SlotSafe(slot)'
<1>1. Step /\ UNCHANGED <<ledger, loc>>
  BY OutsideStep DEF BoardStep
<1>2. /\ c \notin External /\ board[c] = NoSlot
      /\ board' = [board EXCEPT ![c] = m.slot]
      /\ posts' = posts \ {m}
  BY DEF BoardCreates
<1>3. board \in [Card -> Slot \cup {NoSlot}]
  BY DEF Base, BoardType
<1>4. \A s \in Runner : About(s, slot)' => About(s, slot)
  BY <1>1 DEF About, SlotAt
<1>5. CASE m.slot # slot
  <2>1. CardsMade(slot)' = CardsMade(slot)
    BY <1>2, <1>3, <1>5, NoneAssumption DEF CardsMade, CardsMarked
  <2>2. PostsFor(slot)' = PostsFor(slot)
    BY <1>2, <1>5 DEF PostsFor
  <2> QED
    BY <1>1, <1>4, <2>1, <2>2, SlotKept DEF SlotSafe
<1>6. CASE m.slot = slot
  <2>1. m \in PostsFor(slot)
    BY <1>6 DEF PostsFor
  <2>2. /\ Announced(slot) /\ CardsMade(slot) = {}
        /\ \A n \in PostsFor(slot) : n = m
        /\ \A s \in Runner : ~About(s, slot)
    BY <2>1 DEF SlotSafe, AtMostOne
  <2>3. PostsFor(slot)' = {}
    BY <1>2, <2>2 DEF PostsFor
  <2>4. CardsMade(slot)' = {c}
    BY <1>2, <1>3, <1>6, <2>2 DEF CardsMade, CardsMarked
  <2>5. Announced(slot)'
    BY <1>1, <2>2, AnnouncedKept
  <2> QED
    BY <1>4, <2>2, <2>3, <2>4, <2>5 DEF SlotSafe, AtMostOne
<1> QED
  BY <1>5, <1>6

\* The other steps of the board, of people and of failures.
LEMMA OutsideSlot ==
  ASSUME Base, NEW slot \in Slot, SlotSafe(slot),
         (\E m \in puts : BoardReplaces(m)) \/ PersonStep
  PROVE  SlotSafe(slot)'
<1>1. Step /\ UNCHANGED <<ledger, loc>>
  BY OutsideStep DEF BoardStep
<1>2. \A s \in Runner : About(s, slot)' => About(s, slot)
  BY <1>1 DEF About, SlotAt
<1>3. posts' = posts
  BY DEF BoardReplaces, PersonStep, PersonAttaches, PersonDetaches, PersonCopies
<1>4. CardsMade(slot)' = CardsMade(slot)
  <2>1. CASE board' = board
    BY <2>1 DEF CardsMade, CardsMarked
  <2>2. ASSUME NEW c \in Card, NEW d \in Card, PersonCopies(c, d)
        PROVE  CardsMade(slot)' = CardsMade(slot)
    BY <2>2 DEF PersonCopies, CardsMade, CardsMarked, Base, BoardType
  <2> QED
    BY <2>1, <2>2 DEF BoardReplaces, PersonStep, PersonAttaches, PersonDetaches
<1>5. PostsFor(slot)' = PostsFor(slot)
  BY <1>3 DEF PostsFor
<1> QED
  BY <1>1, <1>2, <1>4, <1>5, SlotKept DEF SlotSafe

LEMMA FailureSlot ==
  ASSUME Base, NEW r \in Runner, LoseLock(r) \/ Crash(r),
         NEW slot \in Slot, SlotSafe(slot)
  PROVE  SlotSafe(slot)'
<1>1. Step
  BY FailureStep
<1>2. CASE LoseLock(r)
  <2>1. loc' = loc /\ posts' = posts /\ board' = board
    BY <1>2 DEF LoseLock, boardVars
  <2>2. \A s \in Runner : About(s, slot)' => About(s, slot)
    BY <2>1 DEF About, SlotAt
  <2>3. CardsMade(slot)' = CardsMade(slot) /\ PostsFor(slot)' = PostsFor(slot)
    BY <2>1 DEF CardsMade, CardsMarked, PostsFor
  <2> QED
    BY <1>1, <2>2, <2>3, SlotKept DEF SlotSafe
<1>3. CASE Crash(r)
  <2>1. NotAbout(r)
    BY <1>3, IdleNotAbout DEF Crash, Return
  <2> QED
    BY <1>1, <1>3, <2>1, PlainSlot DEF Crash
<1> QED
  BY <1>2, <1>3

LEMMA RunnerSlot ==
  ASSUME Base, NEW r \in Runner, RunnerStep(r) \/ \E q \in Request : Start(r, q),
         NEW slot \in Slot, SlotSafe(slot)
  PROVE  SlotSafe(slot)'
<1>1. CASE MarkInFlight(r)
  BY <1>1, MarkInFlightSlot
<1>2. CASE CheckBeforePost(r)
  BY <1>2, CheckBeforePostSlot
<1>3. CASE SendPost(r)
  BY <1>3, SendPostSlot
<1>4. CASE PostReturns(r) \/ PostFails(r) \/ RecordPost(r)
  <2>1. Step /\ NotAbout(r)
    BY <1>4, PostStep
  <2>2. board' = board /\ (posts' = posts \/ posts' = Orphaned(posts, r))
    BY <1>4 DEF PostReturns, PostFails, RecordPost, boardVars
  <2> QED
    BY <2>1, <2>2, PlainSlot
<1>5. CASE \E q \in Request : Start(r, q)
  BY <1>5, StartStep, PlainSlot DEF Start, boardVars
<1>6. CASE Load(r) \/ FetchParent(r) \/ LateLoad(r) \/ TryParentLock(r)
  <2>1. board' = board /\ posts' = posts
    BY <1>6 DEF Load, FetchParent, LateLoad, TryParentLock, Evaluate, boardVars
  <2> QED
    BY <1>6, <2>1, PreflightStep, PlainSlot
<1>7. CASE Reload(r) \/ Insert(r)
  BY <1>7, OpenRowStep, PlainSlot DEF Reload, Insert, boardVars
<1>8. CASE ScanMarkers(r) \/ Reconcile(r)
  BY <1>8, ReconcileStep, PlainSlot DEF ScanMarkers, Reconcile, boardVars
<1>9. CASE \/ FetchBefore(r) \/ AttachTarget(r) \/ CheckBeforePut(r) \/ SendPut(r)
           \/ PutReturns(r) \/ PutFails(r) \/ FetchAfter(r)
  <2>1. board' = board /\ posts' = posts
    BY <1>9 DEF FetchBefore, AttachTarget, CheckBeforePut, SendPut, PutReturns,
                PutFails, FetchAfter, EnsureAlive, boardVars
  <2> QED
    BY <1>9, <2>1, AttachStep, PlainSlot
<1>10. CASE \/ SettlePhase(r) \/ BoardComplete(r) \/ VerifyParent(r)
            \/ CheckBeforeIndex(r) \/ WriteThrough(r) \/ CheckBeforeComplete(r)
            \/ Complete(r)
  <2>1. board' = board /\ posts' = posts
    BY <1>10 DEF SettlePhase, BoardComplete, VerifyParent, CheckBeforeIndex,
                 WriteThrough, CheckBeforeComplete, Complete, EnsureAlive, boardVars
  <2> QED
    BY <1>10, <2>1, FinishStep, PlainSlot
<1> QED
  BY <1>1, <1>2, <1>3, <1>4, <1>5, <1>6, <1>7, <1>8, <1>9, <1>10 DEF RunnerStep

----------------------------------------------------------------------------
(* The theorems.                                                           *)

LEMMA IInvNext == ASSUME IInv, [Next]_vars PROVE IInv'
<1>1. Base'
  BY BaseNext DEF IInv
<1>2. ASSUME NEW slot \in Slot PROVE SlotSafe(slot)'
  <2>1. Base /\ SlotSafe(slot)
    BY DEF IInv
  <2>2. CASE \E r \in Runner, q \in Request : Start(r, q)
    BY <2>1, <2>2, RunnerSlot
  <2>3. CASE \E r \in Runner : RunnerStep(r)
    BY <2>1, <2>3, RunnerSlot
  <2>4. CASE \E r \in Runner : LoseLock(r) \/ Crash(r)
    BY <2>1, <2>4, FailureSlot
  <2>5. CASE BoardStep \/ PersonStep
    BY <2>1, <2>5, BoardCreatesSlot, OutsideSlot DEF BoardStep
  <2>6. CASE UNCHANGED vars
    BY <2>1, <2>6 DEF vars, SlotSafe, Announced, About, SlotAt, PostsFor, CardsMade,
                      CardsMarked
  <2> QED
    BY <2>2, <2>3, <2>4, <2>5, <2>6 DEF Next
<1> QED
  BY <1>1, <1>2 DEF IInv

LEMMA IInvInit == ASSUME Init PROVE IInv
<1>1. Base
  BY BaseInit
<1>2. ASSUME NEW slot \in Slot PROVE SlotSafe(slot)
  <2>1. PostsFor(slot) = {} /\ CardsMade(slot) = {}
    BY NoneAssumption DEF Init, PostsFor, CardsMade, CardsMarked
  <2>2. \A r \in Runner : ~About(r, slot)
    BY IdleType DEF Init, About, AboutPost
  <2> QED
    BY <2>1, <2>2 DEF SlotSafe, AtMostOne
<1> QED
  BY <1>1, <1>2 DEF IInv

\* IInv holds in every reachable state.
THEOREM Invariant == Spec => []IInv
<1>1. Init => IInv
  BY IInvInit
<1>2. IInv /\ [Next]_vars => IInv'
  BY IInvNext
<1> QED
  BY <1>1, <1>2, PTL DEF Spec

\* No draft is ever posted twice (run(), lines 929-1047): at most one POST or
\* one card of the reviewer per marker, for any number of processes, whatever
\* crashes, timeouts, late writes and lost locks happen.
THEOREM OneCard == Spec => []OneCardPerDraft
<1>1. IInv => OneCardPerDraft
  BY DEF IInv, SlotSafe, OneCardPerDraft
<1> QED
  BY <1>1, Invariant, PTL

\* Every card and every POST belongs to the payload its key is bound to.
THEOREM OnePayload == Spec => []OnePayloadPerKey
<1>1. IInv => OnePayloadPerKey
  BY DEF IInv, SlotSafe, Announced, OnePayloadPerKey
<1> QED
  BY <1>1, Invariant, PTL

----------------------------------------------------------------------------
(* The rows say what is true: the inductive invariant, in named parts.     *)

Targeted == {"checkPut", "put", "putSent", "refetch", "settle"}
Stored == {"checkComplete", "complete"}
Closing == {"verify", "checkIndex", "index"} \cup Stored

\* the cards of a row carry the marker of their draft
Marked(row, marks) ==
  \A i \in Confirmed(row) : marks[row.card[i]] = Marker(row.req, i)

Honest(row, marks, stored) ==
  /\ StatusValid(row)
  /\ Marked(row, marks)
  /\ row.status = "complete" => ConfirmedCards(row) \subseteq stored

\* what the program counter says of the row a runner holds
PlaceSafe(pc, row, stored) ==
  /\ pc \in Targeted => ConfirmedCards(row) \subseteq row.target
  /\ pc \in Closing => row.status = "board_complete"
  /\ pc \in Stored => ConfirmedCards(row) \subseteq stored

\* identities a runner has been given are those of cards with the right marker
FoundSafe(me, marks) ==
  \A i \in Idx :
    me.found[i] # NoCard =>
      me.pc \notin BeforeRow /\ marks[me.found[i]] = Marker(me.req, i)

Holds(me, marks, stored) ==
  /\ me.pc \notin BeforeRow =>
       /\ Honest(me.cur, marks, stored)
       /\ me.cur.status # "complete"
       /\ PlaceSafe(me.pc, me.cur, stored)
  /\ FoundSafe(me, marks)

\* a marker on the board was put there by the reviewer first
HasOriginal == \A slot \in Slot : CardsMarked(slot) # {} => CardsMade(slot) # {}

AllHonest(marks, stored) ==
  /\ \A k \in Key : ledger[k] # NoRow => Honest(ledger[k], marks, stored)
  /\ \A r \in Runner : Holds(loc[r], marks, stored)

HInv == IInv /\ AllHonest(board, indexed) /\ HasOriginal

----------------------------------------------------------------------------
(* Honest rows.                                                            *)

\* A new row says nothing yet.
LEMMA HonestFresh ==
  ASSUME NEW q \in Request, NEW marks, NEW stored
  PROVE  /\ Honest(FreshOperation(q), marks, stored)
         /\ FreshOperation(q).status = "running"
BY DEF Honest, StatusValid, Marked, ConfirmedCards, Confirmed, InPhase, FreshOperation

\* The revision plays no part.
LEMMA HonestBump ==
  ASSUME NEW row \in SafeRow, NEW marks, NEW stored
  PROVE  /\ Honest(row, marks, stored) => Honest(Bump(row), marks, stored)
         /\ Bump(row).status = row.status
         /\ \A pc : PlaceSafe(pc, row, stored) => PlaceSafe(pc, Bump(row), stored)
<1> DEFINE new == Bump(row)
<1>1. /\ new.req = row.req /\ new.phase = row.phase /\ new.card = row.card
      /\ new.status = row.status /\ new.target = row.target
  BY DEF Bump, SafeRow, Row
<1> HIDE DEF new
<1>2. Confirmed(new) = Confirmed(row) /\ ConfirmedCards(new) = ConfirmedCards(row)
  BY <1>1 DEF Confirmed, ConfirmedCards, InPhase
<1> QED
  BY <1>1, <1>2 DEF Honest, StatusValid, Marked, PlaceSafe, new

\* Marks that stay and a store that grows keep a row honest.
LEMMA HonestGrows ==
  ASSUME NEW row \in SafeRow, NEW marks, NEW next, NEW stored, NEW later,
         Honest(row, marks, stored), stored \subseteq later,
         \A c \in Card : marks[c] # NoSlot => next[c] = marks[c]
  PROVE  Honest(row, next, later)
<1>1. ASSUME NEW i \in Confirmed(row)
      PROVE  next[row.card[i]] = Marker(row.req, i)
  <2>1. row.card[i] \in Card /\ i \in Idx
    BY DEF Confirmed, InPhase, SafeRow, Row, ItemValid
  <2>2. marks[row.card[i]] = Marker(row.req, i)
    BY DEF Honest, Marked
  <2>3. Marker(row.req, i) # NoSlot
    BY <2>1, NoneAssumption DEF Marker, Slot, SafeRow, Row
  <2> QED
    BY <2>1, <2>2, <2>3
<1> QED
  BY <1>1 DEF Honest, Marked

\* Items with different markers have different cards: a row that is honest
\* passes every check of _validate_persisted_operation.
LEMMA HonestValid ==
  ASSUME NEW row \in SafeRow, NEW marks, NEW stored, Honest(row, marks, stored)
  PROVE  Valid(row)
<1>1. DistinctCards(row)
  BY DEF DistinctCards, Honest, Marked, Marker
<1> QED
  BY <1>1 DEF Valid, Honest, SafeRow

\* Replacing an item: its card has its marker, if it has a card.
LEMMA HonestItem ==
  ASSUME NEW row \in SafeRow, NEW marks, NEW stored, Honest(row, marks, stored),
         NEW i \in Idx, NEW ph, NEW man, NEW c, ItemArgs(ph, man, c),
         c # NoCard => marks[c] = Marker(row.req, i)
  PROVE  /\ Honest(WithItem(row, i, ph, man, c), marks, stored)
         /\ WithItem(row, i, ph, man, c).status # "complete"
<1> DEFINE new == WithItem(row, i, ph, man, c)
<1>1. new \in SafeRow /\ new.req = row.req /\ new.phase = [row.phase EXCEPT ![i] = ph]
  BY WithItemType
<1>2. /\ new.card = [row.card EXCEPT ![i] = c] /\ new.target = row.target
      /\ new.status = OperationStatus([row.phase EXCEPT ![i] = ph])
  BY DEF WithItem, SafeRow, Row
<1> HIDE DEF new
<1>3. new.status = OperationStatus(new.phase)
  BY <1>1, <1>2
<1>4. StatusValid(new)
  BY <1>3 DEF StatusValid, OperationStatus
<1>5. ASSUME NEW j \in Confirmed(new) PROVE marks[new.card[j]] = Marker(new.req, j)
  <2>1. j \in Idx /\ new.phase[j] \in {"created", "attached"}
    BY DEF Confirmed, InPhase
  <2>2. CASE j = i
    <3>1. new.card[j] = c /\ c # NoCard
      BY <1>1, <1>2, <2>1, <2>2 DEF SafeRow, Row, ItemValid
    <3> QED
      BY <1>1, <2>2, <3>1
  <2>3. CASE j # i
    <3>1. new.card[j] = row.card[j] /\ new.phase[j] = row.phase[j]
      BY <1>1, <1>2, <2>1, <2>3 DEF SafeRow, Row
    <3>2. j \in Confirmed(row)
      BY <2>1, <3>1 DEF Confirmed, InPhase
    <3> QED
      BY <1>1, <3>1, <3>2 DEF Honest, Marked
  <2> QED
    BY <2>2, <2>3
<1>6. new.status # "complete"
  BY <1>3 DEF OperationStatus
<1> QED
  BY <1>4, <1>5, <1>6 DEF Honest, Marked, new

\* A new target that holds the cards, and a new status where it is deserved.
LEMMA HonestField ==
  ASSUME NEW row \in SafeRow, NEW marks, NEW stored, Honest(row, marks, stored)
  PROVE  /\ \A target \in SUBSET Card :
              ConfirmedCards(row) \subseteq target =>
                LET new == [row EXCEPT !.target = target]
                IN  /\ Honest(new, marks, stored)
                    /\ new.status = row.status /\ new.target = target
                    /\ ConfirmedCards(new) = ConfirmedCards(row)
         /\ \A status \in {"board_complete", "complete"} :
              /\ AllAttached(row) /\ ConfirmedCards(row) \subseteq row.target
              /\ status = "complete" => ConfirmedCards(row) \subseteq stored
              => LET new == [row EXCEPT !.status = status]
                 IN  /\ Honest(new, marks, stored)
                     /\ new.status = status
                     /\ ConfirmedCards(new) = ConfirmedCards(row)
<1>1. ASSUME NEW target \in SUBSET Card, ConfirmedCards(row) \subseteq target
      PROVE  LET new == [row EXCEPT !.target = target]
             IN  /\ Honest(new, marks, stored)
                 /\ new.status = row.status /\ new.target = target
                 /\ ConfirmedCards(new) = ConfirmedCards(row)
  <2> DEFINE new == [row EXCEPT !.target = target]
  <2>1. /\ new.req = row.req /\ new.phase = row.phase /\ new.card = row.card
        /\ new.status = row.status /\ new.target = target
    BY DEF SafeRow, Row
  <2> HIDE DEF new
  <2>2. Confirmed(new) = Confirmed(row) /\ ConfirmedCards(new) = ConfirmedCards(row)
    BY <2>1 DEF Confirmed, ConfirmedCards, InPhase
  <2> QED
    BY <1>1, <2>1, <2>2 DEF Honest, StatusValid, Marked, new
<1>2. ASSUME NEW status \in {"board_complete", "complete"},
             AllAttached(row), ConfirmedCards(row) \subseteq row.target,
             status = "complete" => ConfirmedCards(row) \subseteq stored
      PROVE  LET new == [row EXCEPT !.status = status]
             IN  /\ Honest(new, marks, stored)
                 /\ new.status = status
                 /\ ConfirmedCards(new) = ConfirmedCards(row)
  <2> DEFINE new == [row EXCEPT !.status = status]
  <2>1. /\ new.req = row.req /\ new.phase = row.phase /\ new.card = row.card
        /\ new.status = status /\ new.target = row.target
    BY DEF SafeRow, Row
  <2> HIDE DEF new
  <2>2. Confirmed(new) = Confirmed(row) /\ ConfirmedCards(new) = ConfirmedCards(row)
    BY <2>1 DEF Confirmed, ConfirmedCards, InPhase
  <2> QED
    BY <1>2, <2>1, <2>2 DEF Honest, StatusValid, Marked, AllAttached, new
<1> QED
  BY <1>1, <1>2

----------------------------------------------------------------------------
(* One runner writes at most its own row, and what it writes is honest.    *)

Writes(r) ==
  \E row \in SafeRow :
    /\ ledger' = [ledger EXCEPT ![KeyAt(r)] = row]
    /\ Honest(row, board', indexed')
    /\ row.req = loc[r].req /\ row.req \in Request
    /\ \/ ledger[KeyAt(r)] = NoRow /\ row.status # "complete"
       \/ /\ ledger[KeyAt(r)] # NoRow
          /\ ledger[KeyAt(r)].req = row.req
          /\ ledger[KeyAt(r)].status # "complete"

Turn(r) ==
  /\ \E x \in Local : /\ loc' = [loc EXCEPT ![r] = x]
                      /\ Holds(x, board', indexed')
  /\ ledger' = ledger \/ Writes(r)

\* what a step finds, seen on the board and in the store that it leaves
Kept == AllHonest(board', indexed')

\* A process that runs nothing holds nothing.
LEMMA IdleHolds == ASSUME NEW marks, NEW stored PROVE Holds(Idle, marks, stored)
BY DEF Holds, FoundSafe, Idle, BeforeRow

LEMMA ReturnTurn ==
  ASSUME NEW r \in Runner, loc' = [loc EXCEPT ![r] = Idle], ledger' = ledger
  PROVE  Turn(r)
BY IdleHolds, IdleType DEF Turn

\* A successful checkpoint writes an honest row over one that is not complete.
LEMMA CurrentWrites ==
  ASSUME Base, Kept, NEW r \in Runner, loc[r].pc \notin BeforeRow, Current(r),
         NEW row, Successor(row, loc[r].cur), Honest(row, board', indexed'),
         ledger' = [ledger EXCEPT ![KeyAt(r)] = Bump(row)]
  PROVE  Writes(r)
<1>1. /\ loc[r].cur # NoRow /\ loc[r].req \in Request
      /\ loc[r].cur.req = loc[r].req /\ loc[r].cur \in SafeRow
  BY Self DEF Base, BeforeRow
<1>2. ledger[KeyAt(r)] = loc[r].cur
  BY <1>1, WriteGrows DEF Base
<1>3. row \in SafeRow /\ row.req = loc[r].req
  BY <1>1 DEF Successor
<1>4. Bump(row) \in SafeRow /\ Bump(row).req = row.req
  BY <1>3, BumpType
<1>5. Honest(Bump(row), board', indexed')
  BY <1>3, HonestBump
<1>6. loc[r].cur.status # "complete"
  BY DEF Kept, AllHonest, Holds
<1>7. Current(r) => ledger[KeyAt(r)] # NoRow
  BY DEF Current
<1> QED
  BY <1>1, <1>2, <1>3, <1>4, <1>5, <1>6, <1>7 DEF Writes

LEMMA LastTurn ==
  ASSUME Base, Kept, NEW r \in Runner, loc[r].pc \notin BeforeRow,
         NEW row, Successor(row, loc[r].cur), Honest(row, board', indexed'),
         CheckpointAndReturn(r, row)
  PROVE  Turn(r)
<1>1. loc' = [loc EXCEPT ![r] = Idle]
  BY DEF CheckpointAndReturn, Return
<1>2. CASE Current(r)
  BY <1>1, <1>2, CurrentWrites, IdleHolds, IdleType DEF CheckpointAndReturn, Turn
<1>3. CASE ~Current(r)
  BY <1>1, <1>3, ReturnTurn DEF CheckpointAndReturn
<1> QED
  BY <1>2, <1>3

\* A runner ends its call with the row it has.
LEMMA LastTurnSame ==
  ASSUME Base, Kept, NEW r \in Runner, loc[r].pc \notin BeforeRow,
         CheckpointAndReturn(r, loc[r].cur)
  PROVE  Turn(r)
<1>1. Successor(loc[r].cur, loc[r].cur)
  BY Self, RowSuccessor DEF Base
<1>2. Honest(loc[r].cur, board', indexed')
  BY DEF Kept, AllHonest, Holds
<1> QED
  BY <1>1, <1>2, LastTurn

LEMMA CheckpointTurn ==
  ASSUME Base, Kept, NEW r \in Runner, loc[r].pc \notin BeforeRow,
         NEW row, Successor(row, loc[r].cur), Honest(row, board', indexed'),
         row.status # "complete",
         NEW next \in Local, FoundSafe(next, board'),
         PlaceSafe(next.pc, row, indexed'),
         Checkpoint(r, row, next)
  PROVE  Turn(r)
<1>1. CASE /\ Current(r)
           /\ ledger' = [ledger EXCEPT ![KeyAt(r)] = Bump(row)]
           /\ loc' = [loc EXCEPT ![r] = [next EXCEPT !.cur = Bump(row)]]
  <2> DEFINE x == [next EXCEPT !.cur = Bump(row)]
  <2>1. Bump(row) \in SafeRow /\ Bump(row) \in Row
    BY BumpType DEF Successor, SafeRow
  <2>2. /\ x \in Local /\ x.cur = Bump(row) /\ x.pc = next.pc
        /\ x.found = next.found /\ x.req = next.req
    BY <2>1 DEF Local
  <2> HIDE DEF x
  <2>3. /\ Honest(Bump(row), board', indexed')
        /\ Bump(row).status # "complete"
        /\ PlaceSafe(next.pc, Bump(row), indexed')
    BY HonestBump DEF Successor
  <2>4. Holds(x, board', indexed')
    BY <2>2, <2>3 DEF Holds, FoundSafe
  <2>5. Writes(r)
    BY <1>1, CurrentWrites
  <2> QED
    BY <1>1, <2>2, <2>4, <2>5 DEF Turn, x
<1>2. CASE ~Current(r) /\ Return(r) /\ UNCHANGED ledger
  BY <1>2, ReturnTurn DEF Return
<1> QED
  BY <1>1, <1>2 DEF Checkpoint

\* Moving on with the row a runner has.
LEMMA MoveTurn ==
  ASSUME Kept, NEW r \in Runner, NEW x \in Local,
         loc' = [loc EXCEPT ![r] = x], ledger' = ledger,
         x.cur = loc[r].cur,
         x.pc \notin BeforeRow =>
           loc[r].pc \notin BeforeRow /\ PlaceSafe(x.pc, x.cur, indexed'),
         FoundSafe(x, board')
  PROVE  Turn(r)
<1>1. Holds(loc[r], board', indexed')
  BY DEF Kept, AllHonest
<1>2. Holds(x, board', indexed')
  BY <1>1 DEF Holds
<1> QED
  BY <1>2 DEF Turn

LEMMA GotoTurn ==
  ASSUME Base, Kept, NEW r \in Runner, NEW pc \in PC, Goto(r, pc), ledger' = ledger,
         \/ pc \notin BeforeRow /\ loc[r].pc \notin BeforeRow
         \/ pc \in BeforeRow /\ loc[r].pc \in BeforeRow,
         pc \notin BeforeRow => PlaceSafe(pc, loc[r].cur, indexed')
  PROVE  Turn(r)
<1> DEFINE x == [loc[r] EXCEPT !.pc = pc]
<1>1. loc \in [Runner -> Local] /\ loc[r] \in Local
  BY DEF Base, Core
<1>2. loc' = [loc EXCEPT ![r] = x]
  BY <1>1 DEF Goto, Local
<1>3. /\ x \in Local /\ x.pc = pc /\ x.cur = loc[r].cur
      /\ x.req = loc[r].req /\ x.found = loc[r].found
  BY <1>1 DEF Local
<1> HIDE DEF x
<1>4. FoundSafe(loc[r], board')
  BY DEF Kept, AllHonest, Holds
<1>5. FoundSafe(x, board')
  BY <1>3, <1>4 DEF FoundSafe
<1> QED
  BY <1>2, <1>3, <1>5, MoveTurn

----------------------------------------------------------------------------
(* Every step of a runner is a turn.                                       *)

LEMMA PreflightTurn ==
  ASSUME Base, Kept, NEW r \in Runner,
         Load(r) \/ FetchParent(r) \/ LateLoad(r) \/ TryParentLock(r)
  PROVE  Turn(r)
<1> USE DEF BeforeRow, PC
<1>1. loc[r].pc \in BeforeRow /\ ledger' = ledger
  BY DEF Load, FetchParent, LateLoad, TryParentLock, Evaluate
<1>2. ASSUME NEW pc \in BeforeRow, Goto(r, pc) PROVE Turn(r)
  BY <1>1, <1>2, GotoTurn
<1>3. ASSUME Return(r) PROVE Turn(r)
  BY <1>1, <1>3, ReturnTurn DEF Return
<1>4. ASSUME Evaluate(r) PROVE Turn(r)
  BY <1>2, <1>3, <1>4 DEF Evaluate
<1>5. CASE Load(r)
  BY <1>2, <1>4, <1>5 DEF Load
<1>6. CASE FetchParent(r)
  BY <1>2, <1>3, <1>6 DEF FetchParent
<1>7. CASE LateLoad(r)
  BY <1>3, <1>4, <1>7 DEF LateLoad
<1>8. CASE TryParentLock(r)
  <2>1. (IF loc[r].pc = "lock" THEN "reload" ELSE "reloadFresh") \in BeforeRow
    OBVIOUS
  <2> QED
    BY <1>2, <1>3, <1>8, <2>1 DEF TryParentLock
<1> QED
  BY <1>5, <1>6, <1>7, <1>8

LEMMA StartTurn ==
  ASSUME NEW r \in Runner, NEW q \in Request, Start(r, q)
  PROVE  Turn(r)
<1> DEFINE x == [Idle EXCEPT !.pc = "load", !.req = q]
<1>1. loc' = [loc EXCEPT ![r] = x] /\ ledger' = ledger
  BY DEF Start
<1>2. x \in Local /\ x.pc = "load" /\ x.found = [i \in Idx |-> NoCard]
  BY IdleType DEF Local, PC, Idle
<1> HIDE DEF x
<1>3. Holds(x, board', indexed')
  BY <1>2 DEF Holds, FoundSafe, BeforeRow
<1> QED
  BY <1>1, <1>2, <1>3 DEF Turn

LEMMA OpenRowTurn ==
  ASSUME Base, Kept, NEW r \in Runner, Reload(r) \/ Insert(r)
  PROVE  Turn(r)
<1>1. /\ loc[r].pc \in {"reload", "reloadFresh", "insert"}
      /\ loc[r] \in Local /\ loc[r].req \in Request /\ KeyAt(r) \in Key
      /\ RowsType(ledger) /\ loc \in [Runner -> Local]
  BY Self DEF Reload, Insert, Base, Core
<1>2. FoundSafe(loc[r], board')
  BY DEF Kept, AllHonest, Holds
<1>3. ASSUME NEW pc \in BeforeRow, Goto(r, pc), ledger' = ledger PROVE Turn(r)
  BY <1>1, <1>3, GotoTurn DEF BeforeRow, PC
<1>4. ASSUME NEW row \in SafeRow, NEW pc \in {"verify", "scan", "items"},
             loc' = [loc EXCEPT ![r].cur = row, ![r].pc = pc],
             Honest(row, board', indexed'), row.status # "complete",
             PlaceSafe(pc, row, indexed')
      PROVE  \E x \in Local : /\ loc' = [loc EXCEPT ![r] = x]
                              /\ Holds(x, board', indexed')
  <2> DEFINE x == [loc[r] EXCEPT !.cur = row, !.pc = pc]
  <2>1. loc' = [loc EXCEPT ![r] = x]
    BY <1>1, <1>4 DEF Local
  <2>2. /\ x \in Local /\ x.cur = row /\ x.pc = pc
        /\ x.req = loc[r].req /\ x.found = loc[r].found
    BY <1>1 DEF Local, SafeRow, PC
  <2> HIDE DEF x
  <2>3. FoundSafe(x, board')
    BY <1>1, <1>2, <2>2 DEF FoundSafe, BeforeRow
  <2>4. Holds(x, board', indexed')
    BY <1>4, <2>2, <2>3 DEF Holds
  <2> QED
    BY <2>1, <2>2, <2>4
<1>5. CASE Reload(r)
  <2> DEFINE row == ledger[KeyAt(r)]
             pc == EntryPoint(row)
  <2>1. CASE Goto(r, "insert") /\ UNCHANGED ledger
    BY <1>3, <2>1 DEF BeforeRow
  <2>2. CASE Return(r) /\ UNCHANGED ledger
    BY <2>2, ReturnTurn DEF Return
  <2>3. CASE /\ row # NoRow /\ Resumable(row, loc[r].req)
             /\ loc' = [loc EXCEPT ![r].cur = row, ![r].pc = pc]
             /\ UNCHANGED ledger
    <3>1. row \in SafeRow /\ Honest(row, board', indexed') /\ row.status # "complete"
      BY <1>1, <2>3 DEF RowsType, Resumable, Kept, AllHonest
    <3>2. /\ pc \in {"verify", "scan", "items"}
          /\ pc = "verify" => row.status = "board_complete"
      BY DEF EntryPoint
    <3> HIDE DEF pc, row
    <3>3. PlaceSafe(pc, row, indexed')
      BY <3>2 DEF PlaceSafe, Targeted, Closing, Stored
    <3> QED
      BY <1>4, <2>3, <3>1, <3>2, <3>3 DEF Turn
  <2> QED
    BY <1>5, <2>1, <2>2, <2>3 DEF Reload
<1>6. CASE Insert(r)
  <2>1. CASE ledger[KeyAt(r)] = NoRow
    <3> DEFINE row == FreshOperation(loc[r].req)
    <3>1. row \in SafeRow /\ Honest(row, board', indexed') /\ row.status = "running"
      BY <1>1, FreshOperationType, HonestFresh
    <3>2. row.req = loc[r].req
      BY DEF FreshOperation
    <3>3. /\ ledger' = [ledger EXCEPT ![KeyAt(r)] = row]
          /\ loc' = [loc EXCEPT ![r].cur = row, ![r].pc = "items"]
      BY <1>6, <2>1 DEF Insert
    <3> HIDE DEF row
    <3>4. PlaceSafe("items", row, indexed')
      BY DEF PlaceSafe, Targeted, Closing, Stored
    <3>5. Writes(r)
      BY <1>1, <2>1, <3>1, <3>2, <3>3 DEF Writes
    <3> QED
      BY <1>4, <3>1, <3>3, <3>4, <3>5 DEF Turn
  <2>2. CASE ledger[KeyAt(r)] # NoRow
    BY <1>3, <1>6, <2>2 DEF Insert, BeforeRow
  <2> QED
    BY <2>1, <2>2
<1> QED
  BY <1>5, <1>6

\* What a runner past its first read of the row knows of itself.
LEMMA SelfHolds ==
  ASSUME Base, Kept, NEW r \in Runner, loc[r].pc \notin BeforeRow
  PROVE  /\ loc \in [Runner -> Local] /\ loc[r] \in Local
         /\ loc[r].cur \in SafeRow /\ loc[r].cur \in Row
         /\ loc[r].cur.req = loc[r].req /\ loc[r].req \in Request
         /\ loc[r].found \in [Idx -> Card \cup {NoCard}]
         /\ Honest(loc[r].cur, board', indexed')
         /\ loc[r].cur.status # "complete"
         /\ PlaceSafe(loc[r].pc, loc[r].cur, indexed')
         /\ FoundSafe(loc[r], board')
<1>1. Holds(loc[r], board', indexed')
  BY DEF Kept, AllHonest
<1> QED
  BY <1>1, Self DEF Base, Core, Holds, Local, BeforeRow

\* Exactly one card with the marker is the card of the item.
LEMMA ScanMarkersTurn ==
  ASSUME Base, Kept, NEW r \in Runner, ScanMarkers(r)
  PROVE  Turn(r)
<1> DEFINE match(i) == CardsMarked(Marker(loc[r].cur.req, i))
           found == [i \in Idx |->
             IF /\ loc[r].cur.phase[i] = "in_flight"
                /\ \E c \in Card : match(i) = {c}
             THEN CHOOSE c \in match(i) : TRUE ELSE NoCard]
           x == [loc[r] EXCEPT !.pc = "reconcile", !.found = found]
<1>1. loc[r].pc = "scan" /\ loc[r].pc \notin BeforeRow /\ board' = board
  BY DEF ScanMarkers, boardVars, BeforeRow
<1>2. PlaceSafe("reconcile", loc[r].cur, indexed')
  BY DEF PlaceSafe, Targeted, Closing, Stored
<1>3. CASE loc' = [loc EXCEPT ![r].pc = "reconcile", ![r].found = found] /\ UNCHANGED ledger
  <2>1. ASSUME NEW i \in Idx, NEW c \in Card, match(i) = {c}
        PROVE  /\ (CHOOSE d \in match(i) : TRUE) = c
               /\ board[c] = Marker(loc[r].req, i)
    BY <1>1, <2>1, SelfHolds DEF CardsMarked
  <2>2. found \in [Idx -> Card \cup {NoCard}]
    BY <2>1
  <2>3. \A i \in Idx : found[i] # NoCard => board[found[i]] = Marker(loc[r].req, i)
    BY <2>1
  <2> HIDE DEF found
  <2>4. loc' = [loc EXCEPT ![r] = x]
    BY <1>1, <1>3, SelfHolds DEF Local
  <2>5. /\ x \in Local /\ x.pc = "reconcile" /\ x.found = found
        /\ x.req = loc[r].req /\ x.cur = loc[r].cur
    BY <1>1, <2>2, SelfHolds DEF Local, PC
  <2> HIDE DEF x
  <2>6. FoundSafe(x, board')
    BY <1>1, <2>3, <2>5 DEF FoundSafe, BeforeRow
  <2> QED
    BY <1>1, <1>2, <1>3, <2>4, <2>5, <2>6, MoveTurn
<1>4. CASE Goto(r, "reconcile") /\ UNCHANGED ledger
  <2>1. "reconcile" \in PC /\ "reconcile" \notin BeforeRow
    BY DEF PC, BeforeRow
  <2> QED
    BY <1>1, <1>2, <1>4, <2>1, GotoTurn
<1>5. CASE CheckpointAndReturn(r, loc[r].cur)
  BY <1>1, <1>5, LastTurnSame
<1> QED
  BY <1>3, <1>4, <1>5 DEF ScanMarkers

LEMMA ReconcileTurn ==
  ASSUME Base, Kept, NEW r \in Runner, Reconcile(r)
  PROVE  Turn(r)
<1> DEFINE me == loc[r]
           x == [Idle EXCEPT !.pc = "items", !.req = me.req, !.cur = me.cur]
<1>1. me.pc = "reconcile" /\ me.pc \notin BeforeRow
  BY DEF Reconcile, BeforeRow
<1>2. ASSUME NEW i \in Idx,
             Checkpoint(r, Reconciled(me, i), [me EXCEPT !.item = i])
      PROVE  Turn(r)
  <2> DEFINE next == [me EXCEPT !.item = i]
  <2>1. me.found[i] \in Card \cup {NoCard}
    BY <1>1, SelfHolds
  <2>2. /\ me.found[i] # NoCard => /\ ItemArgs("created", FALSE, me.found[i])
                                   /\ board'[me.found[i]] = Marker(me.cur.req, i)
        /\ ItemArgs("in_flight", TRUE, NoCard)
    BY <1>1, <2>1, SelfHolds DEF Phase, ItemArgs, FoundSafe
  <2>3. Successor(Reconciled(me, i), me.cur)
    BY <1>1, <2>2, SelfHolds, ItemSuccessor DEF Reconciled
  <2>4. /\ Honest(Reconciled(me, i), board', indexed')
        /\ Reconciled(me, i).status # "complete"
    <3>1. me.cur \in SafeRow /\ Honest(me.cur, board', indexed')
      BY <1>1, SelfHolds
    <3> QED
      BY <2>2, <3>1, HonestItem DEF Reconciled
  <2>5. next \in Local /\ next.pc = me.pc /\ next.found = me.found /\ next.req = me.req
    BY <1>1, SelfHolds DEF Local
  <2> HIDE DEF next
  <2>6. FoundSafe(next, board')
    BY <1>1, <2>5, SelfHolds DEF FoundSafe
  <2>7. PlaceSafe(next.pc, Reconciled(me, i), indexed')
    BY <1>1, <2>5 DEF PlaceSafe, Targeted, Closing, Stored
  <2> QED
    BY <1>1, <1>2, <2>3, <2>4, <2>5, <2>6, <2>7, CheckpointTurn DEF next
<1>3. CASE loc' = [loc EXCEPT ![r] = x] /\ UNCHANGED <<ledger, lock>>
  <2>1. /\ x \in Local /\ x.pc = "items" /\ x.cur = me.cur
        /\ x.found = [i \in Idx |-> NoCard]
    BY <1>1, SelfHolds, IdleType DEF Local, PC, Idle
  <2> HIDE DEF x
  <2>2. FoundSafe(x, board') /\ PlaceSafe(x.pc, x.cur, indexed')
    BY <2>1 DEF FoundSafe, PlaceSafe, Targeted, Closing, Stored
  <2> QED
    BY <1>1, <1>3, <2>1, <2>2, MoveTurn
<1> QED
  BY <1>2, <1>3 DEF Reconcile

LEMMA MarkInFlightTurn ==
  ASSUME Base, Kept, NEW r \in Runner, MarkInFlight(r)
  PROVE  Turn(r)
<1>1. loc[r].pc = "items" /\ loc[r].pc \notin BeforeRow
  BY DEF MarkInFlight, BeforeRow
<1>2. PICK i \in Idx :
        Checkpoint(r, WithItem(loc[r].cur, i, "in_flight", FALSE, NoCard),
                   [loc[r] EXCEPT !.pc = "checkPost", !.item = i])
  BY DEF MarkInFlight
<1> DEFINE row == WithItem(loc[r].cur, i, "in_flight", FALSE, NoCard)
           next == [loc[r] EXCEPT !.pc = "checkPost", !.item = i]
<1>3. ItemArgs("in_flight", FALSE, NoCard)
  BY DEF ItemArgs, Phase
<1>4. Successor(row, loc[r].cur)
  BY <1>1, <1>3, SelfHolds, ItemSuccessor
<1>5. Honest(row, board', indexed') /\ row.status # "complete"
  <2>1. loc[r].cur \in SafeRow /\ Honest(loc[r].cur, board', indexed')
    BY <1>1, SelfHolds
  <2> QED
    BY <1>3, <2>1, HonestItem
<1>6. /\ next \in Local /\ next.pc = "checkPost" /\ next.found = loc[r].found
      /\ next.req = loc[r].req
  BY <1>1, SelfHolds DEF Local, PC
<1> HIDE DEF next, row
<1>7. FoundSafe(next, board')
  BY <1>1, <1>6, SelfHolds DEF FoundSafe, BeforeRow
<1>8. PlaceSafe(next.pc, row, indexed')
  BY <1>6 DEF PlaceSafe, Targeted, Closing, Stored
<1> QED
  BY <1>1, <1>2, <1>4, <1>5, <1>6, <1>7, <1>8, CheckpointTurn DEF row, next

\* ensure_alive, in front of a write to the outside.
LEMMA EnsureAliveTurn ==
  ASSUME Base, Kept, NEW r \in Runner, NEW pc \in PC, EnsureAlive(r, pc),
         pc \notin BeforeRow, loc[r].pc \notin BeforeRow,
         PlaceSafe(pc, loc[r].cur, indexed')
  PROVE  Turn(r)
<1>1. CASE Goto(r, pc) /\ UNCHANGED ledger
  BY <1>1, GotoTurn
<1>2. CASE Return(r) /\ UNCHANGED ledger
  BY <1>2, ReturnTurn DEF Return
<1> QED
  BY <1>1, <1>2 DEF EnsureAlive

LEMMA PostTurn ==
  ASSUME Base, Kept, NEW r \in Runner,
         \/ CheckBeforePost(r) \/ SendPost(r) \/ PostReturns(r)
         \/ PostFails(r) \/ RecordPost(r)
  PROVE  Turn(r)
<1>1. /\ loc[r].pc \in {"checkPost", "post", "posted", "confirm"}
      /\ loc[r].pc \notin BeforeRow /\ loc[r].item \in Idx /\ board \in [Card -> Slot \cup {NoSlot}]
  BY Self DEF CheckBeforePost, SendPost, PostReturns, PostFails, RecordPost, BeforeRow,
              AboutPost, Base, BoardType
<1>2. \A pc \in {"post", "posted", "confirm"} :
        PlaceSafe(pc, loc[r].cur, indexed') /\ pc \in PC /\ pc \notin BeforeRow
  BY DEF PlaceSafe, Targeted, Closing, Stored, PC, BeforeRow
<1>3. CASE CheckBeforePost(r)
  BY <1>1, <1>2, <1>3, EnsureAliveTurn DEF CheckBeforePost
<1>4. CASE SendPost(r)
  BY <1>1, <1>2, <1>4, GotoTurn DEF SendPost
<1>5. CASE PostReturns(r)
  <2>1. PICK c \in CardsMarked(SlotAt(r)) :
          loc' = [loc EXCEPT ![r].pc = "confirm", ![r].found[loc[r].item] = c]
    BY <1>5 DEF PostReturns
  <2>2. c \in Card /\ board[c] = Marker(loc[r].req, loc[r].item)
    BY <1>1, SelfHolds DEF CardsMarked, SlotAt
  <2> DEFINE found == [loc[r].found EXCEPT ![loc[r].item] = c]
             x == [loc[r] EXCEPT !.pc = "confirm", !.found = found]
  <2>3. found \in [Idx -> Card \cup {NoCard}]
    BY <1>1, <2>2, SelfHolds
  <2>4. loc' = [loc EXCEPT ![r] = x]
    BY <1>1, <2>1, SelfHolds DEF Local
  <2>5. board' = board /\ ledger' = ledger
    BY <1>5 DEF PostReturns, boardVars
  <2>6. \A i \in Idx : found[i] # NoCard => board[found[i]] = Marker(loc[r].req, i)
    BY <1>1, <2>2, <2>5, SelfHolds DEF FoundSafe
  <2> HIDE DEF found
  <2>7. /\ x \in Local /\ x.pc = "confirm" /\ x.found = found
        /\ x.req = loc[r].req /\ x.cur = loc[r].cur
    BY <1>1, <2>3, SelfHolds DEF Local, PC
  <2> HIDE DEF x
  <2>8. FoundSafe(x, board')
    BY <1>2, <2>5, <2>6, <2>7 DEF FoundSafe
  <2> QED
    BY <1>1, <1>2, <2>4, <2>5, <2>7, <2>8, MoveTurn
<1>6. CASE PostFails(r)
  BY <1>1, <1>2, <1>6, GotoTurn DEF PostFails
<1>7. CASE RecordPost(r)
  <2> DEFINE me == loc[r]
             c == me.found[me.item]
             row == IF c # NoCard THEN WithItem(me.cur, me.item, "created", FALSE, c)
                    ELSE WithItem(me.cur, me.item, "in_flight", TRUE, NoCard)
             next == [Idle EXCEPT !.pc = "items", !.req = me.req]
  <2>1. c \in Card \cup {NoCard}
    BY <1>1, SelfHolds
  <2>2. /\ c # NoCard => ItemArgs("created", FALSE, c) /\ board'[c] = Marker(me.cur.req, me.item)
        /\ ItemArgs("in_flight", TRUE, NoCard)
    BY <1>1, <2>1, SelfHolds DEF ItemArgs, Phase, FoundSafe
  <2>3. Successor(row, me.cur)
    BY <1>1, <2>2, SelfHolds, ItemSuccessor
  <2>4. Honest(row, board', indexed') /\ row.status # "complete"
    <3>1. me.cur \in SafeRow /\ Honest(me.cur, board', indexed')
      BY <1>1, SelfHolds
    <3> HIDE DEF c
    <3>2. CASE c # NoCard
      <4>1. /\ ItemArgs("created", FALSE, c)
            /\ board'[c] = Marker(me.cur.req, me.item) /\ me.item \in Idx
        BY <1>1, <2>2, <3>2
      <4> HIDE DEF me
      <4>2. /\ Honest(WithItem(me.cur, me.item, "created", FALSE, c), board', indexed')
            /\ WithItem(me.cur, me.item, "created", FALSE, c).status # "complete"
        BY <3>1, <4>1, HonestItem
      <4> QED
        BY <3>2, <4>2
    <3>3. CASE c = NoCard
      BY <1>1, <2>2, <3>1, <3>3, HonestItem
    <3> QED
      BY <3>2, <3>3
  <2>5. next \in Local /\ next.pc = "items" /\ next.found = [i \in Idx |-> NoCard]
    BY <1>1, SelfHolds, IdleType DEF Local, PC, Idle
  <2>6. Checkpoint(r, row, next)
    BY <1>7 DEF RecordPost
  <2> HIDE DEF row, next
  <2>7. FoundSafe(next, board') /\ PlaceSafe(next.pc, row, indexed')
    BY <2>5 DEF FoundSafe, PlaceSafe, Targeted, Closing, Stored
  <2> QED
    BY <1>1, <2>3, <2>4, <2>5, <2>6, <2>7, CheckpointTurn
<1> QED
  BY <1>3, <1>4, <1>5, <1>6, <1>7

\* The attachment.  The target holds the confirmed cards from AttachTarget on.
LEMMA AttachTurn ==
  ASSUME Base, Kept, NEW r \in Runner,
         \/ FetchBefore(r) \/ AttachTarget(r) \/ CheckBeforePut(r) \/ SendPut(r)
         \/ PutReturns(r) \/ PutFails(r) \/ FetchAfter(r)
  PROVE  Turn(r)
<1>1. /\ loc[r].pc \in {"items", "attach", "checkPut", "put", "putSent", "refetch"}
      /\ loc[r].pc \notin BeforeRow
      /\ subs[ParentAt(r)] \in SUBSET Card /\ loc[r].snap \in SUBSET Card
      /\ loc[r].cur.target \in SUBSET Card
  BY Self DEF FetchBefore, AttachTarget, CheckBeforePut, SendPut, PutReturns,
              PutFails, FetchAfter, Base, Core, BoardType, Local, Row, BeforeRow
<1>2. ASSUME NEW pc \in {"attach", "settle"},
             loc' = [loc EXCEPT ![r].pc = pc, ![r].snap = subs[ParentAt(r)]],
             ledger' = ledger, PlaceSafe(pc, loc[r].cur, indexed')
      PROVE  Turn(r)
  <2> DEFINE x == [loc[r] EXCEPT !.pc = pc, !.snap = subs[ParentAt(r)]]
  <2>1. loc' = [loc EXCEPT ![r] = x]
    BY <1>1, <1>2, SelfHolds DEF Local
  <2>2. /\ x \in Local /\ x.pc = pc /\ x.req = loc[r].req /\ x.cur = loc[r].cur
        /\ x.found = loc[r].found
    BY <1>1, <1>2, SelfHolds DEF Local, PC
  <2> HIDE DEF x
  <2>3. FoundSafe(x, board') /\ x.pc \notin BeforeRow
    BY <1>1, <1>2, <2>2, SelfHolds DEF FoundSafe, BeforeRow
  <2> QED
    BY <1>1, <1>2, <2>1, <2>2, <2>3, MoveTurn
<1>3. ASSUME CheckpointAndReturn(r, loc[r].cur) PROVE Turn(r)
  BY <1>1, <1>3, LastTurnSame
<1>4. ASSUME NEW pc \in {"put", "putSent", "refetch"}, Goto(r, pc), ledger' = ledger,
             loc[r].pc \in Targeted
      PROVE  Turn(r)
  <2>1. PlaceSafe(pc, loc[r].cur, indexed')
    BY <1>1, <1>4, SelfHolds DEF PlaceSafe, Targeted, Closing, Stored
  <2> QED
    BY <1>1, <1>4, <2>1, GotoTurn DEF PC, BeforeRow
<1>5. CASE FetchBefore(r)
  <2>1. PlaceSafe("attach", loc[r].cur, indexed')
    BY DEF PlaceSafe, Targeted, Closing, Stored
  <2>2. ASSUME Return(r), UNCHANGED ledger PROVE Turn(r)
    BY <2>2, ReturnTurn DEF Return
  <2> QED
    BY <1>2, <1>3, <1>5, <2>1, <2>2 DEF FetchBefore
<1>6. CASE AttachTarget(r)
  <2> DEFINE union == ExactUnion(loc[r])
             row == [loc[r].cur EXCEPT !.target = union]
  <2>1. union \in SUBSET Card /\ ConfirmedCards(loc[r].cur) \subseteq union
    BY <1>1, SelfHolds, ConfirmedType DEF ExactUnion
  <2>2. Successor(row, loc[r].cur)
    BY <1>1, <2>1, SelfHolds, RowSuccessor
  <2>3. /\ Honest(row, board', indexed') /\ row.status # "complete"
        /\ row.target = union /\ ConfirmedCards(row) = ConfirmedCards(loc[r].cur)
    <3>1. /\ loc[r].cur \in SafeRow /\ Honest(loc[r].cur, board', indexed')
          /\ loc[r].cur.status # "complete"
      BY <1>1, SelfHolds
    <3> HIDE DEF union
    <3> QED
      BY <2>1, <3>1, HonestField
  <2>4. PICK put \in BOOLEAN :
          LET next == [loc[r] EXCEPT !.pc = IF put THEN "checkPut" ELSE "settle"]
          IN  IF union # loc[r].cur.target
              THEN Checkpoint(r, row, next)
              ELSE loc' = [loc EXCEPT ![r] = next] /\ UNCHANGED <<ledger, lock>>
    BY <1>6 DEF AttachTarget
  <2> DEFINE pc == IF put THEN "checkPut" ELSE "settle"
             next == [loc[r] EXCEPT !.pc = pc]
  <2>5. pc \in {"checkPut", "settle"}
    OBVIOUS
  <2> HIDE DEF pc
  <2>6. /\ next \in Local /\ next.pc = pc /\ next.req = loc[r].req
        /\ next.cur = loc[r].cur /\ next.found = loc[r].found
    BY <1>1, <2>5, SelfHolds DEF Local, PC
  <2> HIDE DEF row, union
  <2>7. \/ Checkpoint(r, row, next)
        \/ /\ loc' = [loc EXCEPT ![r] = next] /\ UNCHANGED <<ledger, lock>>
           /\ union = loc[r].cur.target
    BY <2>4 DEF pc
  <2> HIDE DEF next
  <2>8. FoundSafe(next, board') /\ next.pc \notin BeforeRow
    BY <1>1, <2>5, <2>6, SelfHolds DEF FoundSafe, BeforeRow
  <2>9. CASE Checkpoint(r, row, next)
    <3>1. PlaceSafe(next.pc, row, indexed')
      BY <2>1, <2>3, <2>5, <2>6 DEF PlaceSafe, Targeted, Closing, Stored
    <3> QED
      BY <1>1, <2>2, <2>3, <2>6, <2>8, <2>9, <3>1, CheckpointTurn
  <2>10. CASE /\ loc' = [loc EXCEPT ![r] = next] /\ UNCHANGED <<ledger, lock>>
              /\ union = loc[r].cur.target
    <3>1. PlaceSafe(next.pc, next.cur, indexed')
      BY <2>1, <2>5, <2>6, <2>10 DEF PlaceSafe, Targeted, Closing, Stored
    <3> QED
      BY <1>1, <2>6, <2>8, <2>10, <3>1, MoveTurn
  <2> QED
    BY <2>7, <2>9, <2>10
<1>7. CASE CheckBeforePut(r)
  <2>1. PlaceSafe("put", loc[r].cur, indexed')
    BY <1>1, <1>7, SelfHolds DEF CheckBeforePut, PlaceSafe, Targeted, Closing, Stored
  <2> QED
    BY <1>1, <1>7, <2>1, EnsureAliveTurn DEF CheckBeforePut, PC, BeforeRow
<1>8. CASE SendPut(r)
  BY <1>4, <1>8 DEF SendPut, Targeted
<1>9. CASE PutReturns(r)
  BY <1>4, <1>9 DEF PutReturns, Targeted
<1>10. CASE PutFails(r)
  BY <1>3, <1>10 DEF PutFails
<1>11. CASE FetchAfter(r)
  <2>1. PlaceSafe("settle", loc[r].cur, indexed')
    BY <1>1, <1>11, SelfHolds DEF FetchAfter, PlaceSafe, Targeted, Closing, Stored
  <2> QED
    BY <1>2, <1>3, <1>11, <2>1 DEF FetchAfter
<1> QED
  BY <1>5, <1>6, <1>7, <1>8, <1>9, <1>10, <1>11

\* Settling keeps the identities of a row.
LEMMA SettledCards ==
  ASSUME NEW row \in SafeRow, NEW i \in Confirmed(row), NEW ph \in {"created", "attached"}
  PROVE  /\ ConfirmedCards(WithItem(row, i, ph, FALSE, row.card[i])) = ConfirmedCards(row)
         /\ WithItem(row, i, ph, FALSE, row.card[i]).target = row.target
<1> DEFINE new == WithItem(row, i, ph, FALSE, row.card[i])
<1>1. /\ new.phase = [row.phase EXCEPT ![i] = ph] /\ new.target = row.target
      /\ new.card = [row.card EXCEPT ![i] = row.card[i]]
  BY DEF WithItem, SafeRow, Row
<1>2. /\ row.card \in [Idx -> Card \cup {NoCard}] /\ row.phase \in [Idx -> Phase]
      /\ i \in Idx /\ row.phase[i] \in {"created", "attached"}
  BY DEF SafeRow, Row, Confirmed, InPhase
<1>3. new.card = row.card
  BY <1>1, <1>2
<1> HIDE DEF new
<1>4. Confirmed(new) = Confirmed(row)
  BY <1>1, <1>2 DEF Confirmed, InPhase
<1>5. ConfirmedCards(new) = ConfirmedCards(row)
  BY <1>3, <1>4 DEF ConfirmedCards
<1> QED
  BY <1>1, <1>5 DEF new

\* Settling, the write-through and the end: board_complete and complete are
\* written when they are true.
LEMMA FinishTurn ==
  ASSUME Base, Kept, NEW r \in Runner,
         \/ SettlePhase(r) \/ BoardComplete(r) \/ VerifyParent(r)
         \/ CheckBeforeIndex(r) \/ WriteThrough(r) \/ CheckBeforeComplete(r)
         \/ Complete(r)
  PROVE  Turn(r)
<1> DEFINE me == loc[r]
<1>1. /\ me.pc \in {"settle", "verify", "checkIndex", "index", "checkComplete", "complete"}
      /\ me.pc \notin BeforeRow
  BY DEF SettlePhase, BoardComplete, VerifyParent, CheckBeforeIndex, WriteThrough,
         CheckBeforeComplete, Complete, BeforeRow
<1>2. /\ me \in Local /\ me.cur \in SafeRow /\ Honest(me.cur, board', indexed')
      /\ me.cur.status # "complete" /\ PlaceSafe(me.pc, me.cur, indexed')
      /\ FoundSafe(me, board')
  BY <1>1, SelfHolds
<1>3. ASSUME CheckpointAndReturn(r, me.cur) PROVE Turn(r)
  BY <1>1, <1>3, LastTurnSame
<1>4. ASSUME Return(r), UNCHANGED ledger PROVE Turn(r)
  BY <1>4, ReturnTurn DEF Return
<1>5. ASSUME NEW pc \in {"checkIndex", "checkComplete"}, Goto(r, pc), UNCHANGED ledger,
             me.pc \in Closing,
             pc = "checkComplete" => ConfirmedCards(me.cur) \subseteq indexed'
      PROVE  Turn(r)
  <2>1. PlaceSafe(pc, me.cur, indexed')
    BY <1>2, <1>5 DEF PlaceSafe, Targeted, Closing, Stored
  <2> QED
    BY <1>1, <1>5, <2>1, GotoTurn DEF PC, BeforeRow
<1>6. CASE SettlePhase(r)
  <2>1. PICK i \in Confirmed(me.cur) :
          Checkpoint(r, WithItem(me.cur, i, DesiredPhase(me, i), FALSE, me.cur.card[i]), me)
    BY <1>6 DEF SettlePhase, First, Unsettled
  <2> DEFINE ph == DesiredPhase(me, i)
             c == me.cur.card[i]
             row == WithItem(me.cur, i, ph, FALSE, c)
  <2>2. i \in Idx /\ ph \in {"created", "attached"} /\ me.pc = "settle"
    BY <1>6 DEF Confirmed, InPhase, DesiredPhase, SettlePhase
  <2>3. ItemArgs(ph, FALSE, c) /\ board'[c] = Marker(me.cur.req, i)
    BY <1>2, <2>2 DEF ItemArgs, Phase, Confirmed, InPhase, SafeRow, Row, ItemValid,
                      Honest, Marked
  <2> HIDE DEF me, ph, c
  <2>4. Honest(row, board', indexed') /\ row.status # "complete"
    BY <1>2, <2>2, <2>3, HonestItem
  <2>5. Successor(row, me.cur)
    BY <1>2, <2>2, <2>3, ItemSuccessor
  <2>6. ConfirmedCards(row) = ConfirmedCards(me.cur) /\ row.target = me.cur.target
    BY <1>2, <2>2, SettledCards DEF c
  <2> HIDE DEF row
  <2>7. PlaceSafe(me.pc, row, indexed')
    BY <1>2, <2>2, <2>6 DEF PlaceSafe, Targeted, Closing, Stored
  <2>8. Checkpoint(r, row, me)
    BY <2>1 DEF row, ph, c
  <2> QED
    BY <1>1, <1>2, <2>4, <2>5, <2>7, <2>8, CheckpointTurn DEF me
<1>7. CASE BoardComplete(r)
  <2> DEFINE row == [me.cur EXCEPT !.status = "board_complete"]
             next == [me EXCEPT !.pc = "checkIndex"]
  <2>1. CASE AllAttached(me.cur) /\ Checkpoint(r, row, next)
    <3>1. Successor(row, me.cur)
      BY <1>2, RowSuccessor DEF Status
    <3>2. ConfirmedCards(me.cur) \subseteq me.cur.target
      BY <1>2, <1>7 DEF BoardComplete, PlaceSafe, Targeted
    <3>3. Honest(row, board', indexed') /\ row.status = "board_complete"
      <4> HIDE DEF me
      <4> QED
        BY <1>2, <2>1, <3>2, HonestField
    <3>4. next \in Local /\ next.pc = "checkIndex" /\ next.found = me.found
          /\ next.req = me.req
      BY <1>2 DEF Local, PC
    <3> HIDE DEF row, next
    <3>5. FoundSafe(next, board') /\ PlaceSafe(next.pc, row, indexed')
      BY <1>1, <1>2, <3>3, <3>4
      DEF FoundSafe, PlaceSafe, Targeted, Closing, Stored, BeforeRow
    <3> QED
      BY <1>1, <2>1, <3>1, <3>3, <3>4, <3>5, CheckpointTurn
  <2> QED
    BY <1>4, <1>7, <2>1 DEF BoardComplete
<1>8. CASE VerifyParent(r)
  BY <1>3, <1>4, <1>5, <1>8 DEF VerifyParent, Closing
<1>9. CASE CheckBeforeIndex(r)
  <2>1. PlaceSafe("index", me.cur, indexed')
    BY <1>2, <1>9 DEF CheckBeforeIndex, PlaceSafe, Targeted, Closing, Stored
  <2> QED
    BY <1>1, <1>9, <2>1, EnsureAliveTurn DEF CheckBeforeIndex, PC, BeforeRow
<1>10. CASE WriteThrough(r)
  <2>1. me.pc \in Closing
    BY <1>10 DEF WriteThrough, Closing
  <2>2. ASSUME indexed' = indexed \cup ConfirmedCards(me.cur), Goto(r, "checkComplete"),
               UNCHANGED ledger
        PROVE  Turn(r)
    BY <1>5, <2>1, <2>2
  <2> QED
    BY <1>3, <1>10, <2>2 DEF WriteThrough
<1>11. CASE CheckBeforeComplete(r)
  <2>1. PlaceSafe("complete", me.cur, indexed')
    BY <1>2, <1>11 DEF CheckBeforeComplete, PlaceSafe, Targeted, Closing, Stored
  <2> QED
    BY <1>1, <1>11, <2>1, EnsureAliveTurn DEF CheckBeforeComplete, PC, BeforeRow
<1>12. CASE Complete(r)
  <2> DEFINE row == [me.cur EXCEPT !.status = "complete"]
  <2>1. Successor(row, me.cur)
    BY <1>2, RowSuccessor DEF Status
  <2>2. /\ me.cur.status = "board_complete"
        /\ ConfirmedCards(me.cur) \subseteq indexed'
    BY <1>2, <1>12 DEF Complete, PlaceSafe, Closing, Stored
  <2>3. AllAttached(me.cur) /\ ConfirmedCards(me.cur) \subseteq me.cur.target
    BY <1>2, <2>2 DEF Honest, StatusValid, AllAttached
  <2>4. Honest(row, board', indexed')
    <3> HIDE DEF me
    <3> QED
      BY <1>2, <2>2, <2>3, HonestField
  <2> HIDE DEF row
  <2> QED
    BY <1>1, <1>12, <2>1, <2>4, LastTurn DEF Complete, row
<1> QED
  BY <1>6, <1>7, <1>8, <1>9, <1>10, <1>11, <1>12

----------------------------------------------------------------------------
(* The board and the store only grow, so what a step finds stays honest.   *)

MarksStay == \A c \in Card : board[c] # NoSlot => board'[c] = board[c]

\* A runner never touches the markers itself, and only adds to the store.
LEMMA RunnerWorld ==
  ASSUME NEW r \in Runner, RunnerStep(r) \/ \E q \in Request : Start(r, q)
  PROVE  board' = board /\ indexed \subseteq indexed'
<1>1. CASE \E q \in Request : Start(r, q)
  BY <1>1 DEF Start, boardVars
<1>2. CASE \/ Load(r) \/ FetchParent(r) \/ LateLoad(r) \/ TryParentLock(r)
           \/ Reload(r) \/ Insert(r) \/ ScanMarkers(r) \/ Reconcile(r)
  BY <1>2 DEF Load, FetchParent, LateLoad, TryParentLock, Reload, Insert, ScanMarkers,
              Reconcile, Evaluate, boardVars
<1>3. CASE \/ MarkInFlight(r) \/ CheckBeforePost(r) \/ SendPost(r)
           \/ PostReturns(r) \/ PostFails(r) \/ RecordPost(r)
  BY <1>3 DEF MarkInFlight, CheckBeforePost, SendPost, PostReturns, PostFails,
              RecordPost, EnsureAlive, boardVars
<1>4. CASE \/ FetchBefore(r) \/ AttachTarget(r) \/ CheckBeforePut(r) \/ SendPut(r)
           \/ PutReturns(r) \/ PutFails(r) \/ FetchAfter(r)
  BY <1>4 DEF FetchBefore, AttachTarget, CheckBeforePut, SendPut, PutReturns,
              PutFails, FetchAfter, EnsureAlive, boardVars
<1>5. CASE \/ SettlePhase(r) \/ BoardComplete(r) \/ VerifyParent(r)
           \/ CheckBeforeIndex(r) \/ CheckBeforeComplete(r) \/ Complete(r)
  BY <1>5 DEF SettlePhase, BoardComplete, VerifyParent, CheckBeforeIndex,
              CheckBeforeComplete, Complete, EnsureAlive, boardVars
<1>6. CASE WriteThrough(r)
  BY <1>6 DEF WriteThrough
<1> QED
  BY <1>1, <1>2, <1>3, <1>4, <1>5, <1>6 DEF RunnerStep

LEMMA World ==
  ASSUME Base, Next
  PROVE  MarksStay /\ indexed \subseteq indexed'
<1>1. CASE \E r \in Runner : RunnerStep(r) \/ \E q \in Request : Start(r, q)
  BY <1>1, RunnerWorld DEF MarksStay
<1>2. CASE \E r \in Runner : LoseLock(r) \/ Crash(r)
  BY <1>2 DEF LoseLock, Crash, MarksStay, boardVars
<1>3. CASE BoardStep \/ PersonStep
  BY <1>3 DEF BoardStep, PersonStep, BoardCreates, BoardReplaces, PersonAttaches,
              PersonDetaches, PersonCopies, MarksStay, Base, BoardType
<1> QED
  BY <1>1, <1>2, <1>3 DEF Next

LEMMA HoldsGrows ==
  ASSUME NEW me \in Local, LocalSafe(me), NEW marks, NEW next, NEW stored, NEW later,
         Holds(me, marks, stored), stored \subseteq later,
         \A c \in Card : marks[c] # NoSlot => next[c] = marks[c]
  PROVE  Holds(me, next, later)
<1>1. CASE me.pc \notin BeforeRow
  <2>1. me.cur \in SafeRow /\ me.req \in Request
    BY <1>1 DEF LocalSafe, BeforeRow
  <2>2. Honest(me.cur, marks, stored)
    BY <1>1 DEF Holds
  <2>3. Honest(me.cur, next, later)
    BY <2>1, <2>2, HonestGrows
  <2>4. FoundSafe(me, next)
    <3>1. ASSUME NEW i \in Idx, me.found[i] # NoCard
          PROVE  next[me.found[i]] = Marker(me.req, i)
      <4>1. me.found[i] \in Card
        BY <3>1 DEF Local
      <4>2. marks[me.found[i]] = Marker(me.req, i)
        BY <3>1 DEF Holds, FoundSafe
      <4>3. Marker(me.req, i) # NoSlot
        BY <2>1, NoneAssumption DEF Marker, Slot
      <4> QED
        BY <4>1, <4>2, <4>3
    <3> QED
      BY <1>1, <3>1 DEF FoundSafe
  <2> QED
    BY <1>1, <2>3, <2>4 DEF Holds, PlaceSafe
<1>2. CASE me.pc \in BeforeRow
  BY <1>2 DEF Holds, FoundSafe
<1> QED
  BY <1>1, <1>2

LEMMA KeptNext == ASSUME HInv, Next PROVE Kept
<1>1. Base /\ AllHonest(board, indexed) /\ MarksStay /\ indexed \subseteq indexed'
  BY World DEF HInv, IInv
<1>2. ASSUME NEW k \in Key, ledger[k] # NoRow
      PROVE  Honest(ledger[k], board', indexed')
  <2>1. ledger[k] \in SafeRow /\ Honest(ledger[k], board, indexed)
    BY <1>1, <1>2 DEF Base, Core, RowsType, AllHonest
  <2> QED
    BY <1>1, <2>1, HonestGrows DEF MarksStay
<1>3. ASSUME NEW r \in Runner
      PROVE  Holds(loc[r], board', indexed')
  <2>1. loc[r] \in Local /\ LocalSafe(loc[r]) /\ Holds(loc[r], board, indexed)
    BY <1>1 DEF Base, Core, AllHonest
  <2> QED
    BY <1>1, <2>1, HoldsGrows DEF MarksStay
<1> QED
  BY <1>2, <1>3 DEF Kept, AllHonest

\* A turn leaves all rows and runners honest.
LEMMA TurnHonest ==
  ASSUME Base, Kept, NEW r \in Runner, Turn(r)
  PROVE  AllHonest(board, indexed)'
<1>1. PICK x \in Local : /\ loc' = [loc EXCEPT ![r] = x]
                         /\ Holds(x, board', indexed')
  BY DEF Turn
<1>2. loc \in [Runner -> Local] /\ RowsType(ledger)
  BY DEF Base, Core
<1>3. \A s \in Runner : Holds(loc'[s], board', indexed')
  BY <1>1, <1>2 DEF Kept, AllHonest
<1>4. \A k \in Key : ledger'[k] # NoRow => Honest(ledger'[k], board', indexed')
  <2>1. CASE ledger' = ledger
    BY <2>1 DEF Kept, AllHonest
  <2>2. CASE Writes(r)
    <3>1. PICK row : /\ ledger' = [ledger EXCEPT ![KeyAt(r)] = row]
                     /\ Honest(row, board', indexed')
      BY <2>2 DEF Writes
    <3> QED
      BY <1>2, <3>1 DEF Kept, AllHonest, RowsType
  <2> QED
    BY <2>1, <2>2 DEF Turn
<1> QED
  BY <1>3, <1>4 DEF AllHonest

LEMMA AnyTurn ==
  ASSUME Base, Kept, NEW r \in Runner,
         RunnerStep(r) \/ (\E q \in Request : Start(r, q)) \/ Crash(r)
  PROVE  Turn(r)
<1>1. CASE Crash(r)
  BY <1>1, ReturnTurn DEF Crash, Return
<1>2. CASE \E q \in Request : Start(r, q)
  BY <1>2, StartTurn
<1>3. CASE RunnerStep(r)
  BY <1>3, PreflightTurn, OpenRowTurn, ScanMarkersTurn, ReconcileTurn, MarkInFlightTurn,
     PostTurn, AttachTurn, FinishTurn DEF RunnerStep
<1> QED
  BY <1>1, <1>2, <1>3

\* A copy of a card carries a marker that is on the board already.
LEMMA OriginalNext ==
  ASSUME Base, HasOriginal, [Next]_vars
  PROVE  HasOriginal'
<1>1. board \in [Card -> Slot \cup {NoSlot}]
  BY DEF Base, BoardType
<1>2. CASE board' = board
  BY <1>2 DEF HasOriginal, CardsMarked, CardsMade
<1>3. ASSUME NEW m \in posts, NEW c \in Card, BoardCreates(m, c) PROVE HasOriginal'
  <2>1. /\ c \notin External /\ board[c] = NoSlot
        /\ board' = [board EXCEPT ![c] = m.slot]
    BY <1>3 DEF BoardCreates
  <2>2. ASSUME NEW slot \in Slot, CardsMarked(slot)' # {} PROVE CardsMade(slot)' # {}
    <3>1. CASE slot = m.slot
      BY <1>1, <2>1, <3>1 DEF CardsMarked, CardsMade
    <3>2. CASE slot # m.slot
      <4>1. CardsMarked(slot)' = CardsMarked(slot)
        BY <1>1, <2>1, <3>2, NoneAssumption DEF CardsMarked
      <4> QED
        BY <2>2, <4>1 DEF HasOriginal, CardsMade
    <3> QED
      BY <3>1, <3>2
  <2> QED
    BY <2>2 DEF HasOriginal
<1>4. ASSUME NEW c \in Card, NEW d \in Card, PersonCopies(c, d) PROVE HasOriginal'
  <2>1. /\ board[c] # NoSlot /\ board[d] = NoSlot
        /\ board' = [board EXCEPT ![d] = board[c]]
    BY <1>4 DEF PersonCopies
  <2>2. ASSUME NEW slot \in Slot, CardsMarked(slot)' # {} PROVE CardsMade(slot)' # {}
    <3>1. CardsMarked(slot) # {}
      BY <1>1, <2>1, <2>2 DEF CardsMarked
    <3>2. PICK e \in CardsMade(slot) : TRUE
      BY <3>1 DEF HasOriginal
    <3>3. e \in CardsMade(slot)'
      BY <1>1, <2>1, <3>2, NoneAssumption DEF CardsMade, CardsMarked
    <3> QED
      BY <3>3
  <2> QED
    BY <2>2 DEF HasOriginal
<1>5. \/ board' = board
      \/ \E m \in posts, c \in Card : BoardCreates(m, c)
      \/ \E c, d \in Card : PersonCopies(c, d)
  <2>1. CASE \E r \in Runner : RunnerStep(r) \/ \E q \in Request : Start(r, q)
    BY <2>1, RunnerWorld
  <2>2. CASE \E r \in Runner : LoseLock(r) \/ Crash(r)
    BY <2>2 DEF LoseLock, Crash, boardVars
  <2>3. CASE BoardStep \/ PersonStep
    BY <2>3 DEF BoardStep, PersonStep, BoardReplaces, PersonAttaches, PersonDetaches
  <2>4. CASE UNCHANGED vars
    BY <2>4 DEF vars
  <2> QED
    BY <2>1, <2>2, <2>3, <2>4 DEF Next
<1> QED
  BY <1>2, <1>3, <1>4, <1>5

LEMMA HInvInit == ASSUME Init PROVE HInv
<1>1. HasOriginal
  BY NoneAssumption DEF Init, HasOriginal, CardsMarked
<1>2. AllHonest(board, indexed)
  BY IdleHolds DEF Init, AllHonest
<1> QED
  BY <1>1, <1>2, IInvInit DEF HInv

LEMMA HInvNext == ASSUME HInv, [Next]_vars PROVE HInv'
<1>1. IInv' /\ HasOriginal'
  BY IInvNext, OriginalNext DEF HInv, IInv
<1>2. AllHonest(board, indexed)'
  <2>1. CASE UNCHANGED vars
    BY <2>1 DEF vars, HInv, AllHonest
  <2>2. CASE Next
    <3>1. Base /\ Kept
      BY <2>2, KeptNext DEF HInv, IInv
    <3>2. CASE \E r \in Runner :
                 RunnerStep(r) \/ (\E q \in Request : Start(r, q)) \/ Crash(r)
      BY <3>1, <3>2, AnyTurn, TurnHonest
    <3>3. CASE \/ \E r \in Runner : LoseLock(r)
               \/ BoardStep \/ PersonStep
      <4>1. UNCHANGED <<ledger, loc>>
        BY <3>1, <3>3, OutsideStep DEF LoseLock
      <4> QED
        BY <3>1, <4>1 DEF Kept, AllHonest
    <3> QED
      BY <2>2, <3>2, <3>3 DEF Next
  <2> QED
    BY <2>1, <2>2
<1> QED
  BY <1>1, <1>2 DEF HInv

\* HInv holds in every reachable state.
THEOREM HonestInvariant == Spec => []HInv
<1>1. Init => HInv
  BY HInvInit
<1>2. HInv /\ [Next]_vars => HInv'
  BY HInvNext
<1> QED
  BY <1>1, <1>2, PTL DEF Spec

\* Whatever fails and however the runs of create_subtasks interleave, no row
\* they leave behind is refused by _validate_persisted_operation.
THEOREM Loadable == Spec => []LedgerLoadable
<1>1. HInv => LedgerLoadable
  BY HonestValid DEF HInv, IInv, Base, Core, RowsType, AllHonest, LedgerLoadable
<1> QED
  BY <1>1, HonestInvariant, PTL

\* A row that says "complete" is right: each draft has its own card with its
\* marker on the board, and the task store has been given it (run()).
THEOREM CompleteReal == Spec => []CompleteIsReal
<1>1. ASSUME HInv, NEW k \in Key, ledger[k] # NoRow, ledger[k].status = "complete",
             NEW i \in Idx
      PROVE  /\ ledger[k].card[i] \in indexed
             /\ board[ledger[k].card[i]] = Marker(ledger[k].req, i)
  <2>1. Honest(ledger[k], board, indexed)
    BY <1>1 DEF HInv, AllHonest
  <2>2. i \in Confirmed(ledger[k])
    BY <1>1, <2>1 DEF Honest, StatusValid, Confirmed, InPhase
  <2> QED
    BY <1>1, <2>1, <2>2 DEF Honest, Marked, ConfirmedCards
<1>2. HInv => CompleteIsReal
  BY <1>1 DEF CompleteIsReal
<1> QED
  BY <1>2, HonestInvariant, PTL

----------------------------------------------------------------------------
(* SubtaskLedger implements SubtaskPromise.                                *)

\* the refinement mapping of SubtaskLedger!Promise, by parts
Owner == [k \in Key |-> IF ledger[k] = NoRow THEN NoRequest ELSE ledger[k].req]
Cards == [slot \in Slot |-> CardsMade(slot)]
Done == {q \in Request : /\ ledger[KeyOf[q]] # NoRow
                         /\ ledger[KeyOf[q]].req = q
                         /\ ledger[KeyOf[q]].status = "complete"}

LEMMA PromiseInit == Init => Promise!Init
<1>1. ASSUME Init PROVE Owner = [k \in Key |-> NoRequest]
  BY <1>1 DEF Init, Owner
<1>2. ASSUME Init PROVE Cards = [s \in Request \X Idx |-> {}]
  BY <1>2, NoneAssumption DEF Init, Cards, CardsMade, CardsMarked, Slot
<1>3. ASSUME Init PROVE Done = {}
  BY <1>3, RequestAssumption DEF Init, Done
<1> QED
  BY <1>1, <1>2, <1>3 DEF Promise!Init, Owner, Cards, Done

\* A row that becomes complete finishes its payload, whose cards are there.
LEMMA FinishIsReal ==
  ASSUME Base, HasOriginal', board' = board, board' \in [Card -> Slot \cup {NoSlot}],
         NEW row \in SafeRow, Honest(row, board', indexed'), row.status = "complete",
         row.req \in Request, NEW d \in Idx
  PROVE  Cards[<<row.req, d>>] # {}
<1>1. d \in Confirmed(row) /\ row.card[d] \in Card
  BY DEF Honest, StatusValid, Confirmed, InPhase, SafeRow, Row, ItemValid
<1>2. board'[row.card[d]] = <<row.req, d>>
  BY <1>1 DEF Honest, Marked, Marker
<1>3. <<row.req, d>> \in Slot
  BY DEF Slot
<1>4. CardsMarked(<<row.req, d>>)' # {}
  BY <1>1, <1>2 DEF CardsMarked
<1>5. CardsMade(<<row.req, d>>)' # {}
  BY <1>3, <1>4 DEF HasOriginal
<1>6. CardsMade(<<row.req, d>>) # {}
  BY <1>5 DEF CardsMade, CardsMarked
<1> QED
  BY <1>3, <1>6 DEF Cards

\* A turn accepts a payload, finishes one, or changes nothing of the promise.
LEMMA TurnKeepsPromise ==
  ASSUME HInv, HInv', NEW r \in Runner, Turn(r), board' = board
  PROVE  \/ \E q \in Request : Promise!Accept(q) \/ Promise!Finish(q)
         \/ UNCHANGED Promise!promiseVars
<1>1. Base /\ HasOriginal' /\ board' \in [Card -> Slot \cup {NoSlot}]
      /\ RowsType(ledger) /\ HasOriginal
  BY DEF HInv, IInv, Base, BoardType, Core
<1>2. Cards' = Cards
  BY DEF Cards, CardsMade, CardsMarked
<1>3. CASE ledger' = ledger
  <2>1. Owner' = Owner /\ Done' = Done
    BY <1>3 DEF Owner, Done
  <2> QED
    BY <1>2, <2>1 DEF Promise!promiseVars, Owner, Cards, Done
<1>4. CASE Writes(r)
  <2>1. PICK row \in SafeRow :
          /\ ledger' = [ledger EXCEPT ![KeyAt(r)] = row]
          /\ Honest(row, board', indexed')
          /\ row.req = loc[r].req /\ row.req \in Request
          /\ \/ ledger[KeyAt(r)] = NoRow /\ row.status # "complete"
             \/ /\ ledger[KeyAt(r)] # NoRow
                /\ ledger[KeyAt(r)].req = row.req
                /\ ledger[KeyAt(r)].status # "complete"
    BY <1>4 DEF Writes
  <2> DEFINE q == row.req
             k == KeyOf[q]
  <2>2. q \in Request /\ k \in Key /\ k = KeyAt(r)
    BY <2>1, RequestAssumption DEF KeyAt
  <2>3. /\ ledger'[k] = row /\ row # NoRow
        /\ \A j \in Key \ {k} : ledger'[j] = ledger[j]
    BY <1>1, <2>1, <2>2, NoRowAssumption DEF RowsType, SafeRow
  <2>4. \A p \in Request : KeyOf[p] # k => (p \in Done' <=> p \in Done)
    BY <2>3, RequestAssumption DEF Done
  <2>5. \A p \in Request : KeyOf[p] = k /\ p # q => p \notin Done'
    BY <2>3 DEF Done
  <2>6. \A p \in Request : KeyOf[p] = k => p \notin Done
    BY <2>1, <2>2 DEF Done
  <2>7. CASE ledger[k] = NoRow
    <3>1. Owner[k] = NoRequest /\ Owner' = [Owner EXCEPT ![k] = q]
      BY <2>2, <2>3, <2>7 DEF Owner
    <3>2. q \notin Done'
      BY <2>1, <2>2, <2>3, <2>7 DEF Done
    <3>3. Done' = Done
      BY <2>2, <2>4, <2>5, <2>6, <3>2 DEF Done
    <3>4. Promise!Accept(q)
      BY <1>2, <3>1, <3>3 DEF Promise!Accept, Owner, Cards, Done
    <3> QED
      BY <2>2, <3>4
  <2>8. CASE ledger[k] # NoRow
    <3>1. Owner[k] = q /\ Owner' = Owner
      BY <2>1, <2>2, <2>3, <2>8 DEF Owner
    <3>2. CASE row.status = "complete"
      <4>1. \A d \in Idx : Cards[<<q, d>>] # {}
        BY <1>1, <2>1, <3>2, FinishIsReal
      <4>2. q \in Done'
        BY <2>2, <2>3, <3>2 DEF Done
      <4>3. Done' = Done \cup {q}
        BY <2>2, <2>4, <2>5, <2>6, <4>2 DEF Done
      <4>4. Promise!Finish(q)
        BY <1>2, <3>1, <4>1, <4>3 DEF Promise!Finish, Owner, Cards, Done
      <4> QED
        BY <2>2, <4>4
    <3>3. CASE row.status # "complete"
      <4>1. q \notin Done'
        BY <2>2, <2>3, <3>3 DEF Done
      <4>2. Done' = Done
        BY <2>2, <2>4, <2>5, <2>6, <4>1 DEF Done
      <4> QED
        BY <1>2, <3>1, <4>2 DEF Promise!promiseVars, Owner, Cards, Done
    <3> QED
      BY <3>2, <3>3
  <2> QED
    BY <2>7, <2>8
<1> QED
  BY <1>3, <1>4 DEF Turn

\* A POST that the board carries out makes the one card of its draft.
LEMMA BoardMakesCard ==
  ASSUME HInv, NEW m \in posts, NEW c \in Card, BoardCreates(m, c)
  PROVE  \E s \in Request \X Idx : Promise!MakeCard(s, c)
<1> DEFINE s == m.slot
<1>1. /\ s \in Slot /\ board \in [Card -> Slot \cup {NoSlot}]
      /\ c \notin External /\ board[c] = NoSlot
      /\ board' = [board EXCEPT ![c] = s] /\ ledger' = ledger
  BY DEF HInv, IInv, Base, BoardType, Post, BoardCreates
<1> HIDE DEF s
<1>2. PostsFor(s) # {} /\ SlotSafe(s)
  BY <1>1 DEF s, HInv, IInv, PostsFor
<1>3. Owner[KeyOf[s[1]]] = s[1]
  <2>1. Announced(s)
    BY <1>2 DEF SlotSafe
  <2>2. KeyOf[s[1]] \in Key
    BY <1>1, RequestAssumption DEF Slot
  <2> QED
    BY <2>1, <2>2 DEF Announced, Owner
<1>4. CardsMade(s) = {}
  BY <1>2 DEF SlotSafe
<1>5. \A t \in Slot : c \notin CardsMade(t)
  BY <1>1, NoneAssumption DEF CardsMade, CardsMarked
<1>6. CardsMade(s)' = {c}
  BY <1>1, <1>4 DEF CardsMade, CardsMarked
<1>7. \A t \in Slot : t # s => CardsMade(t)' = CardsMade(t)
  BY <1>1, NoneAssumption DEF CardsMade, CardsMarked
<1>8. Cards[s] = {} /\ \A t \in Slot : c \notin Cards[t]
  BY <1>1, <1>4, <1>5 DEF Cards
<1>9. Cards' = [Cards EXCEPT ![s] = {c}]
  BY <1>1, <1>6, <1>7 DEF Cards
<1>10. Owner' = Owner /\ Done' = Done
  BY <1>1 DEF Owner, Done
<1>11. Promise!MakeCard(s, c)
  BY <1>3, <1>8, <1>9, <1>10 DEF Promise!MakeCard, Owner, Cards, Done, Slot
<1> QED
  BY <1>1, <1>11 DEF Slot

LEMMA PromiseNext ==
  ASSUME HInv, HInv', [Next]_vars
  PROVE  [Promise!Next]_(Promise!promiseVars)
<1>1. Base /\ (Next => Kept)
  BY KeptNext DEF HInv, IInv
<1>2. CASE \E r \in Runner :
             RunnerStep(r) \/ (\E q \in Request : Start(r, q)) \/ Crash(r)
  <2>1. PICK r \in Runner :
          RunnerStep(r) \/ (\E q \in Request : Start(r, q)) \/ Crash(r)
    BY <1>2
  <2>2. Next
    BY <2>1 DEF Next
  <2>3. Turn(r) /\ board' = board
    BY <1>1, <2>1, <2>2, AnyTurn, RunnerWorld DEF Crash
  <2>4. \/ \E q \in Request : Promise!Accept(q) \/ Promise!Finish(q)
        \/ UNCHANGED Promise!promiseVars
    BY <2>3, TurnKeepsPromise
  <2> QED
    BY <2>4 DEF Promise!Next
<1>3. CASE \E m \in posts, c \in Card : BoardCreates(m, c)
  BY <1>3, BoardMakesCard DEF Promise!Next
<1>4. CASE \/ UNCHANGED vars
           \/ \E r \in Runner : LoseLock(r)
           \/ \E m \in puts : BoardReplaces(m)
           \/ PersonStep
  <2>1. UNCHANGED ledger
    BY <1>4 DEF vars, LoseLock, BoardReplaces, PersonStep, PersonAttaches, PersonDetaches,
                PersonCopies
  <2>2. Owner' = Owner /\ Done' = Done
    BY <2>1 DEF Owner, Done
  <2>3. \A slot \in Slot : CardsMade(slot)' = CardsMade(slot)
    <3>1. CASE board' = board
      BY <3>1 DEF CardsMade, CardsMarked
    <3>2. ASSUME NEW c \in Card, NEW d \in Card, PersonCopies(c, d)
          PROVE  \A slot \in Slot : CardsMade(slot)' = CardsMade(slot)
      BY <1>1, <3>2 DEF PersonCopies, CardsMade, CardsMarked, Base, BoardType
    <3> QED
      BY <1>4, <3>1, <3>2 DEF vars, LoseLock, BoardReplaces, PersonStep, PersonAttaches,
                              PersonDetaches, boardVars
  <2>4. Cards' = Cards
    BY <2>3 DEF Cards
  <2> QED
    BY <2>2, <2>4 DEF Promise!promiseVars, Owner, Cards, Done
<1> QED
  BY <1>2, <1>3, <1>4 DEF Next, BoardStep

\* create_subtasks keeps what docs/board-providers.md promises ("Durable
\* recovery", "Retry safety"): the ledger, its runners and the board together
\* implement SubtaskPromise, whatever fails.
THEOREM Refinement == Spec => KeepsPromise
<1>1. Init => Promise!Init
  BY PromiseInit
<1>2. HInv /\ HInv' /\ [Next]_vars => [Promise!Next]_(Promise!promiseVars)
  BY PromiseNext
<1> QED
  BY <1>1, <1>2, HonestInvariant, PTL DEF Spec, KeepsPromise, Promise!Spec

----------------------------------------------------------------------------
(* Finished batches stay attached, while locks live as long as their       *)
(* runners, no write arrives late and nobody detaches cards.               *)

Unlocked == {"idle", "load", "fetchParent", "late", "lock", "lockFresh"}
Putting == {"checkPut", "put", "putSent"}

\* the cards of every finished batch of the parent are in the list
Covers(rows, p, list) ==
  \A k \in Key :
    rows[k] # NoRow /\ rows[k].status = "complete" /\ ParentOf[rows[k].req] = p =>
      ConfirmedCards(rows[k]) \subseteq list

AttachSafe(r, me, rows, locks, lists) ==
  LET p == ParentOf[me.req]
  IN  /\ me.pc \notin Unlocked => locks[p] = r
      /\ me.pc = "attach" => Covers(rows, p, me.snap)
      /\ me.pc \in Putting => Covers(rows, p, me.cur.target)
      /\ me.pc \in Stored => ConfirmedCards(me.cur) \subseteq lists[p]

PutOf(r, me) == [parent |-> ParentOf[me.cur.req], ids |-> me.cur.target, by |-> r]

AInv ==
  /\ \A p \in Parent : Covers(ledger, p, subs[p])
  /\ \A r \in Runner : AttachSafe(r, loc[r], ledger, lock, subs)
  /\ \A m \in puts :
       /\ m.by \in Runner
       /\ loc[m.by].pc = "putSent"
       /\ m = PutOf(m.by, loc[m.by])

\* how a runner comes to its new place, as far as the lock is concerned
Stays(r, x) ==
  /\ lock' = lock
  /\ x.pc \notin Unlocked => loc[r].pc \notin Unlocked /\ x.req = loc[r].req
Enters(r, x) ==
  /\ loc[r].pc # "idle"
  /\ lock[ParentAt(r)] = Nobody
  /\ lock' = [lock EXCEPT ![ParentAt(r)] = r]
  /\ x.pc \in {"reload", "reloadFresh"} /\ x.req = loc[r].req
Leaves(r, x) ==
  /\ x = Idle
  /\ lock' = [p \in Parent |-> IF lock[p] = r THEN Nobody ELSE lock[p]]

\* what it brings along
Places(r, x) ==
  /\ x.pc = "attach" => x.snap = subs[ParentAt(r)]
  /\ x.pc = "checkPut" => loc[r].pc = "attach" /\ loc[r].snap \subseteq x.cur.target
  /\ x.pc \in {"put", "putSent"} =>
       loc[r].pc \in Putting /\ x.cur.target = loc[r].cur.target
  /\ x.pc \in Stored =>
       /\ ConfirmedCards(x.cur) = ConfirmedCards(loc[r].cur)
       /\ loc[r].pc \in Stored \/ ConfirmedCards(loc[r].cur) \subseteq subs[ParentAt(r)]

PutsAfter(r, x) ==
  \A m \in puts' :
    \/ m.by # r /\ m \in puts
    \/ m.by = r /\ x.pc = "putSent" /\ m = PutOf(r, x)

Completes(r) ==
  \A k \in Key :
    ledger'[k] # NoRow /\ ledger'[k].status = "complete" =>
      \/ ledger'[k] = ledger[k]
      \/ /\ loc[r].pc = "complete"
         /\ ledger'[k].req = loc[r].req
         /\ ConfirmedCards(ledger'[k]) = ConfirmedCards(loc[r].cur)

Locked(r) ==
  /\ \E x \in Local : /\ loc' = [loc EXCEPT ![r] = x]
                      /\ Stays(r, x) \/ Enters(r, x) \/ Leaves(r, x)
                      /\ Places(r, x) /\ PutsAfter(r, x)
  /\ Completes(r)
  /\ subs' = subs

\* A step of this kind disturbs no other runner of the parent: that one would
\* hold the lock.
LEMMA LockedSafe ==
  ASSUME Base, AInv, NEW r \in Runner, Locked(r)
  PROVE  AInv'
<1>1. PICK x \in Local : /\ loc' = [loc EXCEPT ![r] = x]
                         /\ Stays(r, x) \/ Enters(r, x) \/ Leaves(r, x)
                         /\ Places(r, x) /\ PutsAfter(r, x)
  BY DEF Locked
<1>2. /\ loc \in [Runner -> Local] /\ lock \in [Parent -> Runner \cup {Nobody}]
      /\ subs' = subs /\ Completes(r)
      /\ loc'[r] = x /\ \A s \in Runner \ {r} : loc'[s] = loc[s]
  BY <1>1 DEF Base, Core, Locked
<1>3. AttachSafe(r, loc[r], ledger, lock, subs)
  BY DEF AInv
\* only the parent of r can get another finished batch, and r holds its lock
<1>4. ASSUME NEW p, NEW list, Covers(ledger, p, list),
             loc[r].pc # "complete" \/ p # ParentAt(r)
      PROVE  Covers(ledger', p, list)
  BY <1>2, <1>4 DEF Covers, Completes, ParentAt
<1>5. ASSUME NEW p \in Parent
      PROVE  Covers(ledger', p, subs[p])
  <2>1. Covers(ledger, p, subs[p])
    BY DEF AInv
  <2>2. CASE loc[r].pc # "complete" \/ p # ParentAt(r)
    BY <1>4, <2>1, <2>2
  <2>3. CASE loc[r].pc = "complete" /\ p = ParentAt(r)
    <3>1. ConfirmedCards(loc[r].cur) \subseteq subs[p]
      BY <1>3, <2>3 DEF AttachSafe, Stored, ParentAt
    <3> QED
      BY <1>2, <2>1, <3>1 DEF Covers, Completes
  <2> QED
    BY <2>2, <2>3
<1>6. ASSUME NEW s \in Runner, s # r
      PROVE  AttachSafe(s, loc[s], ledger', lock', subs)
  <2> DEFINE p == ParentOf[loc[s].req]
  <2>1. AttachSafe(s, loc[s], ledger, lock, subs)
    BY DEF AInv
  <2>2. CASE loc[s].pc \in Unlocked
    BY <2>2 DEF AttachSafe, Unlocked, Putting, Stored
  <2>3. CASE loc[s].pc \notin Unlocked
    <3>1. lock[p] = s
      BY <2>1, <2>3 DEF AttachSafe
    <3>2. p \in Parent
      BY <2>3, Self DEF Unlocked, Base, ParentAt
    <3>3. lock'[p] = s
      BY <1>1, <1>2, <1>6, <3>1, <3>2, NoneAssumption DEF Stays, Enters, Leaves
    <3>4. loc[r].pc # "complete" \/ p # ParentAt(r)
      BY <1>3, <1>6, <3>1 DEF AttachSafe, Unlocked, ParentAt
    <3>5. \A list : Covers(ledger, p, list) => Covers(ledger', p, list)
      BY <1>4, <3>4
    <3> QED
      BY <2>1, <3>3, <3>5 DEF AttachSafe
  <2> QED
    BY <2>2, <2>3
<1>7. AttachSafe(r, x, ledger', lock', subs)
  <2>1. CASE x.pc \in Unlocked
    BY <2>1 DEF AttachSafe, Unlocked, Putting, Stored
  <2>2. CASE x.pc \notin Unlocked
    <3> DEFINE p == ParentAt(r)
    <3>1. /\ x.req = loc[r].req /\ loc[r].pc # "idle"
          /\ Stays(r, x) \/ Enters(r, x)
      BY <1>1, <2>2, IdleType DEF Stays, Enters, Leaves, Unlocked
    <3>2. p \in Parent /\ p = ParentOf[x.req]
      BY <3>1, Self DEF Base, ParentAt
    <3>3. lock'[p] = r
      BY <1>2, <1>3, <2>2, <3>1, <3>2 DEF Stays, Enters, AttachSafe, ParentAt
    <3>4. x.pc = "attach" => Covers(ledger', p, x.snap)
      BY <1>1, <1>5, <3>2 DEF Places
    <3>5. x.pc = "checkPut" => Covers(ledger', p, x.cur.target)
      <4>1. ASSUME loc[r].pc = "attach", loc[r].snap \subseteq x.cur.target
            PROVE  Covers(ledger', p, x.cur.target)
        <5>1. Covers(ledger, p, x.cur.target)
          BY <1>3, <4>1 DEF AttachSafe, Covers, ParentAt
        <5> QED
          BY <1>4, <4>1, <5>1
      <4> QED
        BY <1>1, <4>1 DEF Places
    <3>6. x.pc \in {"put", "putSent"} => Covers(ledger', p, x.cur.target)
      <4>1. ASSUME loc[r].pc \in Putting, x.cur.target = loc[r].cur.target
            PROVE  Covers(ledger', p, x.cur.target)
        <5>1. Covers(ledger, p, x.cur.target)
          BY <1>3, <4>1 DEF AttachSafe, ParentAt
        <5> QED
          BY <1>4, <4>1, <5>1 DEF Putting
      <4> QED
        BY <1>1, <4>1 DEF Places
    <3>7. x.pc \in Stored => ConfirmedCards(x.cur) \subseteq subs[p]
      BY <1>1, <1>3 DEF Places, AttachSafe, ParentAt
    <3> QED
      BY <3>2, <3>3, <3>4, <3>5, <3>6, <3>7 DEF AttachSafe, Putting
  <2> QED
    BY <2>1, <2>2
<1>8. ASSUME NEW m \in puts'
      PROVE  /\ m.by \in Runner
             /\ loc'[m.by].pc = "putSent"
             /\ m = PutOf(m.by, loc'[m.by])
  BY <1>1, <1>2 DEF PutsAfter, AInv
<1>9. \A s \in Runner : AttachSafe(s, loc'[s], ledger', lock', subs)
  BY <1>2, <1>6, <1>7
<1> QED
  BY <1>2, <1>5, <1>8, <1>9 DEF AInv

\* Nothing is on its way for a runner that does not wait for a PUT.
LEMMA QuietPuts ==
  ASSUME AInv, NEW r \in Runner, puts' = puts, loc[r].pc # "putSent", NEW x
  PROVE  PutsAfter(r, x)
BY DEF AInv, PutsAfter

\* No batch is finished by writing a row that is not complete, or none.
LEMMA QuietCompletes ==
  ASSUME Base, NEW r \in Runner,
         \/ ledger' = ledger
         \/ \E row : /\ ledger' = [ledger EXCEPT ![KeyAt(r)] = row]
                     /\ row.status # "complete"
  PROVE  Completes(r)
BY DEF Completes, Base, Core, RowsType

LEMMA LastCompletes ==
  ASSUME Base, NEW r \in Runner, NEW row \in SafeRow, row.status # "complete",
         CheckpointAndReturn(r, row)
  PROVE  Completes(r)
<1>1. Bump(row).status # "complete"
  BY HonestBump
<1> QED
  BY <1>1, QuietCompletes DEF CheckpointAndReturn

LEMMA LeaveLocked ==
  ASSUME AInv, NEW r \in Runner, Return(r), Completes(r), subs' = subs,
         \/ puts' = puts /\ loc[r].pc # "putSent"
         \/ \A m \in puts' : m \in puts /\ m.by # r
  PROVE  Locked(r)
<1>1. PutsAfter(r, Idle)
  BY QuietPuts DEF PutsAfter
<1>2. Places(r, Idle)
  BY IdleType DEF Places, Stored
<1>3. Leaves(r, Idle) /\ loc' = [loc EXCEPT ![r] = Idle]
  BY DEF Leaves, Return
<1> QED
  BY <1>1, <1>2, <1>3, IdleType DEF Locked

LEMMA GotoLocked ==
  ASSUME Base, AInv, NEW r \in Runner, NEW pc \in PC, Goto(r, pc), UNCHANGED <<ledger, lock>>,
         UNCHANGED subs, puts' = puts, loc[r].pc # "putSent",
         pc \notin Unlocked => loc[r].pc \notin Unlocked,
         pc \notin {"attach", "checkPut", "putSent"},
         pc = "put" => loc[r].pc \in Putting,
         pc \in Stored => \/ loc[r].pc \in Stored
                          \/ ConfirmedCards(loc[r].cur) \subseteq subs[ParentAt(r)]
  PROVE  Locked(r)
<1> DEFINE x == [loc[r] EXCEPT !.pc = pc]
<1>1. loc \in [Runner -> Local] /\ loc[r] \in Local
  BY DEF Base, Core
<1>2. loc' = [loc EXCEPT ![r] = x]
  BY <1>1 DEF Goto, Local
<1>3. /\ x \in Local /\ x.pc = pc /\ x.req = loc[r].req /\ x.cur = loc[r].cur
      /\ x.snap = loc[r].snap
  BY <1>1 DEF Local
<1> HIDE DEF x
<1>4. Stays(r, x) /\ Places(r, x) /\ PutsAfter(r, x)
  BY <1>3, QuietPuts DEF Stays, Places
<1> QED
  BY <1>2, <1>3, <1>4, QuietCompletes DEF Locked

LEMMA MoveLocked ==
  ASSUME Base, AInv, NEW r \in Runner, NEW x \in Local, loc' = [loc EXCEPT ![r] = x],
         UNCHANGED <<lock, subs, puts>>, loc[r].pc # "putSent",
         x.pc \notin Unlocked => loc[r].pc \notin Unlocked /\ x.req = loc[r].req,
         Places(r, x), Completes(r)
  PROVE  Locked(r)
<1>1. Stays(r, x) /\ PutsAfter(r, x)
  BY QuietPuts DEF Stays
<1> QED
  BY <1>1 DEF Locked

\* A checkpoint under the lock.
LEMMA CheckpointLocked ==
  ASSUME Base, AInv, NEW r \in Runner, NEW row \in SafeRow, row.status # "complete",
         NEW next \in Local, next.req = loc[r].req, Checkpoint(r, row, next),
         UNCHANGED boardVars, loc[r].pc # "putSent", loc[r].pc \notin Unlocked,
         next.pc \notin Stored \cup {"attach", "put", "putSent"},
         next.pc = "checkPut" => loc[r].pc = "attach" /\ loc[r].snap \subseteq row.target
  PROVE  Locked(r)
<1>1. subs' = subs /\ puts' = puts
  BY DEF boardVars
<1>2. CASE /\ ledger' = [ledger EXCEPT ![KeyAt(r)] = Bump(row)]
           /\ loc' = [loc EXCEPT ![r] = [next EXCEPT !.cur = Bump(row)]]
           /\ UNCHANGED lock
  <2> DEFINE x == [next EXCEPT !.cur = Bump(row)]
  <2>1. Bump(row) \in Row /\ Bump(row).target = row.target /\ Bump(row).status = row.status
    BY DEF Bump, SafeRow, Row
  <2>2. /\ x \in Local /\ x.pc = next.pc /\ x.req = next.req /\ x.cur = Bump(row)
    BY <2>1 DEF Local
  <2> HIDE DEF x
  <2>3. Places(r, x)
    BY <2>1, <2>2 DEF Places
  <2>4. Completes(r)
    BY <1>2, <2>1, QuietCompletes
  <2> QED
    BY <1>1, <1>2, <2>2, <2>3, <2>4, MoveLocked DEF x
<1>3. CASE Return(r) /\ UNCHANGED ledger
  BY <1>1, <1>3, LeaveLocked, QuietCompletes
<1> QED
  BY <1>2, <1>3 DEF Checkpoint

\* Leaving run() with the row as it is.
LEMMA LastLocked ==
  ASSUME HInv, AInv, NEW r \in Runner, loc[r].pc \notin BeforeRow,
         CheckpointAndReturn(r, loc[r].cur), subs' = subs,
         \/ puts' = puts /\ loc[r].pc # "putSent"
         \/ \A m \in puts' : m \in puts /\ m.by # r
  PROVE  Locked(r)
<1>1. Base /\ loc[r].cur \in SafeRow /\ loc[r].cur.status # "complete"
  BY Self DEF HInv, IInv, Base, AllHonest, Holds
<1>2. Completes(r) /\ Return(r)
  BY <1>1, LastCompletes DEF CheckpointAndReturn
<1> QED
  BY <1>2, LeaveLocked

\* What is needed of a runner at work under the lock.
LEMMA SelfLocked ==
  ASSUME HInv, AInv, NEW r \in Runner, loc[r].pc \notin BeforeRow
  PROVE  /\ Base /\ loc \in [Runner -> Local] /\ loc[r] \in Local
         /\ loc[r].cur \in SafeRow /\ loc[r].cur \in Row
         /\ loc[r].cur.status # "complete" /\ loc[r].req \in Request
         /\ loc[r].cur.req = loc[r].req
         /\ loc[r].pc \notin Unlocked
         /\ AttachSafe(r, loc[r], ledger, lock, subs)
BY Self DEF HInv, IInv, Base, Core, AllHonest, Holds, BeforeRow, Unlocked, AInv

LEMMA BeforeRowLocked ==
  ASSUME HInv, AInv, NEW r \in Runner,
         \/ Load(r) \/ FetchParent(r) \/ LateLoad(r) \/ TryParentLock(r)
         \/ Reload(r) \/ Insert(r) \/ \E q \in Request : Start(r, q)
  PROVE  Locked(r)
<1> USE DEF BeforeRow, PC, Unlocked, Putting, Stored
<1>1. Base /\ loc \in [Runner -> Local] /\ loc[r] \in Local
  BY DEF HInv, IInv, Base, Core
<1>2. UNCHANGED <<subs, puts>> /\ loc[r].pc \in BeforeRow
  BY DEF Load, FetchParent, LateLoad, TryParentLock, Evaluate, Reload, Insert, Start, boardVars
<1>3. ASSUME Return(r), UNCHANGED ledger PROVE Locked(r)
  BY <1>1, <1>2, <1>3, LeaveLocked, QuietCompletes
<1>4. ASSUME NEW pc \in BeforeRow, Goto(r, pc), UNCHANGED <<ledger, lock>>,
             pc \notin Unlocked => loc[r].pc \notin Unlocked
      PROVE  Locked(r)
  BY <1>1, <1>2, <1>4, GotoLocked
<1>5. ASSUME Evaluate(r) PROVE Locked(r)
  BY <1>3, <1>4, <1>5 DEF Evaluate
<1>6. CASE Load(r)
  BY <1>4, <1>5, <1>6 DEF Load
<1>7. CASE FetchParent(r)
  BY <1>3, <1>4, <1>7 DEF FetchParent
<1>8. CASE LateLoad(r)
  BY <1>3, <1>5, <1>8 DEF LateLoad
<1>9. CASE TryParentLock(r)
  <2>1. CASE lock[ParentAt(r)] = Nobody
    <3> DEFINE pc == IF loc[r].pc = "lock" THEN "reload" ELSE "reloadFresh"
               x == [loc[r] EXCEPT !.pc = pc]
    <3>1. pc \in {"reload", "reloadFresh"}
      OBVIOUS
    <3>2. loc' = [loc EXCEPT ![r] = x]
      BY <1>1, <1>9, <2>1 DEF TryParentLock, Goto, Local
    <3> HIDE DEF pc
    <3>3. x \in Local /\ x.pc = pc /\ x.req = loc[r].req
      BY <1>1, <3>1 DEF Local
    <3> HIDE DEF x
    <3>4. Enters(r, x)
      BY <1>9, <2>1, <3>1, <3>3 DEF Enters, TryParentLock
    <3>5. Places(r, x) /\ PutsAfter(r, x) /\ Completes(r)
      BY <1>1, <1>2, <1>9, <3>1, <3>3, QuietPuts, QuietCompletes DEF Places, TryParentLock
    <3> QED
      BY <1>2, <3>2, <3>3, <3>4, <3>5 DEF Locked
  <2>2. CASE lock[ParentAt(r)] # Nobody
    BY <1>3, <1>9, <2>2 DEF TryParentLock
  <2> QED
    BY <2>1, <2>2
<1>10. ASSUME NEW row, NEW pc \in {"verify", "scan", "items"}, row \in Row,
              loc[r].pc \notin Unlocked, UNCHANGED lock,
              loc' = [loc EXCEPT ![r].cur = row, ![r].pc = pc], Completes(r)
       PROVE  Locked(r)
  <2> DEFINE x == [loc[r] EXCEPT !.cur = row, !.pc = pc]
  <2>1. loc' = [loc EXCEPT ![r] = x]
    BY <1>1, <1>10 DEF Local
  <2>2. x \in Local /\ x.pc = pc /\ x.req = loc[r].req
    BY <1>1, <1>10 DEF Local
  <2> HIDE DEF x
  <2>3. Places(r, x)
    BY <1>10, <2>2 DEF Places
  <2> QED
    BY <1>1, <1>2, <1>10, <2>1, <2>2, <2>3, MoveLocked
<1>11. CASE Reload(r)
  <2>1. /\ loc[r].pc \notin Unlocked /\ UNCHANGED ledger /\ Completes(r)
        /\ ledger \in [Key -> SafeRow \cup {NoRow}] /\ KeyAt(r) \in Key
    BY <1>1, <1>11, Self, QuietCompletes DEF Reload, Base, Core, RowsType
  <2>2. CASE ledger[KeyAt(r)] # NoRow /\ Resumable(ledger[KeyAt(r)], loc[r].req)
    <3>1. ledger[KeyAt(r)] \in Row /\ EntryPoint(ledger[KeyAt(r)]) \in {"verify", "scan", "items"}
      BY <2>1, <2>2 DEF SafeRow, EntryPoint
    <3> QED
      BY <1>3, <1>4, <1>10, <1>11, <2>1, <2>2, <3>1 DEF Reload
  <2>3. CASE ~(ledger[KeyAt(r)] # NoRow /\ Resumable(ledger[KeyAt(r)], loc[r].req))
    BY <1>3, <1>4, <1>11, <2>1, <2>3 DEF Reload
  <2> QED
    BY <2>2, <2>3
<1>12. CASE Insert(r)
  <2>1. loc[r].pc \notin Unlocked /\ loc[r].req \in Request
    BY <1>1, <1>12, Self DEF Insert, Base
  <2>2. CASE ledger[KeyAt(r)] = NoRow
    <3> DEFINE row == FreshOperation(loc[r].req)
    <3>1. row \in Row /\ row.status = "running"
      BY <2>1, FreshOperationType, HonestFresh DEF SafeRow
    <3>2. /\ ledger' = [ledger EXCEPT ![KeyAt(r)] = row]
          /\ loc' = [loc EXCEPT ![r].cur = row, ![r].pc = "items"] /\ UNCHANGED lock
      BY <1>12, <2>2 DEF Insert
    <3> HIDE DEF row
    <3>3. Completes(r)
      BY <1>1, <3>1, <3>2, QuietCompletes
    <3> QED
      BY <1>10, <2>1, <3>1, <3>2, <3>3
  <2>3. CASE ledger[KeyAt(r)] # NoRow
    BY <1>4, <1>12, <2>1, <2>3 DEF Insert
  <2> QED
    BY <2>2, <2>3
<1>13. ASSUME NEW q \in Request, Start(r, q) PROVE Locked(r)
  <2> DEFINE x == [Idle EXCEPT !.pc = "load", !.req = q]
  <2>1. loc' = [loc EXCEPT ![r] = x] /\ UNCHANGED <<ledger, lock>>
    BY <1>13 DEF Start
  <2>2. x \in Local /\ x.pc = "load"
    BY IdleType DEF Local
  <2> HIDE DEF x
  <2>3. Places(r, x) /\ Completes(r)
    BY <1>1, <2>1, <2>2, QuietCompletes DEF Places
  <2> QED
    BY <1>1, <1>2, <2>1, <2>2, <2>3, MoveLocked
<1> QED
  BY <1>6, <1>7, <1>8, <1>9, <1>11, <1>12, <1>13

\* ensure_alive under the lock.
LEMMA EnsureAliveLocked ==
  ASSUME HInv, AInv, NEW r \in Runner, NEW pc \in PC, EnsureAlive(r, pc),
         loc[r].pc \notin BeforeRow, loc[r].pc # "putSent",
         pc \notin {"attach", "checkPut", "putSent"},
         pc = "put" => loc[r].pc \in Putting,
         pc \in Stored => loc[r].pc \in Stored
  PROVE  Locked(r)
<1>1. Base /\ loc[r].pc \notin Unlocked
  BY SelfLocked
<1>2. UNCHANGED <<ledger, subs, puts>>
  BY DEF EnsureAlive, boardVars
<1>3. CASE Goto(r, pc) /\ UNCHANGED lock
  BY <1>1, <1>2, <1>3, GotoLocked
<1>4. CASE Return(r)
  BY <1>1, <1>2, <1>4, LeaveLocked, QuietCompletes
<1> QED
  BY <1>3, <1>4 DEF EnsureAlive

LEMMA ItemsLocked ==
  ASSUME HInv, AInv, Kept, NEW r \in Runner,
         \/ ScanMarkers(r) \/ Reconcile(r) \/ MarkInFlight(r) \/ CheckBeforePost(r)
         \/ SendPost(r) \/ PostReturns(r) \/ PostFails(r) \/ RecordPost(r)
  PROVE  Locked(r)
<1> USE DEF BeforeRow, PC, Putting, Stored
<1> DEFINE me == loc[r]
<1>1. /\ me.pc \in {"scan", "reconcile", "items", "checkPost", "post", "posted", "confirm"}
      /\ subs' = subs /\ puts' = puts
  BY DEF ScanMarkers, Reconcile, MarkInFlight, CheckBeforePost, SendPost, PostReturns,
         PostFails, RecordPost, EnsureAlive, boardVars
<1>2. /\ Base /\ loc \in [Runner -> Local] /\ me \in Local
      /\ me.cur \in SafeRow /\ me.cur \in Row
      /\ me.cur.status # "complete" /\ me.req \in Request
      /\ me.cur.req = me.req /\ me.pc \notin Unlocked
  BY <1>1, SelfLocked
<1>3. ASSUME NEW i \in Idx, NEW ph, NEW man, NEW c, ItemArgs(ph, man, c),
             NEW next \in Local, next.req = me.req,
             next.pc \notin Stored \cup {"attach", "checkPut", "put", "putSent"},
             UNCHANGED boardVars, Checkpoint(r, WithItem(me.cur, i, ph, man, c), next)
      PROVE  Locked(r)
  <2> DEFINE row == WithItem(me.cur, i, ph, man, c)
  <2>1. row \in SafeRow
    BY <1>2, <1>3, WithItemType
  <2>2. row.status # "complete"
    <3>1. row.status = OperationStatus([me.cur.phase EXCEPT ![i] = ph])
      BY <1>2 DEF WithItem, Row
    <3> QED
      BY <3>1 DEF OperationStatus
  <2> HIDE DEF row
  <2>3. Checkpoint(r, row, next)
    BY <1>3 DEF row
  <2> QED
    BY <1>1, <1>2, <1>3, <2>1, <2>2, <2>3, CheckpointLocked
<1>4. ASSUME NEW pc \in PC \ (BeforeRow \cup Stored \cup {"attach", "checkPut", "put", "putSent"}),
             Goto(r, pc), UNCHANGED <<ledger, lock>>
      PROVE  Locked(r)
  BY <1>1, <1>2, <1>4, GotoLocked
<1>5. ASSUME NEW x \in Local, loc' = [loc EXCEPT ![r] = x], x.req = me.req,
             x.pc \notin Stored \cup {"attach", "checkPut", "put", "putSent"},
             UNCHANGED <<ledger, lock>>
      PROVE  Locked(r)
  BY <1>1, <1>2, <1>5, MoveLocked, QuietCompletes DEF Places
<1>6. CASE ScanMarkers(r)
  <2>1. ASSUME NEW found, loc' = [loc EXCEPT ![r].pc = "reconcile", ![r].found = found],
               found \in [Idx -> Card \cup {NoCard}], UNCHANGED <<ledger, lock>>
        PROVE  Locked(r)
    <3> DEFINE x == [me EXCEPT !.pc = "reconcile", !.found = found]
    <3>1. loc' = [loc EXCEPT ![r] = x]
      BY <1>2, <2>1 DEF Local
    <3>2. x \in Local /\ x.pc = "reconcile" /\ x.req = me.req
      BY <1>2, <2>1 DEF Local
    <3> HIDE DEF x
    <3> QED
      BY <1>5, <2>1, <3>1, <3>2
  <2>2. CASE CheckpointAndReturn(r, me.cur)
    BY <1>1, <2>2, LastLocked
  <2> DEFINE match(i) == CardsMarked(Marker(loc[r].cur.req, i))
             found == [i \in Idx |->
               IF /\ loc[r].cur.phase[i] = "in_flight"
                  /\ \E c \in Card : match(i) = {c}
               THEN CHOOSE c \in match(i) : TRUE ELSE NoCard]
  <2>3. found \in [Idx -> Card \cup {NoCard}]
    <3>1. ASSUME NEW i \in Idx, NEW c \in Card, match(i) = {c}
          PROVE  (CHOOSE d \in match(i) : TRUE) \in Card
      BY <3>1
    <3> QED
      BY <3>1
  <2>4. \/ /\ loc' = [loc EXCEPT ![r].pc = "reconcile", ![r].found = found]
           /\ UNCHANGED <<ledger, lock>>
        \/ Goto(r, "reconcile") /\ UNCHANGED <<ledger, lock>>
        \/ CheckpointAndReturn(r, me.cur)
    BY <1>6 DEF ScanMarkers
  <2> HIDE DEF found
  <2> QED
    BY <1>4, <2>1, <2>2, <2>3, <2>4
<1>7. CASE Reconcile(r)
  <2>1. ASSUME NEW i \in Idx,
               Checkpoint(r, Reconciled(me, i), [me EXCEPT !.item = i])
        PROVE  Locked(r)
    <3> DEFINE next == [me EXCEPT !.item = i]
    <3>1. next \in Local /\ next.pc = me.pc /\ next.req = me.req
      BY <1>2 DEF Local
    <3>2. UNCHANGED boardVars /\ me.pc = "reconcile" /\ Checkpoint(r, Reconciled(me, i), next)
      BY <1>7, <2>1 DEF Reconcile
    <3> HIDE DEF next
    <3>3. /\ me.found[i] \in Card \cup {NoCard}
          /\ me.found[i] # NoCard => ItemArgs("created", FALSE, me.found[i])
          /\ ItemArgs("in_flight", TRUE, NoCard)
      BY <1>2 DEF Local, Phase, ItemArgs
    <3>4. CASE me.found[i] # NoCard
      BY <1>3, <3>1, <3>2, <3>3, <3>4 DEF Reconciled
    <3>5. CASE me.found[i] = NoCard
      BY <1>3, <3>1, <3>2, <3>3, <3>5 DEF Reconciled
    <3> QED
      BY <3>4, <3>5
  <2>2. CASE /\ loc' = [loc EXCEPT ![r] = [Idle EXCEPT !.pc = "items",
                                           !.req = me.req, !.cur = me.cur]]
             /\ UNCHANGED <<ledger, lock>>
    <3> DEFINE x == [Idle EXCEPT !.pc = "items", !.req = me.req, !.cur = me.cur]
    <3>1. x \in Local /\ x.pc = "items" /\ x.req = me.req
      BY <1>2, IdleType DEF Local
    <3> HIDE DEF x
    <3>2. loc' = [loc EXCEPT ![r] = x]
      BY <2>2 DEF x
    <3> QED
      BY <1>5, <2>2, <3>1, <3>2
  <2> QED
    BY <1>7, <2>1, <2>2 DEF Reconcile
<1>8. CASE MarkInFlight(r)
  <2>1. PICK i \in Idx :
          Checkpoint(r, WithItem(me.cur, i, "in_flight", FALSE, NoCard),
                     [me EXCEPT !.pc = "checkPost", !.item = i])
    BY <1>8 DEF MarkInFlight
  <2> DEFINE next == [me EXCEPT !.pc = "checkPost", !.item = i]
  <2>2. next \in Local /\ next.pc = "checkPost" /\ next.req = me.req
    BY <1>2 DEF Local
  <2>3. Checkpoint(r, WithItem(me.cur, i, "in_flight", FALSE, NoCard), next)
        /\ UNCHANGED boardVars
    BY <1>8, <2>1 DEF MarkInFlight
  <2> HIDE DEF next
  <2>4. ItemArgs("in_flight", FALSE, NoCard)
    BY DEF ItemArgs, Phase
  <2> QED
    BY <1>3, <2>2, <2>3, <2>4
<1>9. CASE CheckBeforePost(r)
  BY <1>1, <1>9, EnsureAliveLocked DEF CheckBeforePost
<1>10. CASE SendPost(r)
  BY <1>4, <1>10 DEF SendPost
<1>11. CASE PostReturns(r)
  <2>1. PICK c \in Card :
          loc' = [loc EXCEPT ![r].pc = "confirm", ![r].found[loc[r].item] = c]
    BY <1>11 DEF PostReturns, CardsMarked
  <2> DEFINE found == [me.found EXCEPT ![me.item] = c]
             x == [me EXCEPT !.pc = "confirm", !.found = found]
  <2>2. found \in [Idx -> Card \cup {NoCard}]
    BY <1>2 DEF Local
  <2>3. loc' = [loc EXCEPT ![r] = x]
    BY <1>2, <2>1 DEF Local
  <2> HIDE DEF found
  <2>4. x \in Local /\ x.pc = "confirm" /\ x.req = me.req
    BY <1>2, <2>2 DEF Local
  <2> HIDE DEF x
  <2> QED
    BY <1>5, <1>11, <2>3, <2>4 DEF PostReturns
<1>12. CASE PostFails(r)
  BY <1>4, <1>12 DEF PostFails
<1>13. CASE RecordPost(r)
  <2> DEFINE c == me.found[me.item]
             next == [Idle EXCEPT !.pc = "items", !.req = me.req]
  <2>1. next \in Local /\ next.pc = "items" /\ next.req = me.req
    BY <1>2, IdleType DEF Local
  <2>2. me.item \in Idx
    BY <1>2, <1>13, Self DEF RecordPost, Base
  <2>3. /\ c \in Card \cup {NoCard}
        /\ c # NoCard => ItemArgs("created", FALSE, c)
        /\ ItemArgs("in_flight", TRUE, NoCard)
    BY <1>2, <2>2 DEF Local, Phase, ItemArgs
  <2>4. /\ UNCHANGED boardVars
        /\ \/ c # NoCard /\ Checkpoint(r, WithItem(me.cur, me.item, "created", FALSE, c), next)
           \/ c = NoCard
              /\ Checkpoint(r, WithItem(me.cur, me.item, "in_flight", TRUE, NoCard), next)
    BY <1>13 DEF RecordPost
  <2> HIDE DEF next
  <2> QED
    BY <1>3, <2>1, <2>2, <2>3, <2>4
<1> QED
  BY <1>6, <1>7, <1>8, <1>9, <1>10, <1>11, <1>12, <1>13

\* Without late writes, nothing is under way for a runner that has given up.
LEMMA GivenUp ==
  ASSUME "late_write" \notin Disturbance, NEW r, puts' = Orphaned(puts, r)
  PROVE  \A m \in puts' : m \in puts /\ m.by # r
BY DEF Orphaned

LEMMA AttachLocked ==
  ASSUME HInv, AInv, Kept, "late_write" \notin Disturbance, NEW r \in Runner,
         \/ FetchBefore(r) \/ AttachTarget(r) \/ CheckBeforePut(r) \/ SendPut(r)
         \/ PutReturns(r) \/ PutFails(r) \/ FetchAfter(r)
  PROVE  Locked(r)
<1> USE DEF BeforeRow, PC, Putting, Stored
<1> DEFINE me == loc[r]
<1>1. /\ me.pc \in {"items", "attach", "checkPut", "put", "putSent", "refetch"}
      /\ subs' = subs
  BY DEF FetchBefore, AttachTarget, CheckBeforePut, SendPut, PutReturns, PutFails,
         FetchAfter, EnsureAlive, boardVars
<1>2. /\ Base /\ loc \in [Runner -> Local] /\ me \in Local
      /\ me.cur \in SafeRow /\ me.cur \in Row
      /\ me.cur.status # "complete" /\ me.req \in Request
      /\ me.cur.req = me.req /\ me.pc \notin Unlocked
      /\ subs[ParentAt(r)] \in SUBSET Card /\ me.snap \in SUBSET Card
      /\ me.cur.target \in SUBSET Card
  BY <1>1, SelfLocked, Self DEF Base, BoardType, Local, Row
<1>3. ASSUME NEW pc \in {"attach", "settle"},
             loc' = [loc EXCEPT ![r].pc = pc, ![r].snap = subs[ParentAt(r)]],
             UNCHANGED <<ledger, lock, puts>>, me.pc # "putSent"
      PROVE  Locked(r)
  <2> DEFINE x == [me EXCEPT !.pc = pc, !.snap = subs[ParentAt(r)]]
  <2>1. loc' = [loc EXCEPT ![r] = x]
    BY <1>2, <1>3 DEF Local
  <2>2. x \in Local /\ x.pc = pc /\ x.req = me.req /\ x.snap = subs[ParentAt(r)]
    BY <1>2, <1>3 DEF Local
  <2> HIDE DEF x
  <2>3. Places(r, x) /\ Completes(r)
    BY <1>2, <1>3, <2>2, QuietCompletes DEF Places
  <2> QED
    BY <1>1, <1>2, <1>3, <2>1, <2>2, <2>3, MoveLocked
<1>4. ASSUME CheckpointAndReturn(r, me.cur), puts' = puts, me.pc # "putSent"
      PROVE  Locked(r)
  BY <1>1, <1>4, LastLocked
<1>5. CASE FetchBefore(r)
  <2>1. puts' = puts /\ me.pc = "items"
    BY <1>5 DEF FetchBefore, boardVars
  <2>2. ASSUME Return(r), UNCHANGED ledger PROVE Locked(r)
    BY <1>1, <1>2, <2>1, <2>2, LeaveLocked, QuietCompletes
  <2> QED
    BY <1>3, <1>4, <1>5, <2>1, <2>2 DEF FetchBefore
<1>6. CASE AttachTarget(r)
  <2> DEFINE union == ExactUnion(me)
             row == [me.cur EXCEPT !.target = union]
  <2>1. union \in SUBSET Card /\ me.snap \subseteq union
    BY <1>2, ConfirmedType DEF ExactUnion
  <2>2. row \in SafeRow /\ row.status # "complete" /\ row.target = union
    <3>1. row \in SafeRow
      BY <1>2, <2>1, RowSuccessor DEF Successor
    <3> QED
      BY <1>2, <3>1 DEF Row
  <2>3. PICK put \in BOOLEAN :
          LET next == [me EXCEPT !.pc = IF put THEN "checkPut" ELSE "settle"]
          IN  IF union # me.cur.target
              THEN Checkpoint(r, row, next)
              ELSE loc' = [loc EXCEPT ![r] = next] /\ UNCHANGED <<ledger, lock>>
    BY <1>6 DEF AttachTarget
  <2> DEFINE pc == IF put THEN "checkPut" ELSE "settle"
             next == [me EXCEPT !.pc = pc]
  <2>4. pc \in {"checkPut", "settle"}
    OBVIOUS
  <2>5. \/ Checkpoint(r, row, next)
        \/ /\ loc' = [loc EXCEPT ![r] = next] /\ UNCHANGED <<ledger, lock>>
           /\ union = me.cur.target
    BY <2>3
  <2> HIDE DEF pc
  <2>6. next \in Local /\ next.pc = pc /\ next.req = me.req /\ next.cur = me.cur
    BY <1>2, <2>4 DEF Local
  <2> HIDE DEF row, union, next
  <2>7. UNCHANGED boardVars /\ me.pc = "attach" /\ puts' = puts
    BY <1>6 DEF AttachTarget, boardVars
  <2>8. CASE Checkpoint(r, row, next)
    BY <1>2, <2>1, <2>2, <2>4, <2>6, <2>7, <2>8, CheckpointLocked
  <2>9. CASE /\ loc' = [loc EXCEPT ![r] = next] /\ UNCHANGED <<ledger, lock>>
             /\ union = me.cur.target
    <3>1. Places(r, next) /\ Completes(r)
      BY <1>2, <2>1, <2>4, <2>6, <2>7, <2>9, QuietCompletes DEF Places
    <3> QED
      BY <1>1, <1>2, <2>4, <2>6, <2>7, <2>9, <3>1, MoveLocked
  <2> QED
    BY <2>5, <2>8, <2>9
<1>7. CASE CheckBeforePut(r)
  BY <1>1, <1>7, EnsureAliveLocked DEF CheckBeforePut
<1>8. CASE SendPut(r)
  <2> DEFINE x == [me EXCEPT !.pc = "putSent"]
  <2>1. /\ loc' = [loc EXCEPT ![r] = x] /\ UNCHANGED <<ledger, lock>>
        /\ puts' = puts \cup {MyPut(r)} /\ me.pc = "put"
    BY <1>2, <1>8 DEF SendPut, Goto, Local
  <2>2. x \in Local /\ x.pc = "putSent" /\ x.req = me.req /\ x.cur = me.cur
    BY <1>2 DEF Local
  <2> HIDE DEF x
  <2>3. Stays(r, x) /\ Places(r, x) /\ Completes(r)
    BY <1>2, <2>1, <2>2, QuietCompletes DEF Stays, Places, Unlocked
  <2>4. MyPut(r) = PutOf(r, x) /\ MyPut(r).by = r
    BY <2>2 DEF MyPut, PutOf
  <2>5. PutsAfter(r, x)
    BY <2>1, <2>2, <2>4 DEF PutsAfter, AInv
  <2> QED
    BY <1>1, <2>1, <2>2, <2>3, <2>5 DEF Locked
<1>9. CASE PutReturns(r)
  <2> DEFINE x == [me EXCEPT !.pc = "refetch"]
  <2>1. /\ loc' = [loc EXCEPT ![r] = x] /\ UNCHANGED <<ledger, lock, puts>>
        /\ MyPut(r) \notin puts
    BY <1>2, <1>9 DEF PutReturns, Goto, Local, boardVars
  <2>2. x \in Local /\ x.pc = "refetch" /\ x.req = me.req
    BY <1>2 DEF Local
  <2> HIDE DEF x
  <2>3. Stays(r, x) /\ Places(r, x) /\ Completes(r)
    BY <1>2, <2>1, <2>2, QuietCompletes DEF Stays, Places, Unlocked
  <2>4. \A m \in puts : m.by # r
    BY <2>1 DEF AInv, MyPut, PutOf
  <2>5. PutsAfter(r, x)
    BY <2>1, <2>4 DEF PutsAfter
  <2> QED
    BY <1>1, <2>1, <2>2, <2>3, <2>5 DEF Locked
<1>10. CASE PutFails(r)
  BY <1>1, <1>10, LastLocked, GivenUp DEF PutFails
<1>11. CASE FetchAfter(r)
  BY <1>3, <1>4, <1>11 DEF FetchAfter, boardVars
<1> QED
  BY <1>5, <1>6, <1>7, <1>8, <1>9, <1>10, <1>11

LEMMA FinishLocked ==
  ASSUME HInv, AInv, Kept, NEW r \in Runner,
         \/ SettlePhase(r) \/ BoardComplete(r) \/ VerifyParent(r)
         \/ CheckBeforeIndex(r) \/ WriteThrough(r) \/ CheckBeforeComplete(r)
         \/ Complete(r)
  PROVE  Locked(r)
<1> USE DEF BeforeRow, PC, Putting, Stored
<1> DEFINE me == loc[r]
<1>1. /\ me.pc \in {"settle", "verify", "checkIndex", "index", "checkComplete", "complete"}
      /\ subs' = subs /\ puts' = puts
  BY DEF SettlePhase, BoardComplete, VerifyParent, CheckBeforeIndex, WriteThrough,
         CheckBeforeComplete, Complete, EnsureAlive, boardVars
<1>2. /\ Base /\ loc \in [Runner -> Local] /\ me \in Local
      /\ me.cur \in SafeRow /\ me.cur \in Row
      /\ me.cur.status # "complete" /\ me.req \in Request
      /\ me.cur.req = me.req /\ me.pc \notin Unlocked
  BY <1>1, SelfLocked
<1>3. ASSUME CheckpointAndReturn(r, me.cur) PROVE Locked(r)
  BY <1>1, <1>3, LastLocked
<1>4. ASSUME Return(r), UNCHANGED ledger PROVE Locked(r)
  BY <1>1, <1>2, <1>4, LeaveLocked, QuietCompletes
<1>5. ASSUME NEW pc \in {"checkIndex", "checkComplete"}, Goto(r, pc), UNCHANGED <<ledger, lock>>,
             pc = "checkComplete" => ConfirmedCards(me.cur) \subseteq subs[ParentAt(r)]
      PROVE  Locked(r)
  BY <1>1, <1>2, <1>5, GotoLocked
<1>6. CASE SettlePhase(r)
  <2>1. PICK i \in Confirmed(me.cur) :
          Checkpoint(r, WithItem(me.cur, i, DesiredPhase(me, i), FALSE, me.cur.card[i]), me)
    BY <1>6 DEF SettlePhase, First, Unsettled
  <2> DEFINE row == WithItem(me.cur, i, DesiredPhase(me, i), FALSE, me.cur.card[i])
  <2>2. i \in Idx /\ ItemArgs(DesiredPhase(me, i), FALSE, me.cur.card[i])
    BY <1>2, <2>1 DEF ItemArgs, DesiredPhase, Phase, Confirmed, InPhase, SafeRow, Row, ItemValid
  <2>3. row \in SafeRow
    BY <1>2, <2>2, WithItemType
  <2>4. row.status # "complete"
    <3>1. row.status = OperationStatus([me.cur.phase EXCEPT ![i] = DesiredPhase(me, i)])
      BY <1>2 DEF WithItem, Row
    <3> QED
      BY <3>1 DEF OperationStatus
  <2>5. UNCHANGED boardVars /\ me.pc = "settle"
    BY <1>6 DEF SettlePhase
  <2> HIDE DEF row
  <2>6. Checkpoint(r, row, me)
    BY <2>1 DEF row
  <2> QED
    BY <1>2, <2>3, <2>4, <2>5, <2>6, CheckpointLocked
<1>7. CASE BoardComplete(r)
  <2> DEFINE row == [me.cur EXCEPT !.status = "board_complete"]
             next == [me EXCEPT !.pc = "checkIndex"]
  <2>1. row \in SafeRow /\ row.status = "board_complete"
    <3>1. row \in SafeRow
      BY <1>2, RowSuccessor DEF Successor, Status
    <3> QED
      BY <1>2, <3>1 DEF Row
  <2>2. next \in Local /\ next.pc = "checkIndex" /\ next.req = me.req
    BY <1>2 DEF Local
  <2>3. /\ UNCHANGED boardVars /\ me.pc = "settle"
        /\ Checkpoint(r, row, next) \/ (Return(r) /\ UNCHANGED ledger)
    BY <1>7 DEF BoardComplete
  <2> HIDE DEF row, next
  <2> QED
    BY <1>2, <1>4, <2>1, <2>2, <2>3, CheckpointLocked
<1>8. CASE VerifyParent(r)
  BY <1>3, <1>4, <1>5, <1>8 DEF VerifyParent
<1>9. CASE CheckBeforeIndex(r)
  BY <1>1, <1>9, EnsureAliveLocked DEF CheckBeforeIndex
<1>10. CASE WriteThrough(r)
  <2>1. CASE /\ ConfirmedCards(me.cur) \subseteq subs[ParentAt(r)]
             /\ Goto(r, "checkComplete") /\ UNCHANGED <<ledger, lock>>
    BY <1>5, <2>1
  <2> QED
    BY <1>3, <1>10, <2>1 DEF WriteThrough
<1>11. CASE CheckBeforeComplete(r)
  BY <1>1, <1>11, EnsureAliveLocked DEF CheckBeforeComplete
<1>12. CASE Complete(r)
  <2> DEFINE row == [me.cur EXCEPT !.status = "complete"]
  <2>1. /\ Bump(row).req = me.req
        /\ Bump(row).phase = me.cur.phase /\ Bump(row).card = me.cur.card
    BY <1>2 DEF Bump, Row
  <2>2. /\ ledger' = IF Current(r) THEN [ledger EXCEPT ![KeyAt(r)] = Bump(row)] ELSE ledger
        /\ Return(r) /\ me.pc = "complete"
    BY <1>12 DEF Complete, CheckpointAndReturn
  <2> HIDE DEF row
  <2>3. ConfirmedCards(Bump(row)) = ConfirmedCards(me.cur)
    BY <2>1 DEF ConfirmedCards, Confirmed, InPhase
  <2>4. Completes(r)
    BY <1>2, <2>1, <2>2, <2>3 DEF Completes, Base, Core, RowsType
  <2> QED
    BY <1>1, <2>2, <2>4, LeaveLocked
<1> QED
  BY <1>6, <1>7, <1>8, <1>9, <1>10, <1>11, <1>12

LEMMA AInvNext ==
  ASSUME "late_write" \notin Disturbance, "lost_lock" \notin Disturbance,
         "detach" \notin Disturbance, HInv, AInv, [Next]_vars
  PROVE  AInv'
<1>1. Base
  BY DEF HInv, IInv
<1>2. ASSUME NEW r \in Runner,
             RunnerStep(r) \/ (\E q \in Request : Start(r, q)) \/ Crash(r)
      PROVE  AInv'
  <2>1. Kept
    BY <1>2, KeptNext DEF Next
  <2>2. CASE Crash(r)
    <3>1. /\ Return(r) /\ subs' = subs /\ ledger' = ledger
          /\ \A m \in puts' : m \in puts /\ m.by # r
      BY <2>2, GivenUp DEF Crash
    <3> QED
      BY <1>1, <3>1, LeaveLocked, QuietCompletes, LockedSafe
  <2>3. CASE RunnerStep(r) \/ \E q \in Request : Start(r, q)
    BY <1>1, <2>1, <2>3, BeforeRowLocked, ItemsLocked, AttachLocked, FinishLocked, LockedSafe
    DEF RunnerStep
  <2> QED
    BY <1>2, <2>2, <2>3
<1>3. subs \in [Parent -> SUBSET Card] /\ posts \subseteq Post
  BY <1>1 DEF Base, BoardType
<1>4. ASSUME NEW m \in puts, BoardReplaces(m) PROVE AInv'
  <2>1. PICK r \in Runner : r = m.by /\ loc[r].pc = "putSent" /\ m = PutOf(r, loc[r])
    BY DEF AInv
  <2>2. AttachSafe(r, loc[r], ledger, lock, subs) /\ loc[r].cur.req = loc[r].req
        /\ ParentOf[loc[r].req] \in Parent
    BY <1>1, <2>1, SelfLocked, RequestAssumption DEF AInv, BeforeRow
  <2> DEFINE p == ParentOf[loc[r].req]
  <2>3. m.parent = p /\ m.ids = loc[r].cur.target
    BY <2>1, <2>2 DEF PutOf
  <2>4. /\ UNCHANGED <<ledger, lock, loc>> /\ puts' = puts \ {m}
        /\ subs' = [subs EXCEPT ![p] = loc[r].cur.target]
    BY <1>4, <2>3 DEF BoardReplaces
  <2>5. \A q \in Parent : Covers(ledger, q, subs'[q])
    BY <1>3, <2>1, <2>2, <2>4 DEF AInv, AttachSafe, Putting
  <2>6. ASSUME NEW s \in Runner PROVE AttachSafe(s, loc[s], ledger, lock, subs')
    <3>1. AttachSafe(s, loc[s], ledger, lock, subs)
      BY DEF AInv
    <3>2. CASE loc[s].pc \notin Stored
      BY <3>1, <3>2 DEF AttachSafe
    <3>3. CASE loc[s].pc \in Stored
      <4>1. lock[ParentOf[loc[s].req]] = s /\ lock[p] = r /\ s # r
        BY <2>1, <2>2, <3>1, <3>3 DEF AttachSafe, Stored, Unlocked
      <4>2. subs'[ParentOf[loc[s].req]] = subs[ParentOf[loc[s].req]]
        BY <1>3, <2>4, <4>1
      <4> QED
        BY <3>1, <4>2 DEF AttachSafe
    <3> QED
      BY <3>2, <3>3
  <2> QED
    BY <2>4, <2>5, <2>6 DEF AInv
<1>5. ASSUME NEW p \in Parent, NEW c \in Card, PersonAttaches(p, c) PROVE AInv'
  <2>1. /\ UNCHANGED <<ledger, lock, loc, puts>>
        /\ subs' = [subs EXCEPT ![p] = @ \cup {c}]
    BY <1>5 DEF PersonAttaches
  <2>2. \A q \in Parent : subs[q] \subseteq subs'[q]
    BY <1>3, <2>1
  <2>3. \A q \in Parent : Covers(ledger, q, subs'[q])
    BY <2>2 DEF AInv, Covers
  <2>4. ASSUME NEW s \in Runner PROVE AttachSafe(s, loc[s], ledger, lock, subs')
    <3>1. AttachSafe(s, loc[s], ledger, lock, subs)
      BY DEF AInv
    <3>2. loc[s].pc \in Stored => ParentOf[loc[s].req] \in Parent
      BY <1>1, Self DEF Base, Stored, ParentAt
    <3> QED
      BY <2>2, <3>1, <3>2 DEF AttachSafe
  <2> QED
    BY <2>1, <2>3, <2>4 DEF AInv
<1>6. ASSUME UNCHANGED <<ledger, lock, loc, subs, puts>> PROVE AInv'
  BY <1>6 DEF AInv
<1>7. ASSUME Next PROVE AInv'
  <2>1. CASE \E r \in Runner : LoseLock(r)
    BY <2>1 DEF LoseLock, Disturb
  <2>2. CASE \E m \in posts, c \in Card : BoardCreates(m, c)
    BY <1>6, <2>2 DEF BoardCreates
  <2>3. CASE PersonStep
    BY <1>5, <1>6, <2>3 DEF PersonStep, PersonDetaches, PersonCopies, Disturb
  <2> QED
    BY <1>2, <1>4, <1>7, <2>1, <2>2, <2>3 DEF Next, BoardStep
<1> QED
  BY <1>6, <1>7 DEF vars

\* The parent lock does what design/PRI-224 wants of it: the children of a
\* finished batch stay attached, whatever other batches of the parent do, crash
\* or fail to do, and whatever people attach and copy meanwhile.  The three
\* exceptions are real: a lock that dies under its runner, a PUT that arrives
\* after its sender has given up, and a person who detaches a card.
THEOREM StaysAttached ==
  ASSUME "late_write" \notin Disturbance, "lost_lock" \notin Disturbance,
         "detach" \notin Disturbance
  PROVE  Spec => []FinishedBatchStaysAttached
<1>1. Init => AInv
  BY IdleType DEF Init, AInv, Covers, AttachSafe, Unlocked, Putting, Stored
<1>2. HInv /\ AInv /\ [Next]_vars => AInv'
  BY AInvNext
<1>3. HInv /\ AInv => FinishedBatchStaysAttached
  <2>1. ASSUME HInv, NEW k \in Key, ledger[k] # NoRow
        PROVE  ParentOf[ledger[k].req] \in Parent
    BY <2>1, RequestAssumption DEF HInv, IInv, Base, Core, RowsType, SafeRow, Row
  <2> QED
    BY <2>1 DEF AInv, Covers, FinishedBatchStaysAttached
<1> QED
  BY <1>1, <1>2, <1>3, HonestInvariant, PTL DEF Spec

=============================================================================
