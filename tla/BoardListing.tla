---------------------------- MODULE BoardListing ----------------------------
(***************************************************************************)
(* iter_raw: a sync reads all cards of a board, page by page, while people *)
(* edit, move, remove and add cards (reviewer/tasks/boards/*.py, the loops *)
(* _iter_raw_rows, and pagination.py).                                     *)
(*                                                                         *)
(* The rows are what the purge of the sync spares: a card that is there    *)
(* but on no page of a complete listing loses its row.  Every page is one  *)
(* step; between pages the sync asks the board about single cards, and     *)
(* people go on.  The service behind the adapter is external: it sorts the *)
(* cards as the adapter asked, or in an order of its own, and cuts pages   *)
(* from what is there at this moment.                                      *)
(***************************************************************************)
EXTENDS Boards, Integers, FiniteSets, Sequences

CONSTANTS
  Item,          \* numbers, in the order in which the cards are created
  AtFirst,       \* the cards that are there at first
  PullRequest,   \* at GitHub, the issues that are pull requests
  Column,        \* at YouGile, the columns, numbered in the order of the listing
  Limit,         \* what a caller may give as limit
  Unlimited,     \* among them, None: more than there are rows
  PageSize,
  MaxPages,      \* pagination.py gives up after this many
  MaxChange      \* BOUND: what people do during a listing

NoCursor == 0

ASSUME ListingAssumption ==
  /\ Item \subseteq Nat \ {0} /\ IsFiniteSet(Item)
  /\ AtFirst \subseteq Item /\ PullRequest \subseteq Item
  /\ IsFiniteSet(Column) /\ Column # {} /\ Column = 1..Cardinality(Column)
  /\ Limit \subseteq 0..Unlimited
  /\ Unlimited \in Nat /\ Unlimited > Cardinality(Item) + MaxChange
  /\ PageSize \in Nat \ {0} /\ MaxPages \in Nat \ {0} /\ MaxChange \in Nat

VARIABLES
  board,     \* whose adapter it is
  order,     \* how the service sorts
  items,     \* what the board holds
  clock,     \* the last moment of a change
  limit,     \* of the call
  reader,    \* where the listing is
  start,     \* the cards that were there when it began
  changes    \* what people did since

listing == <<board, order, items, clock, limit, reader, start, changes>>

---------------------------------------------------------------------------
(* The boards. *)

ByPage == {"github", "clickup", "yandex_tracker"}
ByCursor == {"jira", "asana", "linear", "trello"}

\* The loops of pagination.py and of the GraphQL client count their pages.
Counting == Board \ {"jira", "youtrack", "yougile"}

\* What the adapter asks for; without a wish the service decides.
Sorting(b) ==
  CASE b \in {"github", "clickup", "kaiten"} -> {"newest"}
    [] b \in {"jira", "yandex_tracker"} -> {"oldest"}
    [] b = "trello" -> {"creation"}
    [] OTHER -> {"creation", "newest"}

There == {c \in Item : items[c].there}

\* The columns are read one after the other, each by its own pages.
Visible ==
  IF board = "yougile" THEN {c \in There : items[c].column = reader.column}
  ELSE There

\* What rows are sorted by, first to last.
Rank(c) ==
  CASE order = "newest" -> -items[c].stamp
    [] order = "oldest" -> items[c].stamp
    [] board = "trello" -> -c
    [] OTHER -> c

\* A set, sorted: before[x] are the members that go before x.
InOrder(s, before) ==
  [n \in 1..Cardinality(s) |-> CHOOSE x \in s : Cardinality(before[x]) = n - 1]

Before(s) == [c \in s |-> {d \in s : Rank(d) < Rank(c)}]
Sorted(s) == InOrder(s, Before(s))

\* The cards from where the reader is: from an offset, or after the cursor,
\* which stands for the last row of the page before.
Rest ==
  IF board \in ByCursor
  THEN Sorted({c \in Visible : reader.cursor = NoCursor
                               \/ Rank(c) > reader.cursor})
  ELSE LET s == Sorted(Visible) IN
       SubSeq(s, reader.offset + 1, Len(s))

Cut(s) == SubSeq(s, 1, IF Len(s) < PageSize THEN Len(s) ELSE PageSize)

---------------------------------------------------------------------------
(* The reader. *)

Idle == [pc |-> "idle", offset |-> 0, cursor |-> NoCursor, pages |-> 0,
         column |-> 1, rows |-> << >>]

ListingTypeOK ==
  /\ board \in Board /\ order \in Sorting(board)
  /\ items \in [Item -> [there : BOOLEAN, stamp : 0..clock, column : Column]]
  /\ clock \in 0..(Cardinality(AtFirst) + MaxChange) /\ limit \in Limit
  /\ reader.pc \in {"idle", "reading", "complete", "cut", "broken"}
  /\ reader.offset \in 0..(Cardinality(Item) + PageSize)
  /\ reader.pages \in 0..MaxPages
  /\ reader.column \in Column
  /\ reader.rows \in Seq([key : Item, timestamp : 0..clock])
  /\ reader.pc \in {"complete", "cut"} => Len(reader.rows) <= limit
  /\ start \subseteq Item
  /\ changes \subseteq [what : {"edit", "move", "remove", "add"}, item : Item]

ListingInit ==
  /\ board \in Board /\ order \in Sorting(board)
  /\ \E stamps \in [AtFirst -> 1..Cardinality(AtFirst)], columns \in [AtFirst -> Column] :
       /\ \A c, d \in AtFirst : stamps[c] = stamps[d] => c = d
       /\ board # "yougile" => \A c \in AtFirst : columns[c] = 1
       /\ items = [c \in Item |->
            IF c \in AtFirst
            THEN [there |-> TRUE, stamp |-> stamps[c], column |-> columns[c]]
            ELSE [there |-> FALSE, stamp |-> 0, column |-> 1]]
  /\ clock = Cardinality(AtFirst)
  /\ limit \in Limit
  /\ reader = Idle
  /\ start = {}
  /\ changes = {}

\* A listing of nothing asks the board for nothing.
iter_raw ==
  /\ reader.pc = "idle"
  /\ reader' = [Idle EXCEPT !.pc = IF limit = 0 THEN "cut" ELSE "reading"]
  /\ start' = There
  /\ UNCHANGED <<board, order, items, clock, limit, changes>>

Row(c) == [key |-> c, timestamp |-> items[c].stamp]
Keys(rows) == {rows[i].key : i \in DOMAIN rows}

\* What of a page is no task; Trello's pages may repeat a card.
Skipped ==
  CASE board = "github" -> PullRequest
    [] board = "trello" -> Keys(reader.rows)
    [] OTHER -> {}

\* Of a page, the rows that are tasks.
Rows(page) ==
  LET kept == {i \in DOMAIN page : page[i] \notin Skipped}
      place == InOrder(kept, [i \in kept |-> {j \in kept : j < i}])
  IN [n \in DOMAIN place |-> Row(page[place[n]])]

\* Seeded fault: the rows that are tasks are counted.
LastPageOfTasks(page) == Len(Rows(page)) < PageSize

\* Whether this page is the last one.  ClickUp, Weeek, Jira, Asana and Linear
\* say so; elsewhere a page that is not full is taken for the last.
LastPage(page) ==
  CASE board \in {"weeek", "jira", "asana", "linear"} -> Len(Rest) <= PageSize
    [] board = "clickup" -> Len(Rest) <= PageSize
    [] board = "trello" -> Rows(page) = << >> \/ Len(page) < PageSize
    [] OTHER -> Len(page) < PageSize

\* At Trello, the least number of the page, which comes in any order.
CursorAfter(page) == Rank(page[Len(page)])

\* At most limit rows; Trello's adapter reads and sorts the whole board first.
Capped(rows) ==
  IF board # "trello" /\ Len(rows) > limit THEN SubSeq(rows, 1, limit) ELSE rows

\* Those of one moment are sorted by their keys.
FresherThan(x, y) ==
  x.timestamp > y.timestamp \/ (x.timestamp = y.timestamp /\ x.key < y.key)

Freshest(rows) ==
  LET place == InOrder(DOMAIN rows,
        [i \in DOMAIN rows |-> {j \in DOMAIN rows : FresherThan(rows[j], rows[i])}])
      s == [n \in DOMAIN rows |-> rows[place[n]]]
  IN  IF Len(s) > limit THEN SubSeq(s, 1, limit) ELSE s

Outcome(r, last) ==
  IF board # "trello" /\ Len(r.rows) >= limit THEN [r EXCEPT !.pc = "cut"]
  ELSE IF last /\ board = "trello"
  THEN [r EXCEPT !.rows = Freshest(@),
                 !.pc = IF Len(r.rows) > limit THEN "cut" ELSE "complete"]
  ELSE IF last /\ board = "yougile" /\ r.column + 1 \in Column
  THEN [r EXCEPT !.column = @ + 1, !.offset = 0]
  ELSE IF last THEN [r EXCEPT !.pc = "complete"]
  ELSE IF board \in Counting /\ r.pages >= MaxPages THEN [r EXCEPT !.pc = "broken"]
  ELSE r

\* The next request, by offset or number, and by cursor.
ReadPage ==
  LET page == Cut(Rest)
      read == [reader EXCEPT !.pages = IF board \in Counting THEN @ + 1 ELSE @,
                             !.rows = Capped(@ \o Rows(page))]
      next == IF page = << >> THEN read
              ELSE IF board \in ByCursor
              THEN [read EXCEPT !.cursor = CursorAfter(page)]
              ELSE [read EXCEPT !.offset = @ + (IF board \in ByPage THEN PageSize
                                                ELSE Len(page))]
  IN /\ reader.pc = "reading"
     /\ reader' = Outcome(next, LastPage(page))
     /\ UNCHANGED <<board, order, items, clock, limit, start, changes>>

\* request_json has tried three times: the listing raises.
ReadFails ==
  /\ reader.pc = "reading"
  /\ reader' = [reader EXCEPT !.pc = "broken"]
  /\ UNCHANGED <<board, order, items, clock, limit, start, changes>>

---------------------------------------------------------------------------
(* People. *)

Changed(c, what, v) ==
  /\ reader.pc = "reading" /\ clock < Cardinality(AtFirst) + MaxChange
  /\ items' = [items EXCEPT ![c] = v]
  /\ clock' = clock + 1
  /\ changes' = changes \cup {[what |-> what, item |-> c]}
  /\ UNCHANGED <<board, order, limit, reader, start>>

Edit(c) ==
  items[c].there /\ Changed(c, "edit", [items[c] EXCEPT !.stamp = clock + 1])

\* A move is an edit, too.
MoveTo(c, k) ==
  /\ items[c].there /\ items[c].column # k /\ board = "yougile"
  /\ Changed(c, "move", [items[c] EXCEPT !.stamp = clock + 1, !.column = k])

TakeAway(c) ==
  items[c].there /\ Changed(c, "remove", [items[c] EXCEPT !.there = FALSE])

\* The cards that are not given are created in their order.
Add(c) ==
  /\ ~items[c].there /\ c \notin AtFirst
  /\ \A d \in Item \ AtFirst : d < c => items[d].stamp > 0
  /\ Changed(c, "add", [items[c] EXCEPT !.there = TRUE, !.stamp = clock + 1])

ListingNext ==
  \/ iter_raw \/ ReadPage \/ ReadFails
  \/ \E c \in Item : Edit(c) \/ TakeAway(c) \/ Add(c)
                     \/ \E k \in Column : MoveTo(c, k)

ListingSpec == ListingInit /\ [][ListingNext]_listing

---------------------------------------------------------------------------
(* Properties. *)

Did(what) == \E x \in changes : x.what = what
DidTo(c, what) == [what |-> what, item |-> c] \in changes

\* What spares a card c from being missed, by the way the board is read.
\* After a cursor nothing is lost but what moves in front of it.  By offset a
\* removal pulls the cards behind it over the edge of the page; and so does
\* an edit where the oldest come first.
Undisturbed(c) ==
  /\ order = "newest" => ~DidTo(c, "edit") /\ ~DidTo(c, "move")
  /\ board \notin ByCursor => ~Did("remove")
  /\ board \notin ByCursor /\ order = "oldest" => ~Did("edit")
  /\ board = "yougile" => ~Did("move")

IsTask(c) == board = "github" => c \notin PullRequest

\* A listing that says it is complete has every task that was there from its
\* begin to its end, unless people did what its pages cannot follow: so much
\* can the purge rely on.
ListingIsSound ==
  reader.pc = "complete" =>
    \A c \in start \cap There :
      IsTask(c) /\ Undisturbed(c) => c \in Keys(reader.rows)

\* The boards that promise the freshest cards first.
FreshestFirst == {"github", "clickup", "kaiten", "trello"}

\* With a limit, these give the cards that were changed last.
LimitTakesTheFreshest ==
  reader.pc \in {"cut", "complete"} /\ board \in FreshestFirst /\ changes = {} =>
    \A i \in DOMAIN reader.rows, c \in There :
      IsTask(c) /\ items[c].stamp > reader.rows[i].timestamp => c \in Keys(reader.rows)

\* A listing that ends has what it promises, with a limit and without.
ListingKeepsItsWord == ListingIsSound /\ LimitTakesTheFreshest
=============================================================================
