----------------------------- MODULE MCTaskSync -----------------------------
(* Two boards: x and y are tasks of the left one, z is the task of the      *)
(* right one.                                                               *)
EXTENDS TaskSync

CONSTANTS x, y, z

LeftAndRight == [k \in Task |-> IF k = z THEN "right" ELSE "left"]
OneProjectEach == [k \in Task |-> IF k = z THEN "Q" ELSE "P"]

\* A board on one page: the listing is a snapshot of the board.
WholeBoards == {{k \in Task : TypeOf[k] = t} : t \in {TypeOf[k] : k \in Task}}

NotArchived == [max_age |-> 0, include_archived |-> FALSE]
Recent == [max_age |-> 1, include_archived |-> TRUE]

Full == [type |-> All, project |-> All, filter |-> NoFilter,
         limit |-> FALSE, force |-> FALSE, purge |-> FALSE, keep |-> TRUE]
Purging == [Full EXCEPT !.purge = TRUE]

\* Filters that come and go, with a purge and without, up to a limit and
\* with every task normalized.
AllFilters ==
  {[q EXCEPT !.filter = f] : q \in {Full, Purging},
                             f \in {NoFilter, NotArchived, Recent}}
  \cup {[Full EXCEPT !.limit = TRUE], [Full EXCEPT !.force = TRUE]}
\* The deployment, and the left board by the repository it is of.
Mixed == {[Purging EXCEPT !.filter = NotArchived],
          [Purging EXCEPT !.type = "left", !.project = "P"]}
\* The left board, in a repository whose policy names no project.
NoProject == {Purging, [Purging EXCEPT !.type = "left"]}
\* One call, again and again.
Repeated == {[Purging EXCEPT !.filter = NotArchived]}

Retries ==
  {[tasks |-> {x, z}, requests |-> Repeated, clock |-> 4,
    trouble |-> {"crash", "cursor_read", "cursor_write", "listing",
                 "normalize", "embed", "store", "graph"}]}
Calls ==
  {[tasks |-> {x, y}, requests |-> AllFilters, clock |-> 4,
    trouble |-> {"crash", "cursor_read", "listing"}],
   [tasks |-> {x, z}, requests |-> Mixed, clock |-> 3,
    trouble |-> {"crash", "listing", "store", "graph", "write_through", "publish"}]}
Unscoped ==
  {[tasks |-> {x, z}, requests |-> NoProject, clock |-> 4, trouble |-> {}]}
=============================================================================
