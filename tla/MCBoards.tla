------------------------------ MODULE MCBoards ------------------------------
(* Two agents at one board, in every configuration of the eleven adapters;  *)
(* or a sync that lists a board of any of them, by pages of two cards.      *)
EXTENDS BoardCalls, BoardListing

CONSTANTS a, b, old, new, p1, p2

Finish(p, done, t) ==
  [op |-> "finish", card |-> old, pr |-> p, mark_done |-> done, target |-> t]
Other(op, t) ==
  [op |-> op, card |-> new, pr |-> p1, mark_done |-> TRUE, target |-> t]
Both(q, r) == [c \in {a, b} |-> IF c = a THEN q ELSE r]

\* A task with two pull requests is finished with the one and linked to the
\* other, at a board with a flag and marked comments and at one with a column
\* and links.  At every board a task is finished, or created, while the
\* connection is checked or targets are listed.
Whole == {c \in Conf : c.option /\ c.detail}
Ways == {"github", "youtrack"}
AllCases ==
  {c \in Whole : c.board \in Ways}
     \X {Both(Finish(p1, TRUE, "done"), Finish(p2, FALSE, "done"))}
  \cup Whole \X {Both(Finish(p1, TRUE, "done"), Other("targets", "none"))}
  \cup Conf \X ({Both(Finish(p1, TRUE, t), Other("targets", "none")) :
                    t \in {"none", "gone"}}
                \cup {Both(Other("create", t), Other("targets", "none")) :
                        t \in {"done", "gone"}}
                \cup {Both(Other("create", "none"), Other("validate", "none"))})

VARIABLE about                                        \* "calls" or "listing"

(* The part that a behaviour is not about stays as it began.               *)
NoListing ==
  /\ board = "github" /\ order = "newest" /\ clock = 0
  /\ items = [c \in Item |-> [there |-> FALSE, stamp |-> 0, column |-> 1]]
  /\ limit = 0 /\ reader = Idle /\ start = {} /\ changes = {}
NoCalls ==
  /\ Init /\ conf = [board |-> "github", option |-> TRUE, detail |-> TRUE]
  /\ job = Both(Other("create", "none"), Other("validate", "none"))

BoardsInit ==
  \/ about = "calls" /\ Init /\ NoListing
  \/ about = "listing" /\ ListingInit /\ NoCalls

Calls(A) == about = "calls" /\ A /\ UNCHANGED <<about, listing>>

BoardsNext ==
  \/ Calls(Next)
  \/ about = "listing" /\ ListingNext /\ UNCHANGED <<about, vars>>

BoardsVars == <<about, vars, listing>>

BoardsSpec ==
  /\ BoardsInit /\ [][BoardsNext]_BoardsVars
  /\ \A c \in Agent : WF_BoardsVars(Calls(CallStep(c))) /\ WF_BoardsVars(Calls(Begin(c)))
=============================================================================
