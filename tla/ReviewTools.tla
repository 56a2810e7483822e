---------------------------- MODULE ReviewTools ----------------------------
(***************************************************************************)
(* What the tools of a review show of the code (reviewer/tools/            *)
(* code_tools.py, graph_format.py, impact.py, Retriever.retrieve, the      *)
(* queries of ChunkStore and GraphStore that they use, and the tools that  *)
(* need no review).                                                        *)
(*                                                                         *)
(* The index holds the code of the branch (base) and, of the changed files *)
(* of a pull request, its head (overlay); a tool of the review sees the    *)
(* overlay and the base without the changed files.  The base moves under a *)
(* review: another review synchronizes it, or `reviewer index' does.       *)
(*                                                                         *)
(* A text is a number, 0 when the symbol is not in the tree; an answer is  *)
(* the set of the symbols that it shows with the text of each.  A call of  *)
(* a tool and a preparation are one step: ReviewSessions takes the         *)
(* preparation apart, and says when the overlay is there.                  *)
(*                                                                         *)
(* Left out: ranking, paging of read_file, removed and unselected files,   *)
(* the stub for a repetition (make_tools runs anew for every call, so that *)
(* nothing has been seen), a second process that prepares the same review. *)
(***************************************************************************)
EXTENDS Integers, FiniteSets, FiniteSetsExt

CONSTANTS
  Symbol,       \* node ids, numbers from 1
  FileOf,       \* the file of each
  Calls,        \* CALLS between the symbols of the base, <<caller, called>>
  Trees,        \* by head: the files that it changes and the text of each symbol
  BaseTree,     \* the text of each symbol in the base index at the beginning
  MovedText,    \* and after the base has moved
  Ignored,      \* the files that the policy ignores
  Signature,    \* extract_signature of a text
  TopK,         \* BOUND for 8: top_k of search_code
  MaxAsked,     \* BOUND: the questions that one session asks
  FewRows       \* BOUND for 3: so many rows are shown without the reranker

Heads == DOMAIN Trees

ASSUME ToolsAssumption ==
  /\ DOMAIN FileOf = Symbol /\ Calls \subseteq Symbol \X Symbol /\ 1 \in Heads
  /\ \A h \in Heads : Trees[h].text \in [Symbol -> Nat]
  /\ BaseTree \in [Symbol -> Nat] /\ MovedText \in [Symbol -> Nat]
  /\ TopK \in Nat /\ FewRows \in Nat /\ MaxAsked \in Nat

VARIABLES
  baseText,     \* chunks of ref base:<branch>
  overlayText,  \* chunks of ref pr:<n>
  review,       \* the session: the head it was prepared from (0: there is none),
                \* its cache, and whether it has its row
  pushedHead,   \* the head of the pull request
  shown         \* the last answer, and whether a tool of the review gave it

desk == <<baseText, overlayText, review, pushedHead, shown>>

NoRows == [s \in Symbol |-> 0]
NoReview == [head |-> 0, cache |-> {}, row |-> FALSE]
NoAnswer == [review |-> FALSE, rows |-> {}]

ToolsInit ==
  /\ baseText = BaseTree
  /\ overlayText = NoRows
  /\ review = NoReview
  /\ pushedHead = 1
  /\ shown = NoAnswer

-----------------------------------------------------------------------------
(* The store and the graph.                                                *)

ChangedPaths == Trees[review.head].changed
ChangedNodes == {s \in Symbol : FileOf[s] \in ChangedPaths /\ Trees[review.head].text[s] # 0}
RowsOf(text, S) == {<<s, text[s]>> : s \in {t \in S : text[t] # 0}}

\* SEEDED FAULT: base rows of the changed files are not hidden
FetchNodesOfBoth(S, changed) == RowsOf(baseText, S) \cup RowsOf(overlayText, S)

\* fetch_nodes, and what hybrid_search finds its hits among
FetchNodes(S, changed) ==
  RowsOf(baseText, {s \in S : FileOf[s] \notin changed}) \cup RowsOf(overlayText, S)

\* a search without a review: overlay_ref is none
FetchBase(S) == RowsOf(baseText, S)

Adjacent(s) == {t \in Symbol : <<s, t>> \in Calls \/ <<t, s>> \in Calls}
Expand(S) == LET near == UNION {Adjacent(s) : s \in S}
             IN  near \cup UNION {Adjacent(s) : s \in near}
Callers(s) == {t \in Symbol : <<t, s>> \in Calls}
\* the graph holds the base: a symbol that the review adds is not found
FindSymbol(s) == IF BaseTree[s] # 0 THEN {s} ELSE {}

-----------------------------------------------------------------------------
(* The answers that a tool of the review may give.                         *)

\* hits of any kind and what the graph adds; too many are reranked
Retrieve(topK) ==
  LET related == FetchNodes(Expand(ChangedNodes), ChangedPaths)
      answers(hits) ==
        LET merged == hits \cup related
            few == \/ Cardinality(merged) <= FewRows
                   \/ Cardinality(merged) <= topK /\ related \subseteq hits
        IN  IF few \/ Cardinality(merged) <= topK THEN {merged} ELSE kSubset(topK, merged)
  IN  UNION {answers(hits) : hits \in SUBSET FetchNodes(Symbol, ChangedPaths)}

GetDefinition(s) ==
  LET found == FetchNodes(FindSymbol(s), ChangedPaths)
  IN  IF found # {} THEN {found} ELSE Retrieve(FewRows)

\* neighbours with the first line of each; with the store down, their names
FormatNeighbors(S) == {FetchNodes(S, ChangedPaths), {}}

\* symbols of the diff whose signature is not that of the base, and who calls
\* them from outside of the diff
GetImpact ==
  LET moved == {s \in ChangedNodes : /\ overlayText[s] # 0 /\ baseText[s] # 0
                                     /\ Signature[overlayText[s]] # Signature[baseText[s]]}
      external(s) == {c \in Callers(s) : FileOf[c] \notin ChangedPaths}
      items == {s \in moved : external(s) # {}}
  IN  {RowsOf(overlayText, items) \cup FetchNodes(UNION {external(s) : s \in items}, ChangedPaths)}

\* read_file and get_changed_file_diff read the head itself
ReadHead(f) == {RowsOf(Trees[review.head].text, {s \in Symbol : FileOf[s] = f})}

Questions ==
  [tool: {"search_code", "get_impact"}, about: {0}]
  \cup [tool: {"get_definition", "get_related_symbols", "find_callers"}, about: Symbol]
  \cup [tool: {"read_file", "get_changed_file_diff"}, about: {FileOf[s] : s \in Symbol}]

Answers(q) ==
  CASE q.tool = "search_code" -> Retrieve(TopK)
    [] q.tool = "get_impact" -> GetImpact
    [] q.tool = "get_definition" -> GetDefinition(q.about)
    [] q.tool = "get_related_symbols" -> FormatNeighbors(Expand({q.about}) \ {q.about})
    [] q.tool = "find_callers" -> FormatNeighbors(Callers(q.about))
    [] q.tool = "read_file" -> ReadHead(q.about)
    [] OTHER -> IF q.about \in ChangedPaths THEN ReadHead(q.about) ELSE {{}}

-----------------------------------------------------------------------------
(* Actions.                                                                *)

Cached(q) == {a \in {c[2] : c \in review.cache} : <<q, a>> \in review.cache}

\* an answer is given again from the cache of the session
InvokeTool(q) ==
  /\ review.head # 0
  /\ Cached(q) # {} \/ Cardinality(review.cache) < MaxAsked
  /\ \E a \in IF Cached(q) # {} THEN Cached(q) ELSE Answers(q) :
       /\ shown' = [review |-> TRUE, rows |-> a]
       /\ review' = [review EXCEPT !.cache = @ \cup {<<q, a>>}]
  /\ UNCHANGED <<baseText, overlayText, pushedHead>>

\* related_symbols, callers and search_codebase: no review, base rows only
AskBase ==
  /\ \E S \in SUBSET Symbol : shown' = [review |-> FALSE, rows |-> FetchBase(S)]
  /\ UNCHANGED <<baseText, overlayText, review, pushedHead>>

BuildOverlay(h) ==
  [s \in Symbol |-> IF FileOf[s] \in Trees[h].changed \ Ignored THEN Trees[h].text[s] ELSE 0]

\* SEEDED FAULT: the cache outlives the session
PrepareToolsWithCache ==
  /\ overlayText' = BuildOverlay(pushedHead)
  /\ review' = [review EXCEPT !.head = pushedHead, !.row = TRUE]
  /\ shown' = NoAnswer
  /\ UNCHANGED <<baseText, pushedHead>>

\* prepare_review: the overlay is built anew, and the session and its cache
PrepareTools ==
  /\ overlayText' = BuildOverlay(pushedHead)
  /\ review' = [head |-> pushedHead, cache |-> {}, row |-> TRUE]
  /\ shown' = NoAnswer
  /\ UNCHANGED <<baseText, pushedHead>>

\* it fails: overlay and row are gone, the session of before stays
PrepareToolsFails ==
  /\ overlayText' = NoRows
  /\ review' = [review EXCEPT !.row = FALSE]
  /\ shown' = NoAnswer
  /\ UNCHANGED <<baseText, pushedHead>>

\* the process restarts and reads the session from its row, if it has one
ResumeReview ==
  /\ review.head # 0
  /\ review' = IF review.row THEN [review EXCEPT !.cache = {}] ELSE NoReview
  /\ shown' = NoAnswer
  /\ UNCHANGED <<baseText, overlayText, pushedHead>>

\* publication, or the garbage collection of a session that expired
EndReview ==
  /\ review.head # 0
  /\ review' = NoReview
  /\ overlayText' = NoRows
  /\ shown' = NoAnswer
  /\ UNCHANGED <<baseText, pushedHead>>

PushHead ==
  /\ pushedHead + 1 \in Heads
  /\ pushedHead' = pushedHead + 1
  /\ UNCHANGED <<baseText, overlayText, review, shown>>

\* another review, or `reviewer index', writes a newer base
MoveBase ==
  /\ baseText = BaseTree
  /\ baseText' = MovedText
  /\ UNCHANGED <<overlayText, review, pushedHead, shown>>

ToolsNext ==
  \/ \E q \in Questions : InvokeTool(q)
  \/ AskBase
  \/ PrepareTools
  \/ PrepareToolsFails
  \/ ResumeReview
  \/ EndReview
  \/ PushHead
  \/ MoveBase

-----------------------------------------------------------------------------
(* Of the files that the pull request changes a tool of the review shows   *)
(* the head that the review was prepared from: never the base, never an    *)
(* older head that the cache or the overlay still has, however the base    *)
(* moves and the preparation fails in between.  And what is asked without  *)
(* a review never shows an overlay.                                        *)
ToolsShowTheHead ==
  \A r \in shown.rows :
    IF shown.review
    THEN FileOf[r[1]] \in ChangedPaths => r[2] = Trees[review.head].text[r[1]]
    ELSE r[2] = baseText[r[1]] \/ r[2] = BaseTree[r[1]]
=============================================================================
