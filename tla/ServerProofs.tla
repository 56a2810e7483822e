---------------------------- MODULE ServerProofs ----------------------------
(***************************************************************************)
(* Proofs about what the server keeps for its clients, what they are told  *)
(* and what they send: the tools of a review (ReviewTools), for any        *)
(* program, call graph, sequence of heads and bounds, the bug reports      *)
(* (BugReports), for any number of processes, defects, titles, issues and  *)
(* attempts, the context of a task (TaskContext), however often its        *)
(* sources go out and come back, and the base index (BaseIndex), for any   *)
(* files, symbols and commits.                                             *)
(*                                                                         *)
(* The argument for ReviewTools.  While there is a session the overlay is  *)
(* the code of its head, or it is gone because a later preparation failed  *)
(* (Desk).  Every answer is made of rows of the head, of the overlay, or   *)
(* of the base outside of the files that the head changes, so it is true   *)
(* of that head for good (IsOf), and so are the answers that the cache of  *)
(* the session keeps: the cache goes whenever the head does.               *)
(*                                                                         *)
(* The argument for BugReports.  A process has one call in hand; its       *)
(* signature was not declined when it was confirmed, and nothing is        *)
(* declined while the call lasts (Wanted).  When a call is sent without a  *)
(* duplicate, no issue that was there when the list was read says the      *)
(* same, or the signature is excused (Searched); the rest is what arrived  *)
(* since.                                                                  *)
(*                                                                         *)
(* The argument for TaskContext.  A source is marked when its outage is    *)
(* run into, and every section that could run into it again is skipped     *)
(* then (Marked); preflight marks Postgres and the similar tasks the       *)
(* embedder, if these are never there.  So a section that misses a source  *)
(* raises or is skipped, and is accounted for (Accounted), and what it     *)
(* blames was out (Blamed).                                                *)
(*                                                                         *)
(* The argument for BaseIndex.  The proof follows the rows of one symbol,  *)
(* whatever attempts fail or are killed, at any statement of update_base,  *)
(* and however pushes and reviews come between.  A text tells the file and *)
(* the symbol it was written for, so a text that was seen is the row of    *)
(* its own slot; and a file does not become what it was, so one that is    *)
(* equal in two commits was so in between, and no attempt that failed has  *)
(* touched it.                                                             *)
(***************************************************************************)
EXTENDS ReviewTools, BugReports, TaskContext, BaseIndex, FiniteSetTheorems,
        SequenceTheorems, TLAPS

-----------------------------------------------------------------------------
(* The tools of a review.                                                  *)

ToolsSpec == ToolsInit /\ [][ToolsNext]_desk

\* an answer shows of the files that head h changes what h makes of them
IsOf(h, answer) ==
  \A r \in answer : FileOf[r[1]] \in Trees[h].changed => r[2] = Trees[h].text[r[1]]

\* the tables
Desk ==
  /\ baseText \in {BaseTree, MovedText}
  /\ pushedHead \in Heads
  /\ review.head # 0 => /\ review.head \in Heads
                        /\ overlayText \in {BuildOverlay(review.head), NoRows}

\* what was said, and will be said again
Said ==
  /\ review.head # 0 => \A e \in review.cache : IsOf(review.head, e[2])
  /\ shown.review => review.head # 0 /\ IsOf(review.head, shown.rows)
  /\ ~shown.review => \A r \in shown.rows : r[2] \in {baseText[r[1]], BaseTree[r[1]]}

\* the fields of the two records are there
Shape ==
  /\ \E h, c, w : review = [head |-> h, cache |-> c, row |-> w]
  /\ \E w, a : shown = [review |-> w, rows |-> a] /\ w \in BOOLEAN

ToolsInv == Shape /\ Desk /\ Said

-----------------------------------------------------------------------------
(* Answers are true of the head.                                           *)

\* While there is a session, rows of the overlay are rows of its head.
LEMMA OverlayIsOfTheHead ==
  ASSUME Desk, review.head # 0, NEW s \in Symbol, overlayText[s] # 0
  PROVE  overlayText[s] = Trees[review.head].text[s]
BY DEF Desk, BuildOverlay, NoRows

\* fetch_nodes hides the base rows of the files that the head changes.
LEMMA FetchedIsOfTheHead ==
  ASSUME Desk, review.head # 0, NEW S \in SUBSET Symbol
  PROVE  IsOf(review.head, FetchNodes(S, ChangedPaths))
<1> SUFFICES ASSUME NEW r \in FetchNodes(S, ChangedPaths), FileOf[r[1]] \in ChangedPaths
             PROVE  r[2] = Trees[review.head].text[r[1]]
  BY DEF IsOf, ChangedPaths
<1>1. PICK s \in S : r = <<s, overlayText[s]>> /\ overlayText[s] # 0
  BY DEF FetchNodes, RowsOf
<1> QED
  BY <1>1, OverlayIsOfTheHead

LEMMA ReadIsOfTheHead ==
  ASSUME NEW f, NEW a \in ReadHead(f)
  PROVE  IsOf(review.head, a)
BY DEF ReadHead, RowsOf, IsOf

LEMMA PartIsOfTheHead ==
  ASSUME NEW h, NEW a, NEW b, IsOf(h, a), b \subseteq a
  PROVE  IsOf(h, b)
BY DEF IsOf

LEMMA SymbolSets ==
  /\ \A s : Adjacent(s) \subseteq Symbol /\ Callers(s) \subseteq Symbol
  /\ \A S : Expand(S) \subseteq Symbol
  /\ ChangedNodes \subseteq Symbol
  /\ \A s \in Symbol : FindSymbol(s) \subseteq Symbol
<1>1. \A s : Adjacent(s) \subseteq Symbol /\ Callers(s) \subseteq Symbol
  BY DEF Adjacent, Callers
<1>2. \A S : Expand(S) \subseteq Symbol
  BY <1>1 DEF Expand
<1> QED
  BY <1>1, <1>2 DEF ChangedNodes, FindSymbol

\* Retriever.retrieve: hits, what the graph adds, and a choice of both.
LEMMA RetrieveIsOfTheHead ==
  ASSUME Desk, review.head # 0, NEW topK, NEW a \in Retrieve(topK)
  PROVE  IsOf(review.head, a)
<1> DEFINE all == FetchNodes(Symbol, ChangedPaths)
           related == FetchNodes(Expand(ChangedNodes), ChangedPaths)
<1>1. PICK hits \in SUBSET all : a \subseteq hits \cup related
  BY DEF Retrieve, kSubset
<1>2. IsOf(review.head, all)
  BY FetchedIsOfTheHead
<1>3. IsOf(review.head, related)
  BY FetchedIsOfTheHead, SymbolSets
<1> QED
  BY <1>1, <1>2, <1>3 DEF IsOf

LEMMA ImpactIsOfTheHead ==
  ASSUME Desk, review.head # 0, NEW a \in GetImpact
  PROVE  IsOf(review.head, a)
<1>1. PICK items \in SUBSET Symbol, S \in SUBSET Symbol :
        a = RowsOf(overlayText, items) \cup FetchNodes(S, ChangedPaths)
  <2> DEFINE moved == {s \in ChangedNodes :
                          /\ overlayText[s] # 0 /\ baseText[s] # 0
                          /\ Signature[overlayText[s]] # Signature[baseText[s]]}
             external(s) == {c \in Callers(s) : FileOf[c] \notin ChangedPaths}
             items == {s \in moved : external(s) # {}}
             S == UNION {external(s) : s \in items}
  <2>1. a = RowsOf(overlayText, items) \cup FetchNodes(S, ChangedPaths)
    BY DEF GetImpact
  <2>2. items \subseteq Symbol /\ S \subseteq Symbol
    BY SymbolSets
  <2> QED
    BY <2>1, <2>2
<1>2. IsOf(review.head, FetchNodes(S, ChangedPaths))
  BY FetchedIsOfTheHead
<1>3. IsOf(review.head, RowsOf(overlayText, items))
  BY OverlayIsOfTheHead DEF RowsOf, IsOf
<1> QED
  BY <1>1, <1>2, <1>3 DEF IsOf

\* Whatever is asked, the answer is true of the head of the session.
LEMMA AnswerIsOfTheHead ==
  ASSUME Desk, review.head # 0, NEW q \in Questions, NEW a \in Answers(q)
  PROVE  IsOf(review.head, a)
<1>1. IsOf(review.head, {})
  BY DEF IsOf
<1>2. \A S \in SUBSET Symbol : \A x \in FormatNeighbors(S) : IsOf(review.head, x)
  BY <1>1, FetchedIsOfTheHead DEF FormatNeighbors
<1>3. CASE q.tool = "search_code"
  BY <1>3, RetrieveIsOfTheHead DEF Answers
<1>4. CASE q.tool = "get_impact"
  BY <1>4, ImpactIsOfTheHead DEF Answers
<1>5. CASE q.tool = "get_definition"
  <2>1. q.about \in Symbol
    BY <1>5 DEF Questions
  <2>2. IsOf(review.head, FetchNodes(FindSymbol(q.about), ChangedPaths))
    BY <2>1, SymbolSets, FetchedIsOfTheHead
  <2>3. a \in GetDefinition(q.about)
    BY <1>5 DEF Answers
  <2> QED
    BY <2>2, <2>3, RetrieveIsOfTheHead DEF GetDefinition
<1>6. CASE q.tool = "get_related_symbols"
  BY <1>2, <1>6, SymbolSets DEF Answers
<1>7. CASE q.tool = "find_callers"
  BY <1>2, <1>7, SymbolSets DEF Answers
<1>8. CASE q.tool \in {"read_file", "get_changed_file_diff"}
  BY <1>1, <1>8, ReadIsOfTheHead DEF Answers
<1> QED
  BY <1>3, <1>4, <1>5, <1>6, <1>7, <1>8 DEF Questions

-----------------------------------------------------------------------------
(* The steps.                                                              *)

LEMMA InvokeToolStep ==
  ASSUME ToolsInv, NEW q \in Questions, InvokeTool(q)
  PROVE  ToolsInv'
<1>1. PICK a \in IF Cached(q) # {} THEN Cached(q) ELSE Answers(q) :
        /\ shown' = [review |-> TRUE, rows |-> a]
        /\ review' = [review EXCEPT !.cache = @ \cup {<<q, a>>}]
  BY DEF InvokeTool
<1>2. review.head # 0 /\ UNCHANGED <<baseText, overlayText, pushedHead>>
  BY DEF InvokeTool
<1>3. IsOf(review.head, a)
  <2>1. CASE Cached(q) # {}
    <3>1. <<q, a>> \in review.cache
      BY <1>1, <2>1 DEF Cached
    <3>2. \A e \in review.cache : IsOf(review.head, e[2])
      BY <1>2 DEF ToolsInv, Said
    <3> QED
      BY <3>1, <3>2
  <2>2. CASE Cached(q) = {}
    BY <1>1, <1>2, <2>2, AnswerIsOfTheHead DEF ToolsInv
  <2> QED
    BY <2>1, <2>2
<1>4. /\ review'.head = review.head /\ review'.cache = review.cache \cup {<<q, a>>}
      /\ review'.row = review.row
      /\ review' = [head |-> review'.head, cache |-> review'.cache, row |-> review'.row]
  BY <1>1 DEF ToolsInv, Shape
<1>5. Shape'
  BY <1>1, <1>4 DEF Shape
<1>6. Desk'
  BY <1>2, <1>4 DEF ToolsInv, Desk, BuildOverlay
<1>7. Said'
  <2>1. shown'.review = TRUE /\ shown'.rows = a
    BY <1>1
  <2>2. \A e \in review'.cache : IsOf(review.head, e[2])
    BY <1>2, <1>3, <1>4 DEF ToolsInv, Said
  <2> QED
    BY <1>2, <1>3, <1>4, <2>1, <2>2 DEF Said, IsOf
<1> QED
  BY <1>5, <1>6, <1>7 DEF ToolsInv

LEMMA AskBaseStep ==
  ASSUME ToolsInv, AskBase
  PROVE  ToolsInv'
<1>1. PICK S \in SUBSET Symbol : shown' = [review |-> FALSE, rows |-> FetchBase(S)]
  BY DEF AskBase
<1>2. UNCHANGED <<baseText, overlayText, review, pushedHead>>
  BY DEF AskBase
<1>3. \A r \in FetchBase(S) : r[2] = baseText[r[1]]
  BY DEF FetchBase, RowsOf
<1>4. shown'.review = FALSE /\ shown'.rows = FetchBase(S)
  BY <1>1
<1>5. Said'
  BY <1>2, <1>3, <1>4 DEF ToolsInv, Said, IsOf
<1> QED
  BY <1>1, <1>2, <1>5 DEF ToolsInv, Shape, Desk, BuildOverlay

LEMMA NothingSaid ==
  ASSUME shown' = NoAnswer, review'.head # 0 => \A e \in review'.cache : IsOf(review'.head, e[2])
  PROVE  Said'
BY DEF Said, NoAnswer, IsOf

LEMMA PrepareStep ==
  ASSUME ToolsInv, PrepareTools \/ PrepareToolsFails
  PROVE  ToolsInv'
<1>1. CASE PrepareTools
  <2>1. /\ review'.head = pushedHead /\ review'.cache = {}
        /\ overlayText' = BuildOverlay(pushedHead) /\ shown' = NoAnswer
        /\ UNCHANGED <<baseText, pushedHead>>
    BY <1>1 DEF PrepareTools
  <2>2. Said'
    BY <2>1, NothingSaid
  <2>3. Desk'
    BY <2>1 DEF ToolsInv, Desk, BuildOverlay
  <2> QED
    BY <1>1, <2>2, <2>3 DEF ToolsInv, Shape, PrepareTools, NoAnswer
<1>2. CASE PrepareToolsFails
  <2>1. /\ review'.head = review.head /\ review'.cache = review.cache
        /\ review' = [head |-> review'.head, cache |-> review'.cache, row |-> FALSE]
        /\ overlayText' = NoRows /\ shown' = NoAnswer
        /\ UNCHANGED <<baseText, pushedHead>>
    BY <1>2 DEF PrepareToolsFails, ToolsInv, Shape
  <2>2. Said'
    BY <2>1, NothingSaid DEF ToolsInv, Said
  <2>3. Desk'
    BY <2>1 DEF ToolsInv, Desk, NoRows
  <2> QED
    BY <2>1, <2>2, <2>3 DEF ToolsInv, Shape, NoAnswer
<1> QED
  BY <1>1, <1>2

LEMMA EndStep ==
  ASSUME ToolsInv, ResumeReview \/ EndReview
  PROVE  ToolsInv'
<1>1. /\ shown' = NoAnswer /\ UNCHANGED <<baseText, pushedHead>>
      /\ review' \in {[review EXCEPT !.cache = {}], NoReview}
      /\ review' # NoReview => overlayText' = overlayText
  BY DEF ResumeReview, EndReview
<1>2. NoReview.head = 0 /\ NoReview.cache = {}
  BY DEF NoReview
<1>3. /\ review'.head \in {0, review.head} /\ review'.cache = {}
      /\ review'.head # 0 => overlayText' = overlayText
  BY <1>1, <1>2 DEF ToolsInv, Shape
<1>4. Said'
  BY <1>1, <1>3, NothingSaid
<1>5. Desk'
  BY <1>1, <1>3 DEF ToolsInv, Desk, BuildOverlay, NoRows
<1>6. Shape'
  BY <1>1 DEF ToolsInv, Shape, NoAnswer, NoReview
<1> QED
  BY <1>4, <1>5, <1>6 DEF ToolsInv

\* The base moves from what the answers without a review may still show.
LEMMA WorldStep ==
  ASSUME ToolsInv, PushHead \/ MoveBase \/ UNCHANGED desk
  PROVE  ToolsInv'
<1>1. UNCHANGED <<overlayText, review, shown>>
  BY DEF PushHead, MoveBase, desk
<1>2. /\ pushedHead' \in Heads /\ baseText' \in {BaseTree, MovedText}
      /\ baseText' = baseText \/ baseText = BaseTree
  BY DEF ToolsInv, Desk, PushHead, MoveBase, desk
<1>3. Said'
  BY <1>1, <1>2 DEF ToolsInv, Said, IsOf
<1> QED
  BY <1>1, <1>2, <1>3 DEF ToolsInv, Shape, Desk, BuildOverlay, NoRows

LEMMA ToolsStart == ToolsInit => ToolsInv
<1> SUFFICES ASSUME ToolsInit PROVE ToolsInv
  OBVIOUS
<1>1. /\ review = [head |-> 0, cache |-> {}, row |-> FALSE]
      /\ shown = [review |-> FALSE, rows |-> {}]
      /\ baseText = BaseTree /\ pushedHead = 1 /\ 1 \in Heads
  BY ToolsAssumption DEF ToolsInit, NoReview, NoAnswer
<1>2. Shape
  BY <1>1 DEF Shape
<1>3. Desk /\ Said
  BY <1>1 DEF Desk, Said
<1> QED
  BY <1>2, <1>3 DEF ToolsInv

\* Tools of a review show the head it was prepared from, whatever they go
\* through: hits, the graph, the cache, an overlay that is gone; however the
\* base moves and preparations fail (code_tools.py, fetch_nodes).
THEOREM ToolsTellTheTruth == ToolsSpec => []ToolsShowTheHead
<1>1. ToolsInv /\ [ToolsNext]_desk => ToolsInv'
  BY InvokeToolStep, AskBaseStep, PrepareStep, EndStep, WorldStep DEF ToolsNext
<1>2. ToolsInv => ToolsShowTheHead
  BY DEF ToolsInv, Said, IsOf, ToolsShowTheHead, ChangedPaths
<1> QED
  BY ToolsStart, <1>1, <1>2, PTL DEF ToolsSpec

-----------------------------------------------------------------------------
(* Bug reports.                                                            *)

BugSpec == BugInit /\ [][BugNext]_channel

IssueRecord == [sig : Signature0 \cup {0}, title : Title0]
Titles == Title0 \cup {""}
BugCall == [pc : {"idle", "search", "send"}, sig : Signature0 \cup {0},
            title : Titles, found : BOOLEAN, read : Nat, attempt : Nat]
ReporterState == [offered : SUBSET Signature0, declined : SUBSET Signature0,
                  call : BugCall, calls : Nat]

BugType ==
  /\ issues \in Seq(IssueRecord)
  /\ reporter \in [Reporter -> ReporterState]
  /\ \A p \in Reporter : reporter[p].call.pc # "idle" =>
       reporter[p].call.sig \in Signature0 /\ reporter[p].call.title \in Title0

\* what is in hand was not declined in this process
Wanted(r) == r.call.pc # "idle" => r.call.sig \notin r.declined

\* a report that is to be a new issue repeats none of those that were read
Searched(call, list, reasons) ==
  /\ call.read <= Len(list)
  /\ call.pc = "send" /\ ~call.found =>
       \A i \in 1..call.read : list[i].sig = call.sig => call.sig \in reasons

\* two issues of one signature have a reason
SinglesOf(list, reasons) ==
  \A i, j \in DOMAIN list :
    i # j /\ list[i].sig = list[j].sig /\ list[i].sig # 0 => list[i].sig \in reasons

BugInv ==
  /\ BugType
  /\ unwanted = {}
  /\ SinglesOf(issues, excused)
  /\ \A p \in Reporter : Wanted(reporter[p]) /\ Searched(reporter[p].call, issues, excused)

LEMMA NewReporterType ==
  /\ Quiet \in BugCall /\ Quiet.pc = "idle"
  /\ NewReporter \in ReporterState /\ NewReporter.call = Quiet
BY DEF Quiet, BugCall, Titles, NewReporter, ReporterState

\* More issues and more reasons leave what was searched searched.
LEMMA SearchedStays ==
  ASSUME NEW call, NEW list, NEW more, NEW reasons, NEW others,
         list \in Seq(IssueRecord), more \in Seq(IssueRecord),
         Searched(call, list, reasons), call.read \in Nat,
         Len(list) <= Len(more), \A i \in 1..Len(list) : more[i] = list[i],
         reasons \subseteq others
  PROVE  Searched(call, more, others)
BY DEF Searched

\* A step of one process that leaves it in order.
LEMMA BugTurn ==
  ASSUME BugInv, NEW p \in Reporter, NEW r \in ReporterState,
         reporter' = [reporter EXCEPT ![p] = r],
         r.call.pc # "idle" => r.call.sig \in Signature0 /\ r.call.title \in Title0,
         Wanted(r), Searched(r.call, issues', excused'),
         issues' \in Seq(IssueRecord), Len(issues) <= Len(issues'),
         \A i \in 1..Len(issues) : issues'[i] = issues[i],
         excused \subseteq excused', unwanted' = {}, SinglesOf(issues', excused')
  PROVE  BugInv'
<1>1. /\ reporter' \in [Reporter -> ReporterState] /\ reporter'[p] = r
      /\ \A q \in Reporter \ {p} : reporter'[q] = reporter[q]
  BY DEF BugInv, BugType
<1>2. BugType'
  BY <1>1 DEF BugInv, BugType
<1>3. ASSUME NEW q \in Reporter
      PROVE  Wanted(reporter'[q]) /\ Searched(reporter'[q].call, issues', excused')
  <2>1. CASE q = p
    BY <1>1, <2>1
  <2>2. CASE q # p
    <3>1. reporter'[q] = reporter[q] /\ reporter[q].call.read \in Nat
      BY <1>1, <2>2 DEF BugInv, BugType, ReporterState, BugCall
    <3>2. Wanted(reporter[q]) /\ Searched(reporter[q].call, issues, excused)
      BY DEF BugInv
    <3>3. Searched(reporter[q].call, issues', excused')
      BY <3>1, <3>2, SearchedStays DEF BugInv, BugType
    <3> QED
      BY <3>1, <3>2, <3>3
  <2> QED
    BY <2>1, <2>2
<1> QED
  BY <1>2, <1>3 DEF BugInv


\* Declining, offering, confirming, forgetting: nothing is published.
LEMMA DecideStep ==
  ASSUME BugInv, NEW p \in Reporter, NEW r \in ReporterState,
         reporter' = [reporter EXCEPT ![p] = r],
         UNCHANGED <<issues, excused, unwanted>>,
         r.call.pc # "idle" => r.call.sig \in Signature0 /\ r.call.title \in Title0,
         Wanted(r), r.call.pc # "send", r.call.read <= Len(issues)
  PROVE  BugInv'
<1>1. /\ issues \in Seq(IssueRecord) /\ unwanted = {} /\ SinglesOf(issues, excused)
      /\ Searched(r.call, issues, excused)
  BY DEF BugInv, BugType, Searched
<1>2. /\ issues' \in Seq(IssueRecord) /\ Len(issues) <= Len(issues')
      /\ \A i \in 1..Len(issues) : issues'[i] = issues[i]
      /\ excused \subseteq excused' /\ unwanted' = {}
      /\ SinglesOf(issues', excused') /\ Searched(r.call, issues', excused')
  BY <1>1
<1> QED
  BY <1>2, BugTurn

LEMMA DeclineStep ==
  ASSUME BugInv, NEW p \in Reporter, NEW sig \in Signature0, Decline(p, sig)
  PROVE  BugInv'
<1> DEFINE told == [reporter[p] EXCEPT !.declined = @ \cup {sig}]
           r == [told EXCEPT !.calls = @ + 1]
<1>1. /\ reporter[p] \in ReporterState /\ reporter[p].call.pc = "idle"
      /\ reporter[p].call.read <= Len(issues)
  BY DEF BugInv, BugType, Decline, MayCall, Searched
<1>2. r \in ReporterState /\ r.call = reporter[p].call
  <2>1. told \in ReporterState /\ told.call = reporter[p].call
    BY <1>1 DEF ReporterState
  <2> HIDE DEF told
  <2> QED
    BY <2>1 DEF ReporterState
<1>3. reporter' = [reporter EXCEPT ![p] = r] /\ UNCHANGED <<issues, excused, unwanted>>
  BY <1>1 DEF Decline, BugInv, BugType, ReporterState
<1> HIDE DEF r
<1>4. Wanted(r) /\ r.call.pc = "idle" /\ r.call.read <= Len(issues)
  BY <1>1, <1>2 DEF Wanted
<1> QED
  BY <1>2, <1>3, <1>4, DecideStep

LEMMA PreviewStep ==
  ASSUME BugInv, NEW p \in Reporter, NEW sig \in Signature0, Preview(p, sig)
  PROVE  BugInv'
<1> DEFINE told == [reporter[p] EXCEPT !.offered = @ \cup {sig}]
           r == [told EXCEPT !.calls = @ + 1]
<1>1. /\ reporter[p] \in ReporterState /\ reporter[p].call.pc = "idle"
      /\ reporter[p].call.read <= Len(issues)
  BY DEF BugInv, BugType, Preview, MayCall, Searched
<1>2. r \in ReporterState /\ r.call = reporter[p].call
  <2>1. told \in ReporterState /\ told.call = reporter[p].call
    BY <1>1 DEF ReporterState
  <2> HIDE DEF told
  <2> QED
    BY <2>1 DEF ReporterState
<1>3. reporter' = [reporter EXCEPT ![p] = r] /\ UNCHANGED <<issues, excused, unwanted>>
  BY <1>1 DEF Preview, BugInv, BugType, ReporterState
<1> HIDE DEF r
<1>4. Wanted(r) /\ r.call.pc = "idle" /\ r.call.read <= Len(issues)
  BY <1>1, <1>2 DEF Wanted
<1> QED
  BY <1>2, <1>3, <1>4, DecideStep

LEMMA ConfirmStep ==
  ASSUME BugInv, NEW p \in Reporter, NEW sig \in Signature0, NEW title \in Title0,
         Confirm(p, sig, title)
  PROVE  BugInv'
<1> DEFINE call == [Quiet EXCEPT !.pc = "search", !.sig = sig, !.title = title]
           counted == [reporter[p] EXCEPT !.calls = @ + 1]
           r == [counted EXCEPT !.call = call]
<1>1. reporter[p] \in ReporterState /\ sig \notin reporter[p].declined
  BY DEF BugInv, BugType, Confirm
<1>2. /\ call \in BugCall /\ call.pc = "search" /\ call.sig = sig /\ call.title = title
      /\ call.read = 0 /\ 0 <= Len(issues)
  <2>1. 0 <= Len(issues)
    BY DEF BugInv, BugType
  <2>2. Quiet \in BugCall /\ Quiet.read = 0 /\ title \in Titles
    BY NewReporterType DEF Quiet, Titles
  <2> QED
    BY <2>1, <2>2 DEF BugCall
<1>3. reporter' = [reporter EXCEPT ![p] = r] /\ UNCHANGED <<issues, excused, unwanted>>
  BY <1>1 DEF Confirm, BugInv, BugType, ReporterState
<1> HIDE DEF call
<1>4. r \in ReporterState /\ r.call = call /\ r.declined = reporter[p].declined
  <2>1. counted \in ReporterState /\ counted.declined = reporter[p].declined
    BY <1>1 DEF ReporterState
  <2> HIDE DEF counted
  <2> QED
    BY <1>2, <2>1 DEF ReporterState
<1>5. Wanted(r)
  BY <1>1, <1>2, <1>4 DEF Wanted
<1> HIDE DEF r
<1> QED
  BY <1>2, <1>3, <1>4, <1>5, DecideStep

LEMMA ForgetStep ==
  ASSUME BugInv, NEW p \in Reporter, Forget(p)
  PROVE  BugInv'
<1> DEFINE r == [NewReporter EXCEPT !.calls = reporter[p].calls]
<1>1. /\ r \in ReporterState /\ r.call = Quiet /\ Quiet.pc = "idle"
      /\ Quiet.read = 0 /\ 0 <= Len(issues)
  <2>1. Quiet.read = 0
    BY DEF Quiet
  <2>2. reporter[p] \in ReporterState /\ 0 <= Len(issues)
    BY DEF BugInv, BugType
  <2>3. r \in ReporterState /\ r.call = Quiet
    BY <2>2, NewReporterType DEF ReporterState
  <2> QED
    BY <2>1, <2>2, <2>3, NewReporterType
<1>2. reporter' = [reporter EXCEPT ![p] = r] /\ UNCHANGED <<issues, excused, unwanted>>
  BY DEF Forget
<1>3. Wanted(r)
  BY <1>1 DEF Wanted
<1> HIDE DEF r
<1> QED
  BY <1>1, <1>2, <1>3, DecideStep

\* The search: an issue that was not read, or not found, has its reason.
LEMMA SearchStep ==
  ASSUME BugInv, NEW p \in Reporter, SearchDuplicate(p)
  PROVE  BugInv'
<1> DEFINE call == reporter[p].call
           from == Len(issues) - ListLimit + 1
<1>1. /\ reporter[p] \in ReporterState /\ call \in BugCall /\ call.pc = "search"
      /\ Wanted(reporter[p]) /\ call.sig \in Signature0 /\ call.title \in Title0
      /\ issues \in Seq(IssueRecord) /\ SinglesOf(issues, excused) /\ unwanted = {}
      /\ call.read <= Len(issues)
  BY DEF BugInv, BugType, SearchDuplicate, ReporterState, Searched
<1>2. issues' = issues /\ unwanted' = unwanted /\ Len(issues) \in Nat /\ ListLimit \in Nat
  BY <1>1, BugAssumption DEF SearchDuplicate
<1>3. PICK c \in BugCall :
        /\ reporter' = [reporter EXCEPT ![p].call = c]
        /\ c.pc = "send" /\ c.sig = call.sig /\ c.title = call.title
        /\ c.read <= Len(issues) /\ excused \subseteq excused'
        /\ \/ call.sig \in excused'
           \/ ~c.found => \A i \in 1..Len(issues) : issues[i].sig # call.sig
  <2>1. CASE /\ reporter' = [reporter EXCEPT ![p].call =
                  [call EXCEPT !.pc = "send", !.read = Len(issues),
                               !.found = FindDuplicate(from, call.sig, call.title)]]
             /\ excused' = IF from > 1 THEN excused \cup {call.sig} ELSE excused
    <3> DEFINE c == [call EXCEPT !.pc = "send", !.read = Len(issues),
                                 !.found = FindDuplicate(from, call.sig, call.title)]
    <3>1. FindDuplicate(from, call.sig, call.title) \in BOOLEAN
      BY DEF FindDuplicate
    <3>2. /\ c \in BugCall /\ c.pc = "send" /\ c.sig = call.sig /\ c.title = call.title
          /\ c.read = Len(issues) /\ c.found = FindDuplicate(from, call.sig, call.title)
      BY <1>1, <1>2, <3>1 DEF BugCall
    <3>3. excused \subseteq excused'
      BY <2>1
    <3>4. \/ call.sig \in excused'
          \/ ~c.found => \A i \in 1..Len(issues) : issues[i].sig # call.sig
      BY <1>1, <1>2, <2>1, <3>2 DEF FindDuplicate
    <3>5. reporter' = [reporter EXCEPT ![p].call = c]
      BY <2>1
    <3> HIDE DEF c
    <3>6. c.read <= Len(issues)
      BY <1>2, <3>2
    <3> QED
      BY <3>2, <3>3, <3>4, <3>5, <3>6
  <2>2. CASE /\ reporter' = [reporter EXCEPT ![p].call = [call EXCEPT !.pc = "send"]]
             /\ excused' = excused \cup {call.sig}
    <3> DEFINE c == [call EXCEPT !.pc = "send"]
    <3>1. c \in BugCall /\ c.pc = "send" /\ c.sig = call.sig /\ c.title = call.title
      BY <1>1 DEF BugCall
    <3>2. c.read = call.read /\ excused \subseteq excused' /\ call.sig \in excused'
      BY <1>1, <2>2 DEF BugCall
    <3>3. reporter' = [reporter EXCEPT ![p].call = c]
      BY <2>2
    <3> HIDE DEF c
    <3>4. c.read <= Len(issues)
      BY <1>1, <3>2
    <3> QED
      BY <3>1, <3>2, <3>3, <3>4
  <2> QED
    BY <2>1, <2>2 DEF SearchDuplicate
<1> DEFINE r == [reporter[p] EXCEPT !.call = c]
<1>4. /\ r \in ReporterState /\ r.call = c /\ r.declined = reporter[p].declined
      /\ reporter' = [reporter EXCEPT ![p] = r]
  BY <1>1, <1>3 DEF ReporterState, BugInv, BugType
<1>5. Wanted(r)
  BY <1>1, <1>3, <1>4 DEF Wanted
<1>6. Searched(r.call, issues', excused')
  <2>1. /\ c.read <= Len(issues) /\ c.sig = call.sig /\ c.read \in Nat
        /\ \/ call.sig \in excused'
           \/ ~c.found => \A i \in 1..Len(issues) : issues[i].sig # call.sig
    BY <1>3 DEF BugCall
  <2> HIDE DEF call
  <2>2. Searched(c, issues, excused')
    BY <1>2, <2>1 DEF Searched
  <2> QED
    BY <1>2, <1>4, <2>2
<1>7. SinglesOf(issues', excused')
  BY <1>1, <1>2, <1>3 DEF SinglesOf
<1> HIDE DEF r, call, from
<1>8. /\ issues' \in Seq(IssueRecord) /\ Len(issues) <= Len(issues')
      /\ \A i \in 1..Len(issues) : issues'[i] = issues[i]
      /\ unwanted' = {} /\ excused \subseteq excused'
  BY <1>1, <1>2, <1>3
<1>9. r.call.sig \in Signature0 /\ r.call.title \in Title0
  BY <1>1, <1>3, <1>4 DEF call
<1> QED
  BY <1>4, <1>5, <1>6, <1>7, <1>8, <1>9, BugTurn

\* One more issue, of a report whose repetitions all have a reason.
LEMMA SinglesGrow ==
  ASSUME NEW list \in Seq(IssueRecord), NEW issue \in IssueRecord,
         NEW reasons, NEW others, reasons \subseteq others, SinglesOf(list, reasons),
         \A i \in 1..Len(list) : list[i].sig = issue.sig => issue.sig \in others
  PROVE  SinglesOf(Append(list, issue), others)
<1> DEFINE more == Append(list, issue)
<1>1. /\ DOMAIN more = 1..(Len(list) + 1) /\ more[Len(list) + 1] = issue
      /\ \A i \in 1..Len(list) : more[i] = list[i]
      /\ Len(list) \in Nat /\ DOMAIN list = 1..Len(list)
  OBVIOUS
<1> HIDE DEF more
<1>2. ASSUME NEW i \in DOMAIN more, NEW j \in DOMAIN more, i # j,
             more[i].sig = more[j].sig, more[i].sig # 0
      PROVE  more[i].sig \in others
  <2>1. CASE i \in 1..Len(list) /\ j \in 1..Len(list)
    BY <1>1, <1>2, <2>1 DEF SinglesOf
  <2>2. CASE i = Len(list) + 1
    BY <1>1, <1>2, <2>2
  <2>3. CASE j = Len(list) + 1
    BY <1>1, <1>2, <2>3
  <2> QED
    BY <1>1, <2>1, <2>2, <2>3
<1>3. SinglesOf(more, others)
  BY <1>2 DEF SinglesOf
<1> QED
  BY <1>3 DEF more

\* What GitHub gets: nothing, a comment, or one more issue; in the last case
\* a repetition was read and has its reason, or was not read and gets one.
LEMMA Posted ==
  ASSUME BugInv, NEW p \in Reporter, reporter[p].call.pc = "send",
         \/ Arrives(p)
         \/ UNCHANGED <<issues, excused, unwanted>>
         \/ /\ issues' = IF reporter[p].call.found THEN issues
                  ELSE Append(issues, Issue(reporter[p].call.sig, reporter[p].call.title))
            /\ Excuse(p) /\ UNCHANGED unwanted
  PROVE  /\ issues' \in Seq(IssueRecord) /\ Len(issues) <= Len(issues')
         /\ \A i \in 1..Len(issues) : issues'[i] = issues[i]
         /\ excused \subseteq excused' /\ unwanted' = {}
         /\ SinglesOf(issues', excused')
<1> DEFINE call == reporter[p].call
           issue == Issue(call.sig, call.title)
<1>1. /\ call \in BugCall /\ call.sig \in Signature0 /\ call.title \in Title0
      /\ call.sig \notin reporter[p].declined
      /\ issues \in Seq(IssueRecord) /\ SinglesOf(issues, excused) /\ unwanted = {}
      /\ Searched(call, issues, excused)
  BY DEF BugInv, BugType, ReporterState, Wanted
<1>2. issue \in IssueRecord /\ issue.sig = call.sig
  BY <1>1 DEF Issue, IssueRecord
<1>3. excused \subseteq excused' /\ unwanted' = {}
  BY <1>1 DEF Arrives, Excuse
<1>4. CASE issues' = issues
  BY <1>1, <1>3, <1>4 DEF SinglesOf
<1>5. CASE ~call.found /\ issues' = Append(issues, issue)
           /\ (Arrives(p) \/ Excuse(p))
  <2>1. ASSUME NEW i \in 1..Len(issues), issues[i].sig = call.sig
        PROVE  call.sig \in excused'
    <3>1. CASE Excuse(p)
      BY <3>1 DEF Excuse
    <3>2. call.read \in Nat /\ Len(issues) \in Nat /\ call.pc = "send"
      BY <1>1 DEF BugCall
    <3>3. CASE Arrives(p) /\ i \in 1..call.read
      BY <1>1, <1>3, <1>5, <2>1, <3>2, <3>3 DEF Searched
    <3>4. CASE Arrives(p) /\ i \in (call.read + 1)..Len(issues)
      BY <2>1, <3>4 DEF Arrives
    <3>5. i \in 1..call.read \/ i \in (call.read + 1)..Len(issues)
      <4> HIDE DEF call
      <4> QED
        BY <3>2
    <3> QED
      BY <1>5, <3>1, <3>3, <3>4, <3>5
  <2> HIDE DEF issue
  <2>2. SinglesOf(issues', excused')
    BY <1>1, <1>2, <1>3, <1>5, <2>1, SinglesGrow
  <2> QED
    BY <1>1, <1>2, <1>3, <1>5, <2>2
<1> QED
  BY <1>4, <1>5 DEF Arrives

LEMMA SendStep ==
  ASSUME BugInv, NEW p \in Reporter, Send(p)
  PROVE  BugInv'
<1> DEFINE call == reporter[p].call
<1>1. /\ reporter[p] \in ReporterState /\ call \in BugCall /\ call.pc = "send"
      /\ Wanted(reporter[p]) /\ call.sig \in Signature0 /\ call.title \in Title0
      /\ Searched(call, issues, excused)
  BY DEF BugInv, BugType, Send, ReporterState
<1>2. /\ issues' \in Seq(IssueRecord) /\ Len(issues) <= Len(issues')
      /\ \A i \in 1..Len(issues) : issues'[i] = issues[i]
      /\ excused \subseteq excused' /\ unwanted' = {}
      /\ SinglesOf(issues', excused')
  BY <1>1, Posted DEF Send
<1>3. Answered(p) \/ reporter' = [reporter EXCEPT ![p].call.attempt = @ + 1]
  BY DEF Send, SendAgain
<1>4. CASE Answered(p)
  <2> DEFINE r == [reporter[p] EXCEPT !.call = Quiet]
  <2>1. /\ r \in ReporterState /\ r.call = Quiet
        /\ reporter' = [reporter EXCEPT ![p] = r]
    BY <1>1, <1>4, NewReporterType DEF Answered, ReporterState, BugInv, BugType
  <2>2. Quiet.pc = "idle" /\ Quiet.read = 0 /\ 0 <= Len(issues')
    BY <1>2 DEF Quiet
  <2> HIDE DEF r
  <2>3. Wanted(r) /\ Searched(r.call, issues', excused') /\ r.call.pc = "idle"
    BY <2>1, <2>2 DEF Wanted, Searched
  <2> QED
    BY <1>2, <2>1, <2>3, BugTurn
<1>5. CASE reporter' = [reporter EXCEPT ![p].call.attempt = @ + 1]
  <2> DEFINE again == [call EXCEPT !.attempt = @ + 1]
             r == [reporter[p] EXCEPT !.call = again]
  <2>1. /\ again \in BugCall /\ again.pc = call.pc /\ again.sig = call.sig
        /\ again.title = call.title /\ again.read = call.read /\ again.found = call.found
    <3>1. call \in BugCall
      BY <1>1
    <3> HIDE DEF call
    <3> QED
      BY <3>1 DEF BugCall
  <2>2. reporter' = [reporter EXCEPT ![p] = r]
    BY <1>5 DEF BugInv, BugType
  <2>3. Searched(call, issues', excused')
    BY <1>1, <1>2, SearchedStays DEF BugInv, BugType, BugCall
  <2> HIDE DEF again
  <2>4. /\ r \in ReporterState /\ r.call = again /\ r.declined = reporter[p].declined
    BY <1>1, <2>1 DEF ReporterState
  <2>5. Wanted(r) /\ Searched(r.call, issues', excused')
    BY <1>1, <2>1, <2>3, <2>4 DEF Wanted, Searched
  <2> HIDE DEF r
  <2> QED
    BY <1>1, <1>2, <2>1, <2>2, <2>4, <2>5, BugTurn
<1> QED
  BY <1>3, <1>4, <1>5

LEMMA BugStart == BugInit => BugInv
<1> SUFFICES ASSUME BugInit PROVE BugInv
  OBVIOUS
<1>1. /\ issues = [i \in DOMAIN ByHand |-> Issue(0, ByHand[i])]
      /\ ByHand \in Seq(Title0)
      /\ reporter = [p \in Reporter |-> NewReporter]
      /\ excused = {} /\ unwanted = {}
  BY BugAssumption DEF BugInit
<1>2. /\ issues \in Seq(IssueRecord)
      /\ \A i \in DOMAIN issues : issues[i].sig = 0
  <2>1. \A t \in Title0 : Issue(0, t) \in IssueRecord /\ Issue(0, t).sig = 0
    BY DEF Issue, IssueRecord
  <2>2. DOMAIN ByHand = 1..Len(ByHand) /\ \A i \in DOMAIN ByHand : ByHand[i] \in Title0
    BY <1>1
  <2> QED
    BY <1>1, <2>1, <2>2
<1>3. BugType
  BY <1>1, <1>2, NewReporterType DEF BugType
<1>4. ASSUME NEW p \in Reporter
      PROVE  Wanted(reporter[p]) /\ Searched(reporter[p].call, issues, excused)
  <2>1. reporter[p].call = Quiet /\ Quiet.pc = "idle"
    BY <1>1, NewReporterType
  <2>2. Quiet.read = 0 /\ 0 <= Len(issues)
    BY <1>2 DEF Quiet
  <2> QED
    BY <2>1, <2>2 DEF Wanted, Searched
<1> QED
  BY <1>1, <1>2, <1>3, <1>4 DEF BugInv, SinglesOf

\* A defect has one issue, whoever reports it, how often and in what words: a
\* second one was read by nobody who published it, or nobody could tell that
\* the first arrived; and nothing declined is published (report_bug,
\* publish_report).
THEOREM ReportsWanted == BugSpec => []ReportsAreWanted
<1>1. BugInv /\ [BugNext]_channel => BugInv'
  <2> SUFFICES ASSUME BugInv, [BugNext]_channel PROVE BugInv'
    OBVIOUS
  <2>1. CASE UNCHANGED channel
    BY <2>1 DEF channel, BugInv, BugType, SinglesOf, Wanted, Searched
  <2> QED
    BY <2>1, DeclineStep, PreviewStep, ConfirmStep, SearchStep, SendStep, ForgetStep
    DEF BugNext
<1>2. BugInv => ReportsAreWanted
  BY DEF BugInv, SinglesOf, ReportsAreWanted
<1> QED
  BY BugStart, <1>1, <1>2, PTL DEF BugSpec

-----------------------------------------------------------------------------
(* The context of a task.                                                  *)

ContextSpec == ContextInit /\ [][ContextNext]_context

Modes == {"raises", "absorbed", "reported", "swallowed", "empties"}
MarkingModes == {"raises", "absorbed", "reported"}
GapRecord == [section : SectionName, source : Source \cup {""}, skipped : BOOLEAN]

\* the sources that a section may be the one to mark
Markable(section) ==
  CASE section = "preflight" -> {Postgres, Graph}
    [] section = "warm_board" -> {Embedder}
    [] section = "linked" -> {Graph}
    [] section \in EmbedderSections -> {Postgres, Embedder}
    [] OTHER -> {}

ContextType ==
  /\ asking \in [warm : BOOLEAN, board : BOOLEAN, stored : BOOLEAN, next : 1..10]
  /\ out \subseteq Source /\ outEver \subseteq Source
  /\ outAlways \subseteq out /\ out \subseteq outEver
  /\ down \subseteq outEver
  /\ gaps \subseteq GapRecord
  /\ got \in [SectionName -> {"todo", "none", "some"}]
  /\ reached \in [Source -> Nat]

\* Who finds a source out, and when: a source is marked once, Postgres by
\* preflight at the latest if it is never there, the embedder by the similar
\* tasks, unless these are skipped for Postgres.
Marked ==
  /\ \A s \in Source : reached[s] = IF s \in down THEN 1 ELSE 0
  /\ asking.next = 1 => down = {}
  /\ asking.next <= 3 => Embedder \notin down
  /\ asking.next > 1 /\ Postgres \in outAlways => Postgres \in down
  /\ asking.next > 6 /\ Embedder \in outAlways => down \cap {Embedder, Postgres} # {}

\* a gap blames what was out and what its section needs
Blamed(g, ever) ==
  g.source # "" =>
    /\ g.source \in ever
    /\ g.source \in Vital(g.section) \cup {Backend(g.section)} \/ g = Gap("task", Embedder, FALSE)

\* a section is missing for a reason, and is there if nothing it needs was out
ToldIn(gs, section, source) == \E g \in gs : g.section = section /\ g.source = source

Accounted(s, word, gs, ever, always, stored) ==
  word # "todo" =>
    /\ s # "warm_board" /\ Vital(s) \cap ever = {} =>
         word = "some" \/ ToldIn(gs, s, Backend(s)) \/ (s = "task" /\ ~stored)
    /\ Vital(s) \cap always # {} =>
         word = "none" /\ \E source \in Vital(s) : ToldIn(gs, s, source)

ContextInv ==
  /\ ContextType
  /\ Marked
  /\ \A g \in gaps : Blamed(g, outEver)
  /\ \A s \in SectionName : Accounted(s, got[s], gaps, outEver, outAlways, asking.stored)

-----------------------------------------------------------------------------
(* The sections and their calls.                                           *)

LEMMA SectionFacts ==
  /\ SectionName = {"preflight", "task_board", "warm_board", "task", "linked",
                    "similar", "subsystems", "code", "test_exemplars"}
  /\ Len(Sections) = 9
  /\ \A i \in 1..9 : Sections[i] \in SectionName
  /\ Sections[1] = "preflight" /\ Sections[2] = "task_board" /\ Sections[3] = "warm_board"
  /\ Sections[4] = "task" /\ Sections[5] = "linked" /\ Sections[6] = "similar"
  /\ Sections[7] = "subsystems" /\ Sections[8] = "code" /\ Sections[9] = "test_exemplars"
<1>1. /\ Len(Sections) = 9 /\ DOMAIN Sections = 1..9
      /\ Sections[1] = "preflight" /\ Sections[2] = "task_board" /\ Sections[3] = "warm_board"
      /\ Sections[4] = "task" /\ Sections[5] = "linked" /\ Sections[6] = "similar"
      /\ Sections[7] = "subsystems" /\ Sections[8] = "code" /\ Sections[9] = "test_exemplars"
  BY DEF Sections
<1>2. \A i \in Int : i \in 1..9 <=> i \in {1, 2, 3, 4, 5, 6, 7, 8, 9}
  OBVIOUS
<1>3. SectionName = {Sections[i] : i \in {1, 2, 3, 4, 5, 6, 7, 8, 9}}
  BY <1>1, <1>2 DEF SectionName
<1> QED
  BY <1>1, <1>2, <1>3

CallRecord == [source : Source, mode : Modes]

\* A list of calls, as far as a section depends on it.
FitsSection(section, calls) ==
  /\ Len(calls) \in 1..4 /\ DOMAIN calls = 1..Len(calls)
  /\ \A i \in DOMAIN calls : calls[i] \in CallRecord
  /\ \A i \in DOMAIN calls :
       /\ calls[i].mode = "raises" => calls[i].source \in Vital(section)
       /\ calls[i].mode = "empties" => calls[i].source = Postgres /\ Postgres \in Vital(section)
       /\ calls[i].mode \in MarkingModes => calls[i].source \in Markable(section)
  /\ \A i, j \in DOMAIN calls :
       /\ i < j /\ calls[i].source = calls[j].source
       /\ calls[i].mode \in MarkingModes /\ calls[j].mode \in MarkingModes
       => calls[i].mode = "raises"
  /\ section = "preflight" => calls[1] = Calling(Postgres, "raises")
  /\ section = "linked" => calls[1] = Calling(Graph, "raises")
  /\ section = "similar" => calls[1] = Calling(Embedder, "raises")
  /\ section \in {"code", "test_exemplars"} =>
       \E i \in DOMAIN calls : calls[i] = Calling(Embedder, "raises")

LEMMA SearchCallsFit ==
  /\ Len(SearchCalls) = 3 /\ DOMAIN SearchCalls = 1..3
  /\ SearchCalls[1] = Calling(Embedder, "raises")
  /\ SearchCalls[2] = Calling(Postgres, "empties")
  /\ SearchCalls[3] = Calling(Graph, "swallowed")
BY DEF SearchCalls

LEMMA LongSearch ==
  LET calls == <<Calling(Postgres, "swallowed")>> \o SearchCalls
  IN  /\ Len(calls) = 4 /\ DOMAIN calls = 1..4
      /\ calls[1] = Calling(Postgres, "swallowed")
      /\ calls[2] = Calling(Embedder, "raises")
      /\ calls[3] = Calling(Postgres, "empties")
      /\ calls[4] = Calling(Graph, "swallowed")
<1> DEFINE one == <<Calling(Postgres, "swallowed")>>
<1> DEFINE T == {Calling(Postgres, "swallowed"), Calling(Embedder, "raises"),
                 Calling(Postgres, "empties"), Calling(Graph, "swallowed")}
<1>1. one \in Seq(T) /\ Len(one) = 1 /\ one[1] = Calling(Postgres, "swallowed")
  OBVIOUS
<1>2. SearchCalls \in Seq(T)
  BY DEF SearchCalls
<1> HIDE DEF T
<1> HIDE DEF one
<1>3. /\ one \o SearchCalls \in Seq(T)
      /\ Len(one \o SearchCalls) = 4
      /\ \A i \in 1..4 : (one \o SearchCalls)[i] = IF i <= 1 THEN one[i] ELSE SearchCalls[i - 1]
  <2>1. Len(one) + Len(SearchCalls) = 4
    BY <1>1, SearchCallsFit
  <2> QED
    BY <1>1, <1>2, <2>1, ConcatProperties
<1>4. DOMAIN (one \o SearchCalls) = 1..4
  BY <1>3
<1>5. <<Calling(Postgres, "swallowed")>> \o SearchCalls = one \o SearchCalls
  BY DEF one
<1> QED
  BY <1>1, <1>3, <1>4, <1>5, SearchCallsFit

LEMMA CallsFit ==
  ASSUME NEW section \in SectionName, NEW calls \in CallsOf(section)
  PROVE  FitsSection(section, calls)
<1> USE DEF Calling, CallRecord, Modes, MarkingModes, Source, Postgres, Graph, Embedder
<1>1. CASE section = "preflight"
  <2>1. calls = <<Calling(Postgres, "raises"), Calling(Graph, "absorbed"), Calling(Postgres, "swallowed")>>
    BY <1>1 DEF CallsOf, PreflightCalls
  <2>2. /\ Len(calls) = 3 /\ DOMAIN calls = 1..3 /\ calls[1] = Calling(Postgres, "raises")
        /\ calls[2] = Calling(Graph, "absorbed") /\ calls[3] = Calling(Postgres, "swallowed")
    BY <2>1
  <2>3. Vital(section) = {Postgres} /\ Markable(section) = {Postgres, Graph}
    BY <1>1 DEF Vital, Markable, EmbedderSections
  <2> QED
    BY <1>1, <2>2, <2>3 DEF FitsSection
<1>2. CASE section = "task_board"
  <2>1. calls = <<Calling(Postgres, "swallowed")>>
    BY <1>2 DEF CallsOf, TaskBoardCalls
  <2>2. /\ Len(calls) = 1 /\ DOMAIN calls = 1..1 /\ calls[1] = Calling(Postgres, "swallowed")
    BY <2>1
  <2> QED
    BY <1>2, <2>2 DEF FitsSection
<1>3. CASE section = "warm_board"
  <2>1. Markable(section) = {Embedder}
    BY <1>3 DEF Markable, EmbedderSections
  <2>2. CASE calls = <<Calling(Postgres, "swallowed"), Calling(Graph, "swallowed")>>
    <3>1. /\ Len(calls) = 2 /\ DOMAIN calls = 1..2 /\ calls[1] = Calling(Postgres, "swallowed")
          /\ calls[2] = Calling(Graph, "swallowed")
      BY <2>2
    <3> QED
      BY <1>3, <3>1 DEF FitsSection
  <2>3. CASE calls = <<Calling(Postgres, "swallowed"), Calling(Embedder, "reported"), Calling(Graph, "swallowed")>>
    <3>1. /\ Len(calls) = 3 /\ DOMAIN calls = 1..3 /\ calls[1] = Calling(Postgres, "swallowed")
          /\ calls[2] = Calling(Embedder, "reported") /\ calls[3] = Calling(Graph, "swallowed")
      BY <2>3
    <3> QED
      BY <1>3, <2>1, <3>1 DEF FitsSection
  <2> QED
    BY <1>3, <2>2, <2>3 DEF CallsOf, WarmBoardCalls
<1>4. CASE section = "task"
  <2>1. calls = <<Calling(Postgres, "empties")>>
    BY <1>4 DEF CallsOf, TaskCalls
  <2>2. /\ Len(calls) = 1 /\ DOMAIN calls = 1..1 /\ calls[1] = Calling(Postgres, "empties")
    BY <2>1
  <2>3. Vital(section) = {Postgres}
    BY <1>4 DEF Vital, EmbedderSections
  <2> QED
    BY <1>4, <2>2, <2>3 DEF FitsSection
<1>5. CASE section = "linked"
  <2>1. calls = <<Calling(Graph, "raises")>>
    BY <1>5 DEF CallsOf, LinkedCalls
  <2>2. /\ Len(calls) = 1 /\ DOMAIN calls = 1..1 /\ calls[1] = Calling(Graph, "raises")
    BY <2>1
  <2>3. Vital(section) = {Graph} /\ Markable(section) = {Graph}
    BY <1>5 DEF Vital, Markable, EmbedderSections
  <2> QED
    BY <1>5, <2>2, <2>3 DEF FitsSection
<1>6. section \in EmbedderSections => Vital(section) = {Postgres, Embedder} /\ Markable(section) = {Postgres, Embedder}
  BY DEF Vital, Markable, EmbedderSections
<1>7. CASE section = "similar"
  <2>1. calls = <<Calling(Embedder, "raises"), Calling(Postgres, "empties")>>
    BY <1>7 DEF CallsOf, SimilarCalls
  <2>2. /\ Len(calls) = 2 /\ DOMAIN calls = 1..2 /\ calls[1] = Calling(Embedder, "raises")
        /\ calls[2] = Calling(Postgres, "empties")
    BY <2>1
  <2> QED
    BY <1>6, <1>7, <2>2 DEF FitsSection, EmbedderSections
<1>8. CASE section = "subsystems"
  <2>1. CASE calls = <<Calling(Postgres, "raises")>>
    <3>1. /\ Len(calls) = 1 /\ DOMAIN calls = 1..1 /\ calls[1] = Calling(Postgres, "raises")
      BY <2>1
    <3> QED
      BY <1>6, <1>8, <3>1 DEF FitsSection, EmbedderSections
  <2>2. CASE calls = <<Calling(Postgres, "raises"), Calling(Embedder, "raises"), Calling(Postgres, "raises")>>
    <3>1. /\ Len(calls) = 3 /\ DOMAIN calls = 1..3 /\ calls[1] = Calling(Postgres, "raises")
          /\ calls[2] = Calling(Embedder, "raises") /\ calls[3] = Calling(Postgres, "raises")
      BY <2>2
    <3> QED
      BY <1>6, <1>8, <3>1 DEF FitsSection, EmbedderSections
  <2> QED
    BY <1>8, <2>1, <2>2 DEF CallsOf, SubsystemsCalls
<1>9. ASSUME section \in {"code", "test_exemplars"}, calls = SearchCalls
      PROVE  FitsSection(section, calls)
  BY <1>6, <1>9, SearchCallsFit DEF FitsSection, EmbedderSections
<1>10. CASE section = "code"
  <2>1. CASE calls = <<Calling(Postgres, "swallowed")>> \o SearchCalls
    <3>1. /\ Len(calls) = 4 /\ DOMAIN calls = 1..4
          /\ calls[1] = Calling(Postgres, "swallowed")
          /\ calls[2] = Calling(Embedder, "raises")
          /\ calls[3] = Calling(Postgres, "empties")
          /\ calls[4] = Calling(Graph, "swallowed")
      BY <2>1, LongSearch
    <3> QED
      BY <1>6, <1>10, <3>1 DEF FitsSection, EmbedderSections
  <2> QED
    BY <1>9, <1>10, <2>1 DEF CallsOf, CodeCalls
<1>11. CASE section = "test_exemplars"
  BY <1>9, <1>11 DEF CallsOf
<1> QED
  BY <1>1, <1>2, <1>3, <1>4, <1>5, <1>7, <1>8, <1>10, <1>11, SectionFacts

\* The call at which a section ends is its first one that raises.
LEMMA EndFacts ==
  ASSUME NEW section, NEW calls, FitsSection(section, calls)
  PROVE  /\ EndsAt(calls) \in 1..(Len(calls) + 1)
         /\ EndsAt(calls) <= Len(calls) =>
              /\ EndsAt(calls) \in DOMAIN calls
              /\ calls[EndsAt(calls)].mode = "raises" /\ calls[EndsAt(calls)].source \in out
         /\ \A i \in Failing(calls, "raises") : EndsAt(calls) <= i
<1> DEFINE F == Failing(calls, "raises")
<1>1. Len(calls) \in 1..4 /\ DOMAIN calls = 1..Len(calls)
  BY DEF FitsSection
<1>2. F \subseteq 1..Len(calls) /\ \A i \in F : calls[i].mode = "raises" /\ calls[i].source \in out
  BY <1>1 DEF Failing
<1>3. CASE F = {}
  BY <1>1, <1>3 DEF EndsAt
<1>4. CASE F # {}
  <2>1. \E i \in F : \A j \in F : i <= j
    <3> HIDE DEF F
    <3>1. F \subseteq {1, 2, 3, 4}
      BY <1>1, <1>2
    <3>2. CASE 1 \in F
      BY <3>1, <3>2
    <3>3. CASE 1 \notin F /\ 2 \in F
      BY <3>1, <3>3
    <3>4. CASE 1 \notin F /\ 2 \notin F /\ 3 \in F
      BY <3>1, <3>4
    <3>5. CASE F = {4}
      BY <3>5
    <3> QED
      BY <1>4, <3>1, <3>2, <3>3, <3>4, <3>5
  <2>2. EndsAt(calls) = CHOOSE i \in F : \A j \in F : i <= j
    BY <1>4 DEF EndsAt
  <2>3. EndsAt(calls) \in F /\ \A j \in F : EndsAt(calls) <= j
    <3> HIDE DEF F
    <3> QED
      BY <2>1, <2>2
  <2> QED
    BY <1>1, <1>2, <2>3
<1> QED
  BY <1>3, <1>4

LEMMA MarkFacts ==
  ASSUME NEW section, NEW calls, FitsSection(section, calls)
  PROVE  /\ Marks(calls) \subseteq DOMAIN calls
         /\ \A i \in Marks(calls) : /\ calls[i].source \in out
                                    /\ calls[i].source \in Markable(section)
         /\ \A i, j \in Marks(calls) : calls[i].source = calls[j].source => i = j
<1>1. Len(calls) \in 1..4 /\ DOMAIN calls = 1..Len(calls)
  BY DEF FitsSection
<1>2. \A i \in Marks(calls) :
         /\ i \in DOMAIN calls /\ calls[i].source \in out /\ calls[i].mode \in MarkingModes
         /\ i <= EndsAt(calls) /\ calls[i].source \in Markable(section)
  BY DEF Marks, FitsSection, MarkingModes
<1>3. ASSUME NEW i \in Marks(calls), NEW j \in Marks(calls), calls[i].source = calls[j].source, i < j
      PROVE  FALSE
  <2>1. calls[i].mode = "raises"
    BY <1>2, <1>3 DEF FitsSection
  <2>2. i \in Failing(calls, "raises")
    BY <1>2, <2>1 DEF Failing
  <2>3. EndsAt(calls) <= i /\ EndsAt(calls) \in 1..(Len(calls) + 1)
    BY <2>2, EndFacts
  <2> QED
    BY <1>1, <1>2, <1>3, <2>3
<1> QED
  BY <1>1, <1>2, <1>3

\* What was found out in this call, and how often.
LEMMA MarksCount ==
  ASSUME NEW section, NEW calls, FitsSection(section, calls), NEW s
  PROVE  Cardinality({i \in Marks(calls) : calls[i].source = s})
           = IF s \in {calls[i].source : i \in Marks(calls)} THEN 1 ELSE 0
<1> DEFINE M == {i \in Marks(calls) : calls[i].source = s}
<1>1. CASE s \in {calls[i].source : i \in Marks(calls)}
  <2>1. PICK i \in Marks(calls) : calls[i].source = s
    BY <1>1
  <2>2. M = {i}
    BY <2>1, MarkFacts
  <2> QED
    BY <1>1, <2>2, FS_Singleton
<1>2. CASE s \notin {calls[i].source : i \in Marks(calls)}
  <2>1. M = {}
    BY <1>2
  <2> QED
    BY <1>2, <2>1, FS_EmptySet
<1> QED
  BY <1>1, <1>2

-----------------------------------------------------------------------------
(* One section after another.                                              *)

\* What was answered for a section stays accounted for.
LEMMA AccountedStays ==
  ASSUME NEW s, NEW word, NEW gs, NEW ever, NEW always, NEW stored,
         NEW gs1, NEW ever1, NEW always1,
         gs \subseteq gs1, ever \subseteq ever1, always1 \subseteq always,
         Accounted(s, word, gs, ever, always, stored)
  PROVE  Accounted(s, word, gs1, ever1, always1, stored)
BY DEF Accounted, ToldIn

LEMMA BlamedStays ==
  ASSUME NEW g, NEW ever, NEW ever1, ever \subseteq ever1, Blamed(g, ever)
  PROVE  Blamed(g, ever1)
BY DEF Blamed

\* A step that answers section s and changes nothing else.
LEMMA AnswerTurn ==
  ASSUME ContextInv, Answering,
         asking' = [asking EXCEPT !.next = @ + 1],
         UNCHANGED <<out, changes, outEver, outAlways>>,
         NEW word \in {"none", "some"},
         got' = [got EXCEPT ![Due] = word],
         gaps \subseteq gaps', gaps' \subseteq GapRecord,
         \A g \in gaps' \ gaps : Blamed(g, outEver),
         Accounted(Due, word, gaps', outEver, outAlways, asking.stored),
         down' \subseteq outEver, reached' \in [Source -> Nat],
         Marked'
  PROVE  ContextInv'
<1>1. /\ asking' \in [warm : BOOLEAN, board : BOOLEAN, stored : BOOLEAN, next : 1..10]
      /\ asking'.stored = asking.stored
  BY SectionFacts DEF ContextInv, ContextType, Answering
<1>2. Due \in SectionName
  BY SectionFacts DEF ContextInv, ContextType, Answering, Due
<1>3. /\ got' \in [SectionName -> {"todo", "none", "some"}]
      /\ got'[Due] = word
      /\ \A s \in SectionName \ {Due} : got'[s] = got[s]
  BY <1>2 DEF ContextInv, ContextType
<1>4. ContextType'
  BY <1>1, <1>3 DEF ContextInv, ContextType
<1>5. \A g \in gaps' : Blamed(g, outEver')
  BY DEF ContextInv
<1>6. ASSUME NEW s \in SectionName
      PROVE  Accounted(s, got'[s], gaps', outEver', outAlways', asking'.stored)
  <2>1. CASE s = Due
    BY <1>1, <1>3, <2>1
  <2>2. CASE s # Due
    BY <1>1, <1>3, <2>2, AccountedStays DEF ContextInv
  <2> QED
    BY <2>1, <2>2
<1> QED
  BY <1>4, <1>5, <1>6 DEF ContextInv

LEMMA DueFacts ==
  ASSUME ContextType, Answering
  PROVE  /\ Due \in SectionName
         /\ asking.next \in 1..9
         /\ Due = "preflight" <=> asking.next = 1
         /\ Due = "warm_board" <=> asking.next = 3
         /\ Due = "similar" <=> asking.next = 6
         /\ Due \in {"subsystems", "code", "test_exemplars"} <=> asking.next > 6
         /\ asking.next < 3 => Due \in {"preflight", "task_board"}
         /\ asking' = [asking EXCEPT !.next = @ + 1] => asking'.next = asking.next + 1
<1>1. asking.next \in 1..9
  BY SectionFacts DEF ContextType, Answering
<1>2. asking.next \in {1, 2, 3, 4, 5, 6, 7, 8, 9}
  BY <1>1
<1> QED
  BY <1>1, <1>2, SectionFacts DEF ContextType, Due

LEMMA SkipStep ==
  ASSUME ContextInv, Answering,
         asking' = [asking EXCEPT !.next = @ + 1],
         UNCHANGED <<out, changes, outEver, outAlways>>,
         Skip(Due)
  PROVE  ContextInv'
<1> USE DEF Postgres, Graph, Embedder
<1>1. ContextType /\ Marked
  BY DEF ContextInv
<1>2. /\ SkippedFor(Due) # {} /\ SkippedFor(Due) \subseteq down
      /\ \A s \in SkippedFor(Due) : \/ s = Embedder /\ Due \in EmbedderSections
                                    \/ s = Backend(Due)
      /\ Embedder \in SkippedFor(Due) => Due \in EmbedderSections
  BY DEF Skip, SkippedFor, Backend
<1>3. /\ Due \in EmbedderSections => Vital(Due) = {Postgres, Embedder} /\ Backend(Due) = Postgres
      /\ Vital(Due) # {} => Backend(Due) \in Vital(Due)
      /\ Backend(Due) \in Source
  BY DEF Vital, Backend, EmbedderSections, Source
<1>4. gaps' = gaps \cup {Gap(Due, s, TRUE) : s \in SkippedFor(Due)}
  BY DEF Skip
<1>5. down \subseteq Source /\ down \subseteq outEver
  BY <1>1 DEF ContextType
<1>6. gaps \subseteq gaps' /\ gaps' \subseteq GapRecord
  <2>1. ASSUME NEW s \in SkippedFor(Due) PROVE Gap(Due, s, TRUE) \in GapRecord
    BY <1>1, <1>2, <1>5, <2>1, DueFacts DEF Gap, GapRecord
  <2> QED
    BY <1>1, <1>4, <2>1 DEF ContextType
<1>7. ASSUME NEW g \in gaps' \ gaps PROVE Blamed(g, outEver)
  <2>1. PICK s \in SkippedFor(Due) : g = Gap(Due, s, TRUE)
    BY <1>4, <1>7
  <2> QED
    BY <1>2, <1>3, <1>5, <2>1 DEF Blamed, Gap
<1>8. ASSUME NEW s \in SkippedFor(Due) PROVE ToldIn(gaps', Due, s)
  <2>1. Gap(Due, s, TRUE) \in gaps'
    BY <1>4
  <2>2. Gap(Due, s, TRUE).section = Due /\ Gap(Due, s, TRUE).source = s
    BY DEF Gap
  <2> QED
    BY <2>1, <2>2 DEF ToldIn
<1>9. Accounted(Due, "none", gaps', outEver, outAlways, asking.stored)
  <2>1. Vital(Due) \cap outEver = {} => ToldIn(gaps', Due, Backend(Due))
    BY <1>2, <1>3, <1>5, <1>8
  <2>2. Vital(Due) # {} => \E s \in Vital(Due) : ToldIn(gaps', Due, s)
    BY <1>2, <1>3, <1>8
  <2> QED
    BY <2>1, <2>2 DEF Accounted
<1>10. Marked'
  <2>1. down' = down /\ reached' = reached
    BY DEF Skip
  <2>2. asking.next # 1
    BY <1>1, <1>2 DEF Marked
  <2>3. asking.next = 6 => down \cap {Embedder, Postgres} # {}
    <3>1. asking.next = 6 => Backend(Due) = Postgres
      BY <1>1, DueFacts DEF Backend
    <3> QED
      BY <1>2, <3>1
  <2> QED
    BY <1>1, <2>1, <2>2, <2>3, DueFacts DEF Marked
<1>11. got' = [got EXCEPT ![Due] = "none"] /\ down' = down /\ reached' = reached
  BY DEF Skip
<1> QED
  BY <1>1, <1>6, <1>7, <1>9, <1>10, <1>11, AnswerTurn DEF ContextType

LEMMA NoBoardStep ==
  ASSUME ContextInv, Answering,
         asking' = [asking EXCEPT !.next = @ + 1],
         UNCHANGED <<out, changes, outEver, outAlways>>,
         Due = "warm_board", NoBoard
  PROVE  ContextInv'
<1> USE DEF Postgres, Graph, Embedder
<1> DEFINE g == Gap("warm_board", IF Postgres \in down THEN Postgres ELSE "", Postgres \in down)
<1>1. ContextType /\ Marked
  BY DEF ContextInv
<1>2. gaps \subseteq gaps' /\ gaps' \subseteq gaps \cup {g}
  BY DEF NoBoard
<1>3. g \in GapRecord /\ Blamed(g, outEver)
  <2>1. Backend("warm_board") = Postgres
    BY DEF Backend
  <2>2. CASE Postgres \in down
    <3>1. (Postgres \in down) = TRUE
      BY <2>2
    <3>2. g = Gap("warm_board", Postgres, TRUE)
      BY <2>2, <3>1
    <3> HIDE DEF g
    <3>3. g.section = "warm_board" /\ g.source = Postgres /\ g.source \in outEver /\ g \in GapRecord
      BY <1>1, <2>2, <3>2, SectionFacts DEF Gap, GapRecord, Source, ContextType
    <3> QED
      BY <2>1, <3>3 DEF Blamed
  <2>3. CASE Postgres \notin down
    <3>1. (Postgres \in down) = FALSE
      BY <2>3
    <3>2. g = Gap("warm_board", "", FALSE)
      BY <2>3, <3>1
    <3> HIDE DEF g
    <3>3. g.source = "" /\ g \in GapRecord
      BY <3>2, SectionFacts DEF Gap, GapRecord
    <3> QED
      BY <3>3 DEF Blamed
  <2> QED
    BY <2>2, <2>3
<1>4. Vital(Due) = {}
  BY DEF Vital, EmbedderSections
<1>5. Accounted(Due, "none", gaps', outEver, outAlways, asking.stored)
  BY <1>4 DEF Accounted
<1>6. down' = down /\ reached' = reached /\ got' = [got EXCEPT !["warm_board"] = "none"]
  BY DEF NoBoard
<1>7. Marked'
  BY <1>1, <1>6, DueFacts DEF Marked
<1> QED
  BY <1>1, <1>2, <1>3, <1>5, <1>6, <1>7, AnswerTurn DEF ContextType

LEMMA CollectStep ==
  ASSUME ContextInv, Answering,
         asking' = [asking EXCEPT !.next = @ + 1],
         UNCHANGED <<out, changes, outEver, outAlways>>,
         CollectSection(Due)
  PROVE  ContextInv'
<1> USE DEF Postgres, Graph, Embedder
<1>1. /\ ContextType /\ Marked
      /\ Due \in SectionName
  BY DueFacts DEF ContextInv
<1>2. PICK calls \in CallsOf(Due) :
        LET raised == EndsAt(calls) <= Len(calls)
            unread == Due = "task" /\ (Emptied(calls) \/ ~asking.stored)
            none == raised \/ Emptied(calls) \/ unread
        IN  /\ gaps' = gaps \cup {Gap(Due, calls[i].source, FALSE) : i \in DOMAIN calls \cap {EndsAt(calls)}}
                             \cup (IF unread THEN {NoTask} ELSE {})
            /\ got' = [got EXCEPT ![Due] = IF none THEN "none" ELSE "some"]
            /\ down' = down \cup {calls[i].source : i \in Marks(calls)}
            /\ reached' = [s \in Source |->
                  reached[s] + Cardinality({i \in Marks(calls) : calls[i].source = s})]
  BY DEF CollectSection
<1> DEFINE end == EndsAt(calls)
           raised == end <= Len(calls)
           unread == Due = "task" /\ (Emptied(calls) \/ ~asking.stored)
           none == raised \/ Emptied(calls) \/ unread
           word == IF none THEN "none" ELSE "some"
           found == {calls[i].source : i \in Marks(calls)}
<1>3. FitsSection(Due, calls)
  BY <1>1, <1>2, CallsFit
<1>4. SkippedFor(Due) = {}
  BY DEF CollectSection
<1>5. /\ Backend(Due) \notin down
      /\ Due \in EmbedderSections => Embedder \notin down
  BY <1>4 DEF SkippedFor
\* what was found out is out, and new
<1>6. found \subseteq out /\ found \subseteq Markable(Due)
  BY <1>3, MarkFacts
<1>7. Markable(Due) \cap down = {}
  <2>1. CASE Due = "preflight"
    BY <1>1, <2>1, DueFacts DEF Marked
  <2>2. CASE Due = "warm_board"
    BY <1>1, <2>2, DueFacts DEF Marked, Markable, EmbedderSections
  <2>3. CASE Due = "linked"
    BY <1>5, <2>3 DEF Markable, Backend, EmbedderSections
  <2>4. CASE Due \in EmbedderSections
    BY <1>5, <2>4 DEF Markable, Backend, EmbedderSections
  <2> QED
    BY <2>1, <2>2, <2>3, <2>4 DEF Markable
<1>8. /\ down' = down \cup found
      /\ down' \subseteq outEver
  BY <1>1, <1>2, <1>6 DEF ContextType
<1>9. ASSUME NEW s \in Source
      PROVE  reached'[s] = IF s \in down' THEN 1 ELSE 0
  <2>1. reached'[s] = reached[s] + (IF s \in found THEN 1 ELSE 0)
    BY <1>2, <1>3, MarksCount
  <2>2. s \in found => s \notin down
    BY <1>6, <1>7
  <2> QED
    BY <1>1, <1>8, <2>1, <2>2 DEF Marked
<1>10. reached' \in [Source -> Nat]
  <2>1. DOMAIN reached' = Source /\ reached' = [s \in Source |-> reached'[s]]
    BY <1>2
  <2> QED
    BY <1>9, <2>1
\* when a section raises
<1>11. /\ Len(calls) \in 1..4 /\ DOMAIN calls = 1..Len(calls)
       /\ raised => /\ end \in DOMAIN calls
                    /\ calls[end].source \in out /\ calls[end].source \in Vital(Due)
  BY <1>3, EndFacts DEF FitsSection
<1>12. ASSUME NEW i \in DOMAIN calls, calls[i].mode = "raises", calls[i].source \in out
       PROVE  raised
  BY <1>3, <1>11, <1>12, EndFacts DEF Failing
<1>13. ASSUME calls[1].mode = "raises", calls[1].source \in out
       PROVE  raised /\ calls[1].source \in found
  <2>1. 1 \in Failing(calls, "raises") /\ 1 \in DOMAIN calls
    BY <1>11, <1>13 DEF Failing
  <2>2. end <= 1 /\ end \in 1..(Len(calls) + 1)
    BY <1>3, <2>1, EndFacts
  <2>3. 1 \in Marks(calls)
    BY <1>11, <1>13, <2>1, <2>2 DEF Marks
  <2> QED
    BY <1>11, <2>2, <2>3
<1>14. Marked'
  <2>1. asking'.next = asking.next + 1 /\ asking.next \in 1..9
    BY <1>1, DueFacts
  <2>2. asking'.next <= 3 => Embedder \notin down'
    <3>1. asking'.next <= 3 => Markable(Due) \subseteq {Postgres, Graph}
      BY <1>1, <2>1, DueFacts DEF Markable, EmbedderSections
    <3> QED
      BY <1>1, <1>6, <1>8, <2>1, <3>1 DEF Marked
  <2>3. Postgres \in outAlways => Postgres \in down'
    <3>1. CASE asking.next > 1
      BY <1>1, <1>8, <3>1 DEF Marked
    <3>2. CASE asking.next = 1
      <4>1. calls[1] = Calling(Postgres, "raises")
        BY <1>1, <1>3, <3>2, DueFacts DEF FitsSection
      <4>2. calls[1].source = Postgres /\ calls[1].mode = "raises"
        BY <4>1 DEF Calling
      <4> QED
        BY <1>1, <1>8, <1>13, <4>2 DEF ContextType
    <3> QED
      BY <2>1, <3>1, <3>2
  <2>4. asking'.next > 6 /\ Embedder \in outAlways => down' \cap {Embedder, Postgres} # {}
    <3>1. CASE asking.next > 6
      BY <1>1, <1>8, <3>1 DEF Marked
    <3>2. CASE asking.next = 6
      <4>1. calls[1] = Calling(Embedder, "raises")
        BY <1>1, <1>3, <3>2, DueFacts DEF FitsSection
      <4>2. calls[1].source = Embedder /\ calls[1].mode = "raises"
        BY <4>1 DEF Calling
      <4> QED
        BY <1>1, <1>8, <1>13, <4>2 DEF ContextType
    <3> QED
      BY <2>1, <3>1, <3>2
  <2> QED
    BY <1>9, <2>1, <2>2, <2>3, <2>4 DEF Marked
\* the gaps
<1>15. /\ gaps \subseteq gaps'
       /\ raised => Gap(Due, calls[end].source, FALSE) \in gaps'
       /\ \A g \in gaps' : \/ g \in gaps
                           \/ raised /\ g = Gap(Due, calls[end].source, FALSE)
                           \/ Due = "task" /\ g = NoTask
  <2>1. DOMAIN calls \cap {end} = IF raised THEN {end} ELSE {}
    BY <1>3, <1>11, EndFacts
  <2>2. {Gap(Due, calls[i].source, FALSE) : i \in DOMAIN calls \cap {end}}
           = IF raised THEN {Gap(Due, calls[end].source, FALSE)} ELSE {}
    BY <2>1
  <2> QED
    BY <1>2, <2>2
<1>16. raised => ToldIn(gaps', Due, calls[end].source)
  BY <1>15 DEF ToldIn, Gap
<1>17. gaps' \subseteq GapRecord /\ \A g \in gaps' \ gaps : Blamed(g, outEver)
  <2>1. raised => /\ Gap(Due, calls[end].source, FALSE) \in GapRecord
                  /\ Blamed(Gap(Due, calls[end].source, FALSE), outEver)
    BY <1>1, <1>11 DEF Gap, GapRecord, Blamed, ContextType
  <2>2. NoTask \in GapRecord /\ Blamed(NoTask, outEver)
    BY <1>1, SectionFacts DEF NoTask, Gap, GapRecord, Blamed, ContextType, Source
  <2> QED
    BY <1>1, <1>15, <2>1, <2>2 DEF ContextType
\* the answer of the section
<1>18. Emptied(calls) => Postgres \in Vital(Due) /\ Postgres \in out
  BY <1>3 DEF Emptied, Failing, FitsSection
<1>19. Vital(Due) \cap outEver = {} =>
         word = "some" \/ (Due = "task" /\ ~asking.stored)
  <2>1. out \subseteq outEver
    BY <1>1 DEF ContextType
  <2> QED
    BY <1>11, <1>18, <2>1
<1>20. Vital(Due) \cap outAlways # {} => raised
  <2> SUFFICES ASSUME Vital(Due) \cap outAlways # {} PROVE raised
    OBVIOUS
  <2>1. outAlways \subseteq out
    BY <1>1 DEF ContextType
  <2>2. \A source, mode : Calling(source, mode).source = source /\ Calling(source, mode).mode = mode
    BY DEF Calling
  <2>3. CASE Due = "preflight"
    <3>1. Postgres \in outAlways
      BY <2>3 DEF Vital, EmbedderSections
    <3> QED
      BY <1>3, <1>13, <2>1, <2>2, <2>3, <3>1 DEF FitsSection
  <2>4. CASE Due = "linked"
    <3>1. Graph \in outAlways
      BY <2>4 DEF Vital, EmbedderSections
    <3> QED
      BY <1>3, <1>13, <2>1, <2>2, <2>4, <3>1 DEF FitsSection
  <2>5. CASE Due \notin {"preflight", "linked"}
    <3>1. Due = "task" \/ Due \in EmbedderSections
      BY <2>5 DEF Vital
    <3>2. Backend(Due) = Postgres /\ Vital(Due) \subseteq {Postgres, Embedder}
      BY <2>5, <3>1 DEF Vital, Backend, EmbedderSections
    <3>3. Postgres \notin outAlways
      BY <1>1, <1>5, <2>5, <3>2, DueFacts DEF Marked
    <3>4. Embedder \in outAlways /\ Due # "task"
      BY <3>2, <3>3 DEF Vital, EmbedderSections
    <3>5. Due \in EmbedderSections
      BY <3>1, <3>4
    <3>6. CASE Due = "similar"
      BY <1>3, <1>13, <2>1, <2>2, <3>4, <3>6 DEF FitsSection
    <3>7. CASE Due = "subsystems"
      BY <1>1, <1>5, <3>2, <3>4, <3>5, <3>7, DueFacts DEF Marked
    <3>8. CASE Due \in {"code", "test_exemplars"}
      BY <1>3, <1>12, <2>1, <2>2, <3>4, <3>8 DEF FitsSection
    <3> QED
      BY <3>5, <3>6, <3>7, <3>8 DEF EmbedderSections
  <2> QED
    BY <2>3, <2>4, <2>5
<1>21. Accounted(Due, word, gaps', outEver, outAlways, asking.stored)
  <2>1. raised => word = "none" /\ \E source \in Vital(Due) : ToldIn(gaps', Due, source)
    BY <1>11, <1>16
  <2> QED
    BY <1>19, <1>20, <2>1 DEF Accounted
<1>22. got' = [got EXCEPT ![Due] = word] /\ word \in {"none", "some"}
  BY <1>2
<1> HIDE DEF word
<1> QED
  BY <1>8, <1>10, <1>14, <1>15, <1>17, <1>21, <1>22, AnswerTurn

LEMMA OutageStep == ContextInv /\ OutageChanges => ContextInv'
<1> SUFFICES ASSUME ContextInv, OutageChanges PROVE ContextInv'
  OBVIOUS
<1>1. PICK s \in Source :
        /\ out' = IF s \in out THEN out \ {s} ELSE out \cup {s}
        /\ outEver' = outEver \cup out' /\ outAlways' = outAlways \cap out'
  BY DEF OutageChanges
<1>2. UNCHANGED <<asking, down, gaps, got, reached>>
  BY DEF OutageChanges
<1>3. outEver \subseteq outEver' /\ outAlways' \subseteq outAlways
  BY <1>1
<1>4. ContextType'
  BY <1>1, <1>2 DEF ContextInv, ContextType
<1>5. Marked'
  BY <1>2, <1>3 DEF ContextInv, Marked
<1>6. \A g \in gaps' : Blamed(g, outEver')
  BY <1>2, <1>3, BlamedStays DEF ContextInv
<1>7. \A n \in SectionName : Accounted(n, got'[n], gaps', outEver', outAlways', asking'.stored)
  BY <1>2, <1>3, AccountedStays DEF ContextInv
<1> QED
  BY <1>4, <1>5, <1>6, <1>7 DEF ContextInv

LEMMA ContextStart == ContextInit => ContextInv
<1> SUFFICES ASSUME ContextInit PROVE ContextInv
  OBVIOUS
<1>1. ContextType
  BY DEF ContextInit, ContextType
<1>2. Marked
  BY DEF ContextInit, Marked
<1>3. \A s \in SectionName : got[s] = "todo"
  BY DEF ContextInit
<1>4. \A s \in SectionName : Accounted(s, got[s], gaps, outEver, outAlways, asking.stored)
  BY <1>3 DEF Accounted
<1> QED
  BY <1>1, <1>2, <1>4 DEF ContextInit, ContextInv

\* However the sources go out and come back on the way, and how often: a gap
\* of the answer blames a source that was out and that its section needs, a
\* section whose sources were there is not missing, one whose sources were not
\* is, and says so, and no outage is run into twice (prepare_task_context).
THEOREM ContextTellsTheTruth == ContextSpec => []ContextIsHonest
<1>1. ContextInv /\ [ContextNext]_context => ContextInv'
  <2> SUFFICES ASSUME ContextInv, [ContextNext]_context PROVE ContextInv'
    OBVIOUS
  <2>1. CASE BuildSection
    <3>1. /\ Answering
          /\ asking' = [asking EXCEPT !.next = @ + 1]
          /\ UNCHANGED <<out, changes, outEver, outAlways>>
          /\ \/ Due = "warm_board" /\ NoBoard
             \/ Skip(Due) \/ CollectSection(Due)
      BY <2>1 DEF BuildSection
    <3> QED
      BY <3>1, NoBoardStep, SkipStep, CollectStep
  <2>2. CASE OutageChanges
    BY <2>2, OutageStep
  <2>3. CASE UNCHANGED context
    BY <2>3 DEF context, ContextInv, ContextType, Marked
  <2> QED
    BY <2>1, <2>2, <2>3 DEF ContextNext
<1>2. ContextInv => ContextIsHonest
  <2> SUFFICES ASSUME ContextInv PROVE ContextIsHonest
    OBVIOUS
  <2>1. \A g \in gaps : Blamed(g, outEver)
    BY DEF ContextInv
  <2>2. \A s \in SectionName : Accounted(s, got[s], gaps, outEver, outAlways, asking.stored)
    BY DEF ContextInv
  <2>3. \A s \in Source : reached[s] <= 1
    BY DEF ContextInv, Marked
  <2>4. \A section, source : ToldIn(gaps, section, source) <=> Told(section, source)
    BY DEF Told, ToldIn
  <2> QED
    BY <2>1, <2>2, <2>3, <2>4 DEF Blamed, Accounted, ContextIsHonest
<1> QED
  BY ContextStart, <1>1, <1>2, PTL DEF ContextSpec

-----------------------------------------------------------------------------
(* The base index: between the commit in index_meta and the tip of the     *)
(* branch it may lag, but not further.                                     *)

(* One process at a time and comparisons that list every file.  The        *)
(* theorem is about plain commits, Habits = {}: developers neither copy    *)
(* chunks nor go back to what a file was, the policy stays and spares a    *)
(* file, base commits are at the tip, clones stand still while they are    *)
(* indexed.  Without any of these the code can leave an index that differs *)
(* from the branch at zero drift (README, section 4).                      *)
OneIndexer == \A i, j \in Process : i = j
WholeComparisons == \A L \in SUBSET Path : Cardinality(L) <= MaxFiles

-----------------------------------------------------------------------------
(* The inductive invariant                                                 *)

JobFields == {"pc", "full", "to", "files", "gone", "ignored", "todo", "seen", "batch"}

\* The text was written for this symbol of this file.
OfSlot(t, p, n) == \E d \in Nat : t = <<d, p, n>>

WellMade(content, p) ==
  DOMAIN content \subseteq Name /\ \A n \in DOMAIN content : OfSlot(content[n], p, n)

SoundTree(tree, ignored) ==
  /\ DOMAIN tree = {"file", "ignored"}
  /\ DOMAIN tree.file \subseteq Path /\ tree.ignored = ignored
  /\ DOMAIN tree.file \ tree.ignored # {}
  /\ \A p \in DOMAIN tree.file : WellMade(tree.file[p], p)

\* A file that two commits have alike is so in all commits between them.
Straight(h) ==
  \A p \in Path : \A a, c, b \in 1..Len(h) :
    a <= c /\ c <= b /\ Same(h[a], h[b], p) => Same(h[a], h[c], p)

Branch(h) ==
  /\ (\E S : h \in Seq(S)) /\ Len(h) # 0
  /\ \A c \in 1..Len(h) : SoundTree(h[c], h[1].ignored)
  /\ Straight(h)

\* Commit c has this chunk for the index.
Has(h, c, p, n, t) ==
  /\ p \in DOMAIN h[c].file /\ p \notin h[c].ignored
  /\ n \in DOMAIN h[c].file[p] /\ h[c].file[p][n] = t

Row(rows, p, n, t) == <<p, n>> \in DOMAIN rows /\ rows[<<p, n>>] = t

RowsOK(rows) ==
  /\ DOMAIN rows \subseteq Slot
  /\ \A p \in Path, n \in Name :
       <<p, n>> \in DOMAIN rows => OfSlot(rows[<<p, n>>], p, n)

\* A row is of a commit between m and the tip; a chunk that none of them
\* touches has a row.
Current(h, m, rows, p, n) ==
  /\ <<p, n>> \in DOMAIN rows => \E c \in m..Len(h) : Has(h, c, p, n, rows[<<p, n>>])
  /\ \A t : (\A c \in m..Len(h) : Has(h, c, p, n, t)) => <<p, n>> \in DOMAIN rows

Lags(h, m, rows) == m # 0 => \A p \in Path, n \in Name : Current(h, m, rows, p, n)

\* The rows of file p are those of commit c.
Exact(h, c, rows, p) ==
  \A n \in Name : /\ <<p, n>> \in DOMAIN rows => Has(h, c, p, n, rows[<<p, n>>])
                  /\ \A t : Has(h, c, p, n, t) => <<p, n>> \in DOMAIN rows

\* The rows of file p will be those of commit c with what waits for the embedder.
Ready(h, c, rows, batch, p) ==
  \A n \in Name :
    /\ <<p, n>> \in DOMAIN rows => \E t : Has(h, c, p, n, t)
    /\ \A t : Has(h, c, p, n, t) => <<p, n>> \in DOMAIN batch \/ Row(rows, p, n, t)

Rowless(rows, S) == \A p \in S, n \in Name : <<p, n>> \notin DOMAIN rows

\* A text of file p that was seen has its row.
Seen(h, c, rows, seen, p) ==
  \A n \in Name : \A t : Has(h, c, p, n, t) /\ t \in seen => Row(rows, p, n, t)

Waiting(h, r) ==
  /\ DOMAIN r.batch \subseteq Slot
  /\ \A p \in Path, n \in Name :
       <<p, n>> \in DOMAIN r.batch => p \in r.files /\ Has(h, r.to, p, n, r.batch[<<p, n>>])

\* What a job was begun with.
Begun(h, m, r) ==
  /\ r.to \in 1..Len(h) /\ m <= r.to /\ r.ignored = h[r.to].ignored
  /\ r.files \subseteq DOMAIN h[r.to].file /\ r.todo \subseteq r.files
  /\ r.gone \subseteq Path /\ r.gone \cap DOMAIN h[r.to].file = {}
  /\ r.full => r.files = DOMAIN h[r.to].file \ r.ignored /\ r.gone = {}
  /\ ~r.full =>
       /\ m # 0
       /\ \A p \in Path : p \in r.files \/ p \in r.gone \/ Same(h[m], h[r.to], p)

\* What it has done so far.
Went(h, rows, r) ==
  /\ r.pc \in {"remove", "hashes"} => r.todo = r.files /\ DOMAIN r.batch = {}
  /\ r.pc # "remove" => Rowless(rows, r.gone)
  /\ r.pc = "files" =>
       /\ \A p \in r.todo : Seen(h, r.to, rows, r.seen, p)
       /\ \A p \in r.files \ r.todo : Ready(h, r.to, rows, r.batch, p)
  /\ r.pc \in {"sweep", "meta"} => \A p \in r.files : Exact(h, r.to, rows, p)
  /\ r.pc = "sweep" => r.full
  /\ r.pc = "meta" /\ r.full => Rowless(rows, Path \ r.files)

JobOK(h, m, rows, r) ==
  /\ DOMAIN r = JobFields
  /\ r.pc # "idle" => Begun(h, m, r) /\ Waiting(h, r) /\ Went(h, rows, r)

IndexInv ==
  /\ Branch(history) /\ meta \in 0..Tip
  /\ RowsOK(chunk) /\ Lags(history, meta, chunk)
  /\ DOMAIN job = Process
  /\ \A i \in Process : JobOK(history, meta, chunk, job[i])

-----------------------------------------------------------------------------
(* Texts, functions and sequences                                          *)

LEMMA OneSlot ==
  ASSUME NEW t, NEW p, NEW n, NEW q, NEW k, OfSlot(t, p, n), OfSlot(t, q, k)
  PROVE  p = q /\ n = k
BY DEF OfSlot

LEMMA JustOf ==
  ASSUME NEW x, NEW y
  PROVE  DOMAIN Just(x, y) = {x} /\ Just(x, y)[x] = y
BY DEF Just

LEMMA WithinOf ==
  ASSUME NEW f, NEW S
  PROVE  /\ DOMAIN Within(f, S) = DOMAIN f \cap S
         /\ \A x \in DOMAIN f \cap S : Within(f, S)[x] = f[x]
BY DEF Within, Restrict

LEMMA WithoutOf ==
  ASSUME NEW f, NEW S
  PROVE  /\ DOMAIN Without(f, S) = DOMAIN f \ S
         /\ \A x \in DOMAIN f \ S : Without(f, S)[x] = f[x]
BY DEF Without, Restrict

LEMMA Longer ==
  ASSUME NEW h, NEW S, h \in Seq(S), NEW t, NEW g, g = Append(h, t)
  PROVE  /\ g \in Seq(S \cup {t}) /\ Len(g) = Len(h) + 1 /\ Len(h) \in Nat
         /\ g[Len(h) + 1] = t /\ \A c \in 1..Len(h) : g[c] = h[c]
<1>1. h \in Seq(S \cup {t})
  BY SeqDef
<1> QED
  BY <1>1, AppendProperties

-----------------------------------------------------------------------------
(* The branch                                                              *)

LEMMA HasOfSlot ==
  ASSUME NEW h, Branch(h), NEW c \in 1..Len(h), NEW p, NEW n, NEW t, Has(h, c, p, n, t)
  PROVE  OfSlot(t, p, n) /\ p \in Path /\ n \in Name
BY DEF Branch, SoundTree, WellMade, Has

\* Commits that have a file alike have its chunks alike.
LEMMA HasAlike ==
  ASSUME NEW h, Branch(h), NEW c \in 1..Len(h), NEW d \in 1..Len(h), NEW p, NEW n, NEW t,
         Same(h[c], h[d], p)
  PROVE  Has(h, c, p, n, t) <=> Has(h, d, p, n, t)
<1>1. h[c].ignored = h[d].ignored
  BY DEF Branch, SoundTree
<1>2. p \in DOMAIN h[c].file <=> p \in DOMAIN h[d].file
  BY DEF Same
<1>3. p \in DOMAIN h[c].file => h[c].file[p] = h[d].file[p]
  BY DEF Same
<1> QED
  BY <1>1, <1>2, <1>3 DEF Has

\* Equal files, from commit to commit.
LEMMA SameTwice ==
  ASSUME NEW t, NEW u, NEW v, NEW p, Same(t, u, p), Same(u, v, p)
  PROVE  Same(t, v, p)
BY DEF Same

LEMMA SameBack ==
  ASSUME NEW t, NEW u, NEW p, Same(t, u, p)
  PROVE  Same(u, t, p)
BY DEF Same

LEMMA PushStraight ==
  ASSUME NEW h, Branch(h), NEW tree, NEW g,
         Len(g) = Len(h) + 1, g[Len(h) + 1] = tree, \A c \in 1..Len(h) : g[c] = h[c],
         Len(h) \in Nat,
         \A p \in Path : ~Same(h[Len(h)], tree, p) =>
            \A c \in 1..Len(h) : ~Same(h[c], tree, p)
  PROVE  Straight(g)
<1> SUFFICES ASSUME NEW p \in Path, NEW a \in 1..Len(g), NEW c \in 1..Len(g),
                    NEW b \in 1..Len(g), a <= c, c <= b, Same(g[a], g[b], p)
             PROVE  Same(g[a], g[c], p)
  BY DEF Straight
<1>1. CASE b <= Len(h)
  <2>1. a \in 1..Len(h) /\ b \in 1..Len(h) /\ c \in 1..Len(h)
    BY <1>1
  <2> QED
    BY <2>1 DEF Branch, Straight
<1>2. CASE c = Len(h) + 1
  <2>1. b = c
    BY <1>2
  <2> QED
    BY <2>1
<1>3. CASE b = Len(h) + 1 /\ c <= Len(h)
  <2>1. a \in 1..Len(h) /\ c \in 1..Len(h) /\ Len(h) \in 1..Len(h)
    BY <1>3
  <2>2. g[a] = h[a] /\ g[b] = tree /\ g[c] = h[c]
    BY <1>3, <2>1
  <2>3. Same(h[Len(h)], tree, p)
    BY <2>1, <2>2
  <2>4. Same(h[a], h[Len(h)], p)
    BY <2>2, <2>3, SameTwice, SameBack
  <2>5. Same(h[a], h[c], p)
    BY <2>1, <2>4, <1>3 DEF Branch, Straight
  <2> QED
    BY <2>2, <2>5
<1> QED
  BY <1>1, <1>2, <1>3

\* A history that goes on: what is claimed of its commits stays true.
Extends(h, g) == /\ Len(h) \in Nat /\ Len(g) \in Nat /\ Len(h) <= Len(g)
                 /\ \A c \in 1..Len(h) : g[c] = h[c]

LEMMA HasGoesOn ==
  ASSUME NEW h, NEW g, Extends(h, g), NEW c \in 1..Len(h), NEW p, NEW n, NEW t
  PROVE  Has(h, c, p, n, t) <=> Has(g, c, p, n, t)
BY DEF Extends, Has

LEMMA LagsGoesOn ==
  ASSUME NEW h, NEW g, Extends(h, g), NEW m \in 0..Len(h), NEW rows, Lags(h, m, rows)
  PROVE  Lags(g, m, rows)
<1> SUFFICES ASSUME m # 0, NEW p \in Path, NEW n \in Name PROVE Current(g, m, rows, p, n)
  BY DEF Lags
<1>1. m..Len(h) \subseteq m..Len(g) /\ m..Len(h) \subseteq 1..Len(h)
  BY DEF Extends
<1>2. Current(h, m, rows, p, n)
  BY DEF Lags
<1>3. ASSUME <<p, n>> \in DOMAIN rows
      PROVE  \E c \in m..Len(g) : Has(g, c, p, n, rows[<<p, n>>])
  <2>1. PICK c \in m..Len(h) : Has(h, c, p, n, rows[<<p, n>>])
    BY <1>2, <1>3 DEF Current
  <2> QED
    BY <1>1, <2>1, HasGoesOn
<1>4. ASSUME NEW t, \A c \in m..Len(g) : Has(g, c, p, n, t)
      PROVE  <<p, n>> \in DOMAIN rows
  <2>1. \A c \in m..Len(h) : Has(h, c, p, n, t)
    BY <1>1, <1>4, HasGoesOn
  <2> QED
    BY <1>2, <2>1 DEF Current
<1> QED
  BY <1>3, <1>4 DEF Current

LEMMA JobGoesOn ==
  ASSUME NEW h, NEW g, Extends(h, g), NEW m \in 0..Len(h), NEW rows, NEW r,
         JobOK(h, m, rows, r)
  PROVE  JobOK(g, m, rows, r)
<1> SUFFICES ASSUME r.pc # "idle" PROVE Begun(g, m, r) /\ Waiting(g, r) /\ Went(g, rows, r)
  BY DEF JobOK
<1>1. Begun(h, m, r) /\ Waiting(h, r) /\ Went(h, rows, r)
  BY DEF JobOK
<1>2. r.to \in 1..Len(h) /\ r.to \in 1..Len(g) /\ g[r.to] = h[r.to]
  BY <1>1 DEF Begun, Extends
<1>3. m # 0 => g[m] = h[m]
  BY DEF Extends
<1>4. \A p, n, t : Has(h, r.to, p, n, t) <=> Has(g, r.to, p, n, t)
  BY <1>2, HasGoesOn
<1>5. Begun(g, m, r)
  BY <1>1, <1>2, <1>3 DEF Begun
<1>6. Waiting(g, r)
  BY <1>1, <1>4 DEF Waiting
<1>7. Went(g, rows, r)
  BY <1>1, <1>4 DEF Went, Seen, Ready, Exact
<1> QED
  BY <1>5, <1>6, <1>7

LEMMA PushStep ==
  ASSUME Habits = {}, IndexInv, NEW tree,
         SoundTree(tree, history[1].ignored), Push(tree)
  PROVE  IndexInv'
<1>1. PICK S : history \in Seq(S)
  BY DEF IndexInv, Branch
<1>2. /\ history' = Append(history, tree) /\ UNCHANGED <<chunk, meta, job>>
      /\ GoesOn(tree)
  BY DEF Push
<1>3. /\ history' \in Seq(S \cup {tree}) /\ Len(history') = Len(history) + 1
      /\ Len(history) \in Nat /\ history'[Len(history) + 1] = tree
      /\ \A c \in 1..Len(history) : history'[c] = history[c]
  BY <1>1, <1>2, Longer
<1>4. Extends(history, history')
  BY <1>3 DEF Extends
<1>5. Len(history) \in 1..Len(history) /\ history'[1] = history[1]
  BY <1>3 DEF IndexInv, Branch
<1>6. Straight(history')
  <2>1. \A p \in Path : ~Same(history[Len(history)], tree, p) =>
            \A c \in 1..Len(history) : ~Same(history[c], tree, p)
    BY <1>2 DEF GoesOn, Tip
  <2> QED
    BY <1>3, <2>1, PushStraight DEF IndexInv
<1>7. \A c \in 1..Len(history') : SoundTree(history'[c], history'[1].ignored)
  <2> SUFFICES ASSUME NEW c \in 1..Len(history')
               PROVE  SoundTree(history'[c], history[1].ignored)
    BY <1>5
  <2>1. CASE c = Len(history) + 1
    BY <2>1, <1>3
  <2>2. CASE c \in 1..Len(history)
    BY <2>2, <1>3 DEF IndexInv, Branch
  <2> QED
    BY <2>1, <2>2, <1>3
<1>8. Branch(history')
  BY <1>3, <1>6, <1>7 DEF Branch
<1>9. meta \in 0..Len(history) /\ Lags(history, meta, chunk)
  BY DEF IndexInv, Tip
<1>10. Lags(history', meta, chunk) /\ meta \in 0..Len(history')
  BY <1>3, <1>4, <1>9, LagsGoesOn
<1>11. \A i \in Process : JobOK(history', meta, chunk, job[i])
  BY <1>4, <1>9, JobGoesOn DEF IndexInv
<1> QED
  BY <1>2, <1>8, <1>10, <1>11 DEF IndexInv, Tip

\* The contents that developers give to a file.
LEMMA FreshMade ==
  ASSUME NEW p, NEW F \in SUBSET Name, Tip \in Nat
  PROVE  WellMade(Fresh(p, F), p)
BY DEF WellMade, Fresh, OfSlot

LEMMA EditMade ==
  ASSUME Habits = {}, IndexInv, NEW p \in Path, NEW content \in Edits(p)
  PROVE  WellMade(content, p)
<1> DEFINE files == history[Tip].file
           old == IF p \in DOMAIN files THEN files[p] ELSE <<>>
<1>1. PICK F \in SUBSET Name, K \in SUBSET Name : content = Over(Fresh(p, F), Within(old, K))
  BY DEF Edits
<1> DEFINE new == Fresh(p, F)
           kept == Within(old, K)
<1>2. Tip \in Nat /\ Tip \in 1..Tip
  BY DEF IndexInv, Branch, Tip
<1>3. SoundTree(history[Tip], history[1].ignored)
  BY <1>2 DEF IndexInv, Branch, Tip
<1>4. WellMade(old, p)
  <2>1. CASE p \in DOMAIN files
    BY <2>1, <1>3 DEF SoundTree
  <2>2. CASE p \notin DOMAIN files
    BY <2>2 DEF WellMade
  <2> QED
    BY <2>1, <2>2
<1> HIDE DEF old
<1>5. WellMade(new, p)
  BY <1>2, FreshMade
<1>6. /\ DOMAIN kept = DOMAIN old \cap K
      /\ \A n \in DOMAIN old \cap K : kept[n] = old[n]
  BY WithinOf
<1>7. content = Over(new, kept)
  BY <1>1
<1> HIDE DEF new, kept
<1>8. /\ DOMAIN content = DOMAIN new \cup DOMAIN kept
      /\ \A n \in DOMAIN new : content[n] = new[n]
      /\ \A n \in DOMAIN kept : n \notin DOMAIN new => content[n] = kept[n]
  BY <1>7 DEF Over
<1> QED
  BY <1>4, <1>5, <1>6, <1>8 DEF WellMade

\* Files that are put beside others, or left when one goes.
FilesMade(files) ==
  DOMAIN files \subseteq Path /\ \A p \in DOMAIN files : WellMade(files[p], p)

LEMMA PutMade ==
  ASSUME NEW files, FilesMade(files), NEW p \in Path, NEW content, WellMade(content, p)
  PROVE  FilesMade(Over(Just(p, content), files))
<1>1. PICK one : one = Just(p, content)
  OBVIOUS
<1>2. DOMAIN one = {p} /\ one[p] = content
  BY <1>1, JustOf
<1>3. PICK all : all = Over(one, files)
  OBVIOUS
<1>4. /\ DOMAIN all = {p} \cup DOMAIN files /\ all[p] = content
      /\ \A q \in DOMAIN files : q # p => all[q] = files[q]
  BY <1>2, <1>3 DEF Over
<1>5. FilesMade(all)
  BY <1>4 DEF FilesMade
<1> QED
  BY <1>1, <1>3, <1>5

LEMMA LeftMade ==
  ASSUME NEW files, FilesMade(files), NEW S
  PROVE  FilesMade(Without(files, S))
<1>1. PICK left : left = Without(files, S)
  OBVIOUS
<1>2. /\ DOMAIN left = DOMAIN files \ S
      /\ \A q \in DOMAIN files \ S : left[q] = files[q]
  BY <1>1, WithoutOf
<1>3. FilesMade(left)
  BY <1>2 DEF FilesMade
<1> QED
  BY <1>1, <1>3

LEMMA PushMade ==
  ASSUME Habits = {}, IndexInv, NEW tree, NEW files, NEW ignored,
         tree = [file |-> files, ignored |-> ignored], ignored = history[1].ignored,
         FilesMade(files), Push(tree)
  PROVE  IndexInv'
<1>1. DOMAIN tree = {"file", "ignored"} /\ tree.file = files /\ tree.ignored = ignored
  OBVIOUS
<1>2. DOMAIN tree.file \ tree.ignored # {}
  BY DEF Push
<1>3. SoundTree(tree, history[1].ignored)
  BY <1>1, <1>2 DEF SoundTree, FilesMade
<1> QED
  BY <1>3, PushStep

LEMMA TipMade ==
  ASSUME IndexInv
  PROVE  /\ Tip \in 1..Tip /\ Tip \in Nat
         /\ DOMAIN history[Tip] = {"file", "ignored"}
         /\ history[Tip].ignored = history[1].ignored
         /\ FilesMade(history[Tip].file)
<1>1. Tip \in 1..Tip /\ Tip \in Nat
  BY DEF IndexInv, Branch, Tip
<1>2. SoundTree(history[Tip], history[1].ignored)
  BY <1>1 DEF IndexInv, Branch, Tip
<1> QED
  BY <1>1, <1>2 DEF SoundTree, FilesMade

\* A commit that has other files and the same policy.
LEMMA OtherFiles ==
  ASSUME NEW t, DOMAIN t = {"file", "ignored"}, NEW files
  PROVE  [t EXCEPT !.file = files] = [file |-> files, ignored |-> t.ignored]
OBVIOUS

LEMMA EditStep ==
  ASSUME Habits = {}, IndexInv, NEW p \in Path, EditFile(p)
  PROVE  IndexInv'
<1>1. PICK content \in Edits(p), paths \in Policies :
        Push([file |-> Over(Just(p, content), history[Tip].file), ignored |-> paths])
  BY DEF EditFile
<1>2. paths = history[1].ignored
  BY TipMade DEF Policies
<1>3. FilesMade(Over(Just(p, content), history[Tip].file))
  BY TipMade, EditMade, PutMade
<1> QED
  BY <1>1, <1>2, <1>3, PushMade

LEMMA RemoveStep ==
  ASSUME Habits = {}, IndexInv, NEW p \in Path, RemoveFile(p)
  PROVE  IndexInv'
<1>1. Push([history[Tip] EXCEPT !.file = Without(history[Tip].file, {p})])
  BY DEF RemoveFile
<1>2. Push([file |-> Without(history[Tip].file, {p}), ignored |-> history[Tip].ignored])
  BY <1>1, TipMade, OtherFiles
<1>3. FilesMade(Without(history[Tip].file, {p}))
  BY TipMade, LeftMade
<1> QED
  BY <1>2, <1>3, TipMade, PushMade

LEMMA ReplaceStep ==
  ASSUME Habits = {}, IndexInv, NEW p \in Path, NEW q \in Path,
         ReplaceFile(p, q)
  PROVE  IndexInv'
<1>1. PICK F \in SUBSET Name :
        Push([history[Tip] EXCEPT
                !.file = Over(Just(q, Fresh(q, F)), Without(history[Tip].file, {p}))])
  BY DEF ReplaceFile
<1>2. PICK left : left = Without(history[Tip].file, {p})
  OBVIOUS
<1>3. PICK files : files = Over(Just(q, Fresh(q, F)), left)
  OBVIOUS
<1>4. FilesMade(files)
  BY <1>2, <1>3, TipMade, LeftMade, FreshMade, PutMade
<1>5. Push([history[Tip] EXCEPT !.file = files])
  BY <1>1, <1>2, <1>3
<1>6. Push([file |-> files, ignored |-> history[Tip].ignored])
  BY <1>5, TipMade, OtherFiles
<1> QED
  BY <1>4, <1>6, TipMade, PushMade

-----------------------------------------------------------------------------
(* Steps of a job                                                          *)

LEMMA Turn ==
  ASSUME OneIndexer, IndexInv, NEW i \in Process, DOMAIN job' = DOMAIN job,
         UNCHANGED history, meta' \in 0..Len(history),
         RowsOK(chunk'), Lags(history, meta', chunk'), JobOK(history, meta', chunk', job'[i])
  PROVE  IndexInv'
BY DEF IndexInv, OneIndexer, Tip

LEMMA Resting == DOMAIN Idle = JobFields /\ Idle.pc = "idle"
BY DEF Idle, JobFields

LEMMA RestStep ==
  ASSUME OneIndexer, IndexInv, NEW i \in Process, Fail(i)
  PROVE  IndexInv'
<1>1. /\ UNCHANGED <<history, chunk, meta>> /\ job' = [job EXCEPT ![i] = Idle]
      /\ DOMAIN job = Process
  BY DEF Fail, IndexInv
<1>2. job'[i] = Idle /\ DOMAIN job' = DOMAIN job
  BY <1>1
<1>3. JobOK(history, meta, chunk, job'[i])
  BY <1>2, Resting DEF JobOK
<1> QED
  BY <1>1, <1>2, <1>3, Turn DEF IndexInv, Tip

LEMMA BeginStep ==
  ASSUME OneIndexer, IndexInv, NEW i \in Process, NEW full \in BOOLEAN, NEW to \in 1..Tip,
         NEW listed \in SUBSET Path, Begin(i, full, to, listed), meta <= to,
         UNCHANGED <<history, chunk, meta>>,
         full => listed = DOMAIN history[to].file \ history[to].ignored,
         ~full => meta # 0 /\ \A p \in Path : p \in listed \/ Same(history[meta], history[to], p)
  PROVE  IndexInv'
<1> DEFINE files == listed \cap DOMAIN history[to].file
           r == [Idle EXCEPT !.pc = "remove", !.full = full, !.to = to,
                             !.files = files, !.todo = files, !.gone = listed \ files,
                             !.ignored = history[to].ignored]
<1>1. job' = [job EXCEPT ![i] = r] /\ DOMAIN job = Process
  BY DEF Begin, IndexInv
<1>2. /\ DOMAIN r = JobFields /\ r.pc = "remove" /\ r.full = full /\ r.to = to
      /\ r.files = files /\ r.todo = files /\ r.gone = listed \ files
      /\ r.ignored = history[to].ignored /\ DOMAIN r.batch = {}
  BY DEF Idle, JobFields
<1> HIDE DEF r
<1>3. job'[i] = r /\ DOMAIN job' = DOMAIN job
  BY <1>1
<1>4. Begun(history, meta, r)
  <2>1. r.full => r.files = DOMAIN history[r.to].file \ r.ignored /\ r.gone = {}
    BY <1>2
  <2>2. r.gone \cap DOMAIN history[r.to].file = {} /\ r.gone \subseteq Path
    BY <1>2
  <2>3. ~r.full => \A p \in Path : p \in r.files \/ p \in r.gone
                                  \/ Same(history[meta], history[r.to], p)
    BY <1>2
  <2> QED
    BY <1>2, <2>1, <2>2, <2>3 DEF Begun, Tip
<1>5. Waiting(history, r)
  BY <1>2 DEF Waiting
<1>6. Went(history, chunk, r)
  BY <1>2 DEF Went
<1>7. JobOK(history, meta, chunk, r)
  BY <1>2, <1>4, <1>5, <1>6 DEF JobOK
<1> QED
  BY <1>3, <1>7, Turn DEF IndexInv, Tip

\* A comparison lists every file that differs: no chunk is found elsewhere, so
\* no file is taken for renamed.
LEMMA AllListed ==
  ASSUME WholeComparisons, IndexInv, NEW from \in 1..Tip, NEW to \in 1..Tip, from < to,
         NEW listed \in Listings(from, to)
  PROVE  /\ listed \subseteq Path
         /\ \A p \in Path : p \in listed \/ Same(history[from], history[to], p)
<1>1. SoundTree(history[from], history[1].ignored) /\ SoundTree(history[to], history[1].ignored)
  BY DEF IndexInv, Branch, Tip
<1>2. ASSUME NEW p \in Renamed(from, to) PROVE FALSE
  <2> DEFINE was == history[from].file
             is  == history[to].file
  <2>1. PICK q \in DOMAIN is \ DOMAIN was : Range(was[p]) \cap Range(is[q]) # {}
    BY <1>2 DEF Renamed
  <2>2. p \in DOMAIN was /\ p \notin DOMAIN is
    BY <1>2 DEF Renamed
  <2>3. WellMade(was[p], p) /\ WellMade(is[q], q)
    BY <1>1, <2>1, <2>2 DEF SoundTree
  <2>4. PICK n \in DOMAIN was[p], k \in DOMAIN is[q] : was[p][n] = is[q][k]
    BY <2>1 DEF Range
  <2>5. OfSlot(was[p][n], p, n) /\ OfSlot(was[p][n], q, k)
    BY <2>3, <2>4 DEF WellMade
  <2> QED
    BY <2>1, <2>2, <2>5, OneSlot
<1>3. Changed(from, to) = {p \in Path : ~Same(history[from], history[to], p)}
  BY DEF Changed, Tip
<1>4. listed = Changed(from, to)
  <2> DEFINE all == Changed(from, to) \ Renamed(from, to)
  <2>1. all = Changed(from, to)
    BY <1>2
  <2>2. all \in SUBSET Path
    BY <1>3, <2>1
  <2>3. Cardinality(all) <= MaxFiles
    BY <2>2 DEF WholeComparisons
  <2>4. listed \in {all}
    BY <2>3 DEF Listings
  <2> QED
    BY <2>1, <2>4
<1> QED
  BY <1>3, <1>4

LEMMA PreparationStep ==
  ASSUME OneIndexer, WholeComparisons, Habits = {}, IndexInv, NEW i \in Process, Prepare(i)
  PROVE  IndexInv'
<1>1. PICK listed \in Listings(meta, Tip) : Begin(i, FALSE, Tip, listed)
  BY DEF Prepare, Bases
<1>2. meta # 0 /\ Tip \in 1..Tip /\ meta \in 0..Tip /\ Tip \in Nat
  BY TipMade DEF Prepare, IndexInv
<1>3. meta # Tip
  BY DEF Prepare, Bases
<1>4. meta \in 1..Tip /\ meta < Tip
  BY <1>2, <1>3
<1>5. /\ listed \in SUBSET Path
      /\ \A p \in Path : p \in listed \/ Same(history[meta], history[Tip], p)
  BY <1>1, <1>2, <1>4, AllListed
<1>6. UNCHANGED <<history, chunk, meta>>
  BY DEF Prepare
<1>7. PICK full \in BOOLEAN : full = FALSE
  OBVIOUS
<1>8. PICK to \in 1..Tip : to = Tip
  BY <1>2
<1>9. Begin(i, full, to, listed)
  BY <1>1, <1>7, <1>8
<1>12. meta <= to
  BY <1>4, <1>8
<1>10. ~full => meta # 0 /\ \A p \in Path : p \in listed \/ Same(history[meta], history[to], p)
  BY <1>2, <1>5, <1>8
<1>11. full => listed = DOMAIN history[to].file \ history[to].ignored
  BY <1>7
<1> QED
  BY <1>5, <1>6, <1>9, <1>10, <1>11, <1>12, BeginStep

LEMMA IndexStep ==
  ASSUME OneIndexer, Habits = {}, IndexInv, NEW i \in Process, Index(i)
  PROVE  IndexInv'
<1> DEFINE all == DOMAIN history[Tip].file \ history[Tip].ignored
<1>1. Begin(i, TRUE, Tip, all)
  BY DEF Index, Bases
<1>2. Tip \in 1..Tip /\ meta <= Tip
  BY TipMade DEF IndexInv
<1>3. all \in SUBSET Path
  BY TipMade DEF FilesMade
<1>4. UNCHANGED <<history, chunk, meta>>
  BY DEF Index
<1>5. PICK full \in BOOLEAN : full = TRUE
  OBVIOUS
<1>6. PICK to \in 1..Tip : to = Tip
  BY <1>2
<1>7. PICK listed \in SUBSET Path : listed = all
  BY <1>3
<1>8. Begin(i, full, to, listed) /\ meta <= to
  BY <1>1, <1>2, <1>5, <1>6, <1>7
<1>9. /\ full => listed = DOMAIN history[to].file \ history[to].ignored
      /\ ~full => meta # 0 /\ \A p \in Path : p \in listed \/ Same(history[meta], history[to], p)
  BY <1>5, <1>6, <1>7
<1> QED
  BY <1>4, <1>8, <1>9, BeginStep

\* Rows that go were of no chunk of a commit that the index is to reach.
LEMMA Fewer ==
  ASSUME NEW h, NEW m \in Nat, NEW rows, NEW less, NEW c \in m..Len(h),
         RowsOK(rows), Lags(h, m, rows),
         DOMAIN less \subseteq DOMAIN rows, \A s \in DOMAIN less : less[s] = rows[s],
         \A p \in Path, n \in Name :
            <<p, n>> \in DOMAIN rows /\ <<p, n>> \notin DOMAIN less => \A t : ~Has(h, c, p, n, t)
  PROVE  RowsOK(less) /\ Lags(h, m, less)
<1>1. RowsOK(less)
  BY DEF RowsOK
<1>2. ASSUME m # 0, NEW p \in Path, NEW n \in Name PROVE Current(h, m, less, p, n)
  <2>1. Current(h, m, rows, p, n)
    BY <1>2 DEF Lags
  <2>2. ASSUME NEW t, \A d \in m..Len(h) : Has(h, d, p, n, t) PROVE <<p, n>> \in DOMAIN less
    <3>1. <<p, n>> \in DOMAIN rows /\ Has(h, c, p, n, t)
      BY <2>1, <2>2 DEF Current
    <3> QED
      BY <3>1
  <2>3. <<p, n>> \in DOMAIN less =>
          \E d \in m..Len(h) : Has(h, d, p, n, less[<<p, n>>])
    BY <2>1 DEF Current
  <2> QED
    BY <2>2, <2>3 DEF Current
<1> QED
  BY <1>1, <1>2 DEF Lags

\* What is known of a process that is not idle.
LEMMA Busy ==
  ASSUME IndexInv, NEW i \in Process, job[i].pc # "idle"
  PROVE  /\ DOMAIN job[i] = JobFields
         /\ Begun(history, meta, job[i]) /\ Waiting(history, job[i])
         /\ Went(history, chunk, job[i])
         /\ meta \in Nat /\ Tip \in Nat /\ meta \in 0..Len(history)
         /\ job[i].to \in meta..Len(history) /\ job[i].to \in 1..Len(history)
<1>1. /\ DOMAIN job[i] = JobFields
      /\ Begun(history, meta, job[i]) /\ Waiting(history, job[i])
      /\ Went(history, chunk, job[i])
  BY DEF IndexInv, JobOK
<1> QED
  BY <1>1 DEF IndexInv, Begun, Tip

LEMMA DeleteRemovedStep ==
  ASSUME OneIndexer, IndexInv, NEW i \in Process, DeleteRemoved(i)
  PROVE  IndexInv'
<1> DEFINE p == job[i]
<1>1. PICK r : r = [p EXCEPT !.pc = "hashes"]
  OBVIOUS
<1>2. /\ p.pc = "remove" /\ chunk' = Without(chunk, p.gone \X Name)
      /\ job' = [job EXCEPT ![i].pc = "hashes"] /\ UNCHANGED <<history, meta>>
  BY DEF DeleteRemoved, Goto
<1>3. /\ DOMAIN p = JobFields /\ Begun(history, meta, p) /\ Waiting(history, p)
      /\ Went(history, chunk, p) /\ meta \in Nat /\ meta \in 0..Len(history)
      /\ p.to \in meta..Len(history)
  BY <1>2, Busy
<1>4. DOMAIN job' = DOMAIN job /\ job'[i] = r
  BY <1>1, <1>2 DEF IndexInv
<1> HIDE DEF p
<1>5. /\ DOMAIN r = JobFields /\ r.pc = "hashes" /\ r.full = p.full /\ r.to = p.to
      /\ r.files = p.files /\ r.gone = p.gone /\ r.ignored = p.ignored
      /\ r.todo = p.todo /\ r.batch = p.batch
  BY <1>1, <1>3 DEF JobFields
<1>6. /\ DOMAIN chunk' = DOMAIN chunk \ (p.gone \X Name)
      /\ \A s \in DOMAIN chunk' : chunk'[s] = chunk[s]
  BY <1>2 DEF Without, Restrict
<1>7. \A q \in Path, n \in Name :
        <<q, n>> \in DOMAIN chunk /\ <<q, n>> \notin DOMAIN chunk' =>
          \A t : ~Has(history, p.to, q, n, t)
  BY <1>3, <1>6 DEF Begun, Has
<1>8. RowsOK(chunk') /\ Lags(history, meta, chunk')
  BY <1>3, <1>6, <1>7, Fewer DEF IndexInv
<1>9. Begun(history, meta, r)
  BY <1>3, <1>5 DEF Begun
<1>10. Waiting(history, r)
  BY <1>3, <1>5 DEF Waiting
<1>11. Went(history, chunk', r)
  <2>1. Rowless(chunk', r.gone)
    BY <1>5, <1>6 DEF Rowless
  <2> QED
    BY <1>2, <1>3, <1>5, <2>1 DEF Went
<1>12. JobOK(history, meta, chunk', r)
  BY <1>5, <1>9, <1>10, <1>11 DEF JobOK
<1> QED
  BY <1>2, <1>3, <1>4, <1>8, <1>12, Turn

LEMMA ReadHashesStep ==
  ASSUME OneIndexer, IndexInv, NEW i \in Process, ReadHashes(i)
  PROVE  IndexInv'
<1> DEFINE p == job[i]
<1>1. PICK r : r = [p EXCEPT !.pc = "files", !.seen = Range(chunk)]
  OBVIOUS
<1>2. /\ p.pc = "hashes" /\ UNCHANGED <<history, chunk, meta>>
      /\ job' = [job EXCEPT ![i].pc = "files", ![i].seen = Range(chunk)]
  BY DEF ReadHashes
<1>3. /\ DOMAIN p = JobFields /\ Begun(history, meta, p) /\ Waiting(history, p)
      /\ Went(history, chunk, p) /\ meta \in 0..Len(history) /\ p.to \in 1..Len(history)
  BY <1>2, Busy
<1>4. DOMAIN job' = DOMAIN job /\ job'[i] = r
  BY <1>1, <1>2 DEF IndexInv
<1> HIDE DEF p
<1>5. /\ DOMAIN r = JobFields /\ r.pc = "files" /\ r.full = p.full /\ r.to = p.to
      /\ r.files = p.files /\ r.gone = p.gone /\ r.ignored = p.ignored
      /\ r.todo = p.todo /\ r.batch = p.batch /\ r.seen = Range(chunk)
  BY <1>1, <1>3 DEF JobFields
<1>6. Begun(history, meta, r)
  BY <1>3, <1>5 DEF Begun
<1>7. Waiting(history, r)
  BY <1>3, <1>5 DEF Waiting
<1>8. ASSUME NEW q \in r.todo, NEW n \in Name, NEW t, Has(history, r.to, q, n, t), t \in r.seen
      PROVE  Row(chunk, q, n, t)
  <2>1. OfSlot(t, q, n) /\ q \in Path
    BY <1>3, <1>5, <1>8, HasOfSlot DEF IndexInv
  <2>2. PICK s \in DOMAIN chunk : chunk[s] = t
    BY <1>5, <1>8 DEF Range
  <2>3. PICK u \in Path, k \in Name : s = <<u, k>>
    BY <2>2 DEF IndexInv, RowsOK, Slot
  <2>4. OfSlot(t, u, k)
    BY <2>2, <2>3 DEF IndexInv, RowsOK
  <2>5. u = q /\ k = n
    BY <2>1, <2>4, OneSlot
  <2> QED
    BY <2>2, <2>3, <2>5 DEF Row
<1>9. Went(history, chunk, r)
  <2>1. Rowless(chunk, r.gone)
    BY <1>2, <1>3, <1>5 DEF Went
  <2>2. r.files \ r.todo = {}
    BY <1>2, <1>3, <1>5 DEF Went
  <2> QED
    BY <1>5, <1>8, <2>1, <2>2 DEF Went, Seen
<1>10. JobOK(history, meta, chunk, r)
  BY <1>5, <1>6, <1>7, <1>9 DEF JobOK
<1> QED
  BY <1>2, <1>3, <1>4, <1>10, Turn DEF IndexInv

\* A file that the policy ignores loses its rows; it is one that no commit has
\* for the index.
LEMMA IgnoredFile ==
  ASSUME OneIndexer, Habits = {}, IndexInv, NEW i \in Process, NEW x \in Path, SyncFile(i, x),
         x \in job[i].ignored
  PROVE  IndexInv'
<1> DEFINE p == job[i]
<1>1. PICK r : r = [p EXCEPT !.todo = p.todo \ {x}]
  OBVIOUS
<1>2. /\ p.pc = "files" /\ x \in p.todo /\ x \in p.ignored
      /\ chunk' = Without(chunk, {x} \X Name) /\ UNCHANGED <<history, meta>>
      /\ job' = [job EXCEPT ![i].todo = @ \ {x}]
  BY DEF SyncFile
<1>3. /\ DOMAIN p = JobFields /\ Begun(history, meta, p) /\ Waiting(history, p)
      /\ Went(history, chunk, p) /\ meta \in Nat /\ meta \in 0..Len(history)
      /\ p.to \in meta..Len(history)
  BY <1>2, Busy
<1>4. DOMAIN job' = DOMAIN job /\ job'[i] = r
  BY <1>1, <1>2 DEF IndexInv
<1> HIDE DEF p
<1>5. /\ DOMAIN r = JobFields /\ r.pc = "files" /\ r.full = p.full /\ r.to = p.to
      /\ r.files = p.files /\ r.gone = p.gone /\ r.ignored = p.ignored
      /\ r.todo = p.todo \ {x} /\ r.batch = p.batch /\ r.seen = p.seen
  BY <1>1, <1>2, <1>3 DEF JobFields
<1>6. /\ DOMAIN chunk' = DOMAIN chunk \ ({x} \X Name)
      /\ \A s \in DOMAIN chunk' : chunk'[s] = chunk[s]
  BY <1>2 DEF Without, Restrict
<1>7. \A n, t : ~Has(history, p.to, x, n, t)
  BY <1>2, <1>3 DEF Begun, Has
<1>8. RowsOK(chunk') /\ Lags(history, meta, chunk')
  <2>1. \A q \in Path, n \in Name :
        <<q, n>> \in DOMAIN chunk /\ <<q, n>> \notin DOMAIN chunk' =>
          \A t : ~Has(history, p.to, q, n, t)
    BY <1>6, <1>7
  <2> QED
    BY <1>3, <1>6, <2>1, Fewer DEF IndexInv
<1>9. Begun(history, meta, r) /\ Waiting(history, r)
  BY <1>3, <1>5 DEF Begun, Waiting
<1>10. \A q \in Path, n \in Name : q # x =>
         /\ <<q, n>> \in DOMAIN chunk' <=> <<q, n>> \in DOMAIN chunk
         /\ <<q, n>> \in DOMAIN chunk' => chunk'[<<q, n>>] = chunk[<<q, n>>]
  BY <1>6
<1>11. p.files \subseteq Path
  BY <1>3, Busy DEF IndexInv, Branch, SoundTree, Begun
<1>12. ASSUME NEW q \in r.todo PROVE Seen(history, r.to, chunk', r.seen, q)
  <2>1. q # x /\ q \in Path /\ Seen(history, p.to, chunk, p.seen, q)
    BY <1>2, <1>3, <1>5, <1>11, <1>12 DEF Went, Begun
  <2> QED
    BY <1>5, <1>10, <2>1 DEF Seen, Row
<1>13. ASSUME NEW q \in r.files \ r.todo PROVE Ready(history, r.to, chunk', r.batch, q)
  <2>1. CASE q = x
    <3>1. \A n \in Name : <<q, n>> \notin DOMAIN chunk'
      BY <1>6, <2>1
    <3> QED
      BY <1>5, <1>7, <2>1, <3>1 DEF Ready
  <2>2. CASE q # x
    <3>1. q \in Path /\ Ready(history, p.to, chunk, p.batch, q)
      BY <1>2, <1>3, <1>5, <1>11, <1>13, <2>2 DEF Went
    <3> QED
      BY <1>5, <1>10, <2>2, <3>1 DEF Ready, Row
  <2> QED
    BY <2>1, <2>2
<1>14. Went(history, chunk', r)
  <2>1. Rowless(chunk', r.gone)
    BY <1>2, <1>3, <1>5, <1>6 DEF Went, Rowless
  <2> QED
    BY <1>5, <1>12, <1>13, <2>1 DEF Went
<1>15. JobOK(history, meta, chunk', r)
  BY <1>5, <1>9, <1>14 DEF JobOK
<1> QED
  BY <1>2, <1>3, <1>4, <1>8, <1>15, Turn

\* Of a file that is kept, the rows of symbols it no longer has go, and its new
\* texts wait for the embedder: those that were seen have their rows.
LEMMA KeptFile ==
  ASSUME OneIndexer, Habits = {}, IndexInv, NEW i \in Process, NEW x \in Path, SyncFile(i, x),
         x \notin job[i].ignored
  PROVE  IndexInv'
<1> DEFINE p == job[i]
           content == history[At(i)].file[x]
<1>1. /\ p.pc = "files" /\ x \in p.todo /\ At(i) = p.to /\ UNCHANGED <<history, meta>>
  BY DEF SyncFile, At
<1>2. /\ DOMAIN p = JobFields /\ Begun(history, meta, p) /\ Waiting(history, p)
      /\ Went(history, chunk, p) /\ meta \in Nat /\ meta \in 0..Len(history)
      /\ p.to \in meta..Len(history) /\ p.to \in 1..Len(history)
  BY <1>1, Busy
<1>3. x \in DOMAIN history[p.to].file /\ x \in p.files /\ x \notin history[p.to].ignored
  BY <1>1, <1>2 DEF Begun
<1>4. PICK R \in NewRows(content, p.seen) :
        /\ chunk' = Without(chunk, {x} \X (Name \ DOMAIN content))
        /\ job' = [job EXCEPT
             ![i].todo  = @ \ {x},
             ![i].seen  = @ \cup Range(content),
             ![i].batch = Over(@, [s \in {x} \X R |-> content[s[2]]])]
  <2>1. ~(x \in job[i].ignored \/ x \notin DOMAIN history[At(i)].file)
    BY <1>1, <1>3
  <2> QED
    BY <2>1 DEF SyncFile
<1>5. content = history[p.to].file[x]
  BY <1>1
<1> HIDE DEF content
<1>6. PICK more : more = [s \in {x} \X R |-> content[s[2]]]
  OBVIOUS
<1>7. PICK r : r = [p EXCEPT !.todo = p.todo \ {x}, !.seen = p.seen \cup Range(content),
                             !.batch = Over(p.batch, more)]
  OBVIOUS
<1>8. DOMAIN job' = DOMAIN job /\ job'[i] = r
  BY <1>4, <1>6, <1>7 DEF IndexInv
<1>9. WellMade(content, x)
  BY <1>2, <1>3, <1>5 DEF IndexInv, Branch, SoundTree
<1>10. /\ R \subseteq DOMAIN content
      /\ {content[n] : n \in R} = Range(content) \ p.seen
  BY DEF NewRows
<1>11. \A n, t : Has(history, p.to, x, n, t) <=> n \in DOMAIN content /\ content[n] = t
  BY <1>3, <1>5 DEF Has
<1> HIDE DEF p
<1>12. /\ DOMAIN r = JobFields /\ r.pc = "files" /\ r.full = p.full /\ r.to = p.to
       /\ r.files = p.files /\ r.gone = p.gone /\ r.ignored = p.ignored
       /\ r.todo = p.todo \ {x} /\ r.batch = Over(p.batch, more)
       /\ r.seen = p.seen \cup Range(content)
  BY <1>1, <1>2, <1>7 DEF JobFields
<1>13. /\ DOMAIN chunk' = DOMAIN chunk \ ({x} \X (Name \ DOMAIN content))
       /\ \A s \in DOMAIN chunk' : chunk'[s] = chunk[s]
  BY <1>4 DEF Without, Restrict
<1>14. RowsOK(chunk') /\ Lags(history, meta, chunk')
  <2>1. \A q \in Path, n \in Name :
        <<q, n>> \in DOMAIN chunk /\ <<q, n>> \notin DOMAIN chunk' =>
          \A t : ~Has(history, p.to, q, n, t)
    BY <1>11, <1>13
  <2> QED
    BY <1>2, <1>13, <2>1, Fewer DEF IndexInv
<1>15. /\ DOMAIN more = {x} \X R
       /\ \A n \in R : more[<<x, n>>] = content[n]
  BY <1>6
<1>16. /\ DOMAIN r.batch = DOMAIN p.batch \cup DOMAIN more
       /\ \A s \in DOMAIN p.batch : r.batch[s] = p.batch[s]
       /\ \A s \in DOMAIN more : s \notin DOMAIN p.batch => r.batch[s] = more[s]
  BY <1>12 DEF Over
<1>17. Begun(history, meta, r)
  BY <1>2, <1>12 DEF Begun
<1>18. Waiting(history, r)
  <2>1. DOMAIN r.batch \subseteq Slot
    <3>1. DOMAIN more \subseteq Slot
      BY <1>9, <1>10, <1>15 DEF WellMade, Slot
    <3> QED
      BY <1>2, <1>16, <3>1 DEF Waiting
  <2>2. ASSUME NEW q \in Path, NEW n \in Name, <<q, n>> \in DOMAIN r.batch
        PROVE  q \in r.files /\ Has(history, r.to, q, n, r.batch[<<q, n>>])
    <3>1. CASE <<q, n>> \in DOMAIN p.batch
      BY <1>2, <1>12, <1>16, <3>1 DEF Waiting
    <3>2. CASE <<q, n>> \notin DOMAIN p.batch
      <4>1. q = x /\ n \in R /\ r.batch[<<q, n>>] = content[n]
        BY <1>15, <1>16, <2>2, <3>2
      <4> QED
        BY <1>3, <1>10, <1>11, <1>12, <4>1
    <3> QED
      BY <3>1, <3>2
  <2> QED
    BY <2>1, <2>2 DEF Waiting
<1>19. \A q \in Path, n \in Name : (q # x \/ n \in DOMAIN content) =>
         /\ <<q, n>> \in DOMAIN chunk' <=> <<q, n>> \in DOMAIN chunk
         /\ <<q, n>> \in DOMAIN chunk' => chunk'[<<q, n>>] = chunk[<<q, n>>]
  BY <1>13
<1>20. p.files \subseteq Path
  BY <1>2 DEF IndexInv, Branch, SoundTree, Begun
<1>21. ASSUME NEW q \in r.todo PROVE Seen(history, r.to, chunk', r.seen, q)
  <2>1. q # x /\ q \in Path /\ Seen(history, p.to, chunk, p.seen, q)
    BY <1>1, <1>2, <1>12, <1>20, <1>21 DEF Went, Begun
  <2>2. ASSUME NEW n \in Name, NEW t, Has(history, p.to, q, n, t), t \in Range(content)
        PROVE  FALSE
    <3>1. OfSlot(t, q, n)
      BY <1>2, <2>2, HasOfSlot DEF IndexInv
    <3>2. PICK k \in DOMAIN content : content[k] = t
      BY <2>2 DEF Range
    <3> QED
      BY <1>9, <2>1, <3>1, <3>2, OneSlot DEF WellMade
  <2> QED
    BY <1>12, <1>19, <2>1, <2>2 DEF Seen, Row
<1>22. Ready(history, p.to, chunk', r.batch, x)
  <2>1. ASSUME NEW n \in Name, <<x, n>> \in DOMAIN chunk'
        PROVE  \E t : Has(history, p.to, x, n, t)
    <3>1. n \in DOMAIN content
      BY <1>13, <2>1
    <3> QED
      BY <1>11, <3>1
  <2>2. ASSUME NEW n \in Name, NEW t, Has(history, p.to, x, n, t)
        PROVE  <<x, n>> \in DOMAIN r.batch \/ Row(chunk', x, n, t)
    <3>1. n \in DOMAIN content /\ content[n] = t
      BY <1>11, <2>2
    <3>2. CASE t \in p.seen
      <4>1. Row(chunk, x, n, t)
        BY <1>1, <1>2, <2>2, <3>2 DEF Went, Seen
      <4> QED
        BY <1>19, <3>1, <4>1 DEF Row
    <3>3. CASE t \notin p.seen
      <4>1. PICK k \in R : content[k] = t
        BY <1>10, <3>1, <3>3 DEF Range
      <4>2. k = n
        BY <1>9, <1>10, <3>1, <4>1, OneSlot DEF WellMade
      <4> QED
        BY <1>15, <1>16, <4>1, <4>2
    <3> QED
      BY <3>2, <3>3
  <2> QED
    BY <2>1, <2>2 DEF Ready
<1>23. ASSUME NEW q \in r.files \ r.todo, q # x PROVE Ready(history, r.to, chunk', r.batch, q)
  <2>1. q \in Path /\ Ready(history, p.to, chunk, p.batch, q)
    BY <1>1, <1>2, <1>12, <1>20, <1>23 DEF Went
  <2> QED
    BY <1>12, <1>16, <1>19, <1>23, <2>1 DEF Ready, Row
<1>24. Went(history, chunk', r)
  <2>1. Rowless(chunk', r.gone)
    BY <1>1, <1>2, <1>12, <1>13 DEF Went, Rowless
  <2> QED
    BY <1>12, <1>21, <1>22, <1>23, <2>1 DEF Went
<1>25. JobOK(history, meta, chunk', r)
  BY <1>12, <1>17, <1>18, <1>24 DEF JobOK
<1> QED
  BY <1>1, <1>2, <1>8, <1>14, <1>25, Turn

LEMMA UpsertStep ==
  ASSUME OneIndexer, IndexInv, NEW i \in Process, Upsert(i)
  PROVE  IndexInv'
<1> DEFINE p == job[i]
<1>1. PICK pc : pc = IF p.full THEN "sweep" ELSE "meta"
  OBVIOUS
<1>2. PICK r : r = [p EXCEPT !.pc = pc]
  OBVIOUS
<1>3. /\ p.pc = "files" /\ p.todo = {} /\ chunk' = Over(p.batch, chunk)
      /\ job' = [job EXCEPT ![i].pc = pc] /\ UNCHANGED <<history, meta>>
  BY <1>1 DEF Upsert, Goto
<1>4. /\ DOMAIN p = JobFields /\ Begun(history, meta, p) /\ Waiting(history, p)
      /\ Went(history, chunk, p) /\ meta \in Nat /\ meta \in 0..Len(history)
      /\ p.to \in meta..Len(history) /\ p.to \in 1..Len(history)
  BY <1>3, Busy
<1>5. DOMAIN job' = DOMAIN job /\ job'[i] = r
  BY <1>2, <1>3 DEF IndexInv
<1>6. pc \in {"sweep", "meta"} /\ (pc = "sweep" <=> p.full)
  BY <1>1
<1> HIDE DEF p
<1>7. /\ DOMAIN r = JobFields /\ r.pc = pc /\ r.full = p.full /\ r.to = p.to
      /\ r.files = p.files /\ r.gone = p.gone /\ r.ignored = p.ignored
      /\ r.todo = {} /\ r.batch = p.batch
  BY <1>2, <1>3, <1>4 DEF JobFields
<1>8. /\ DOMAIN chunk' = DOMAIN p.batch \cup DOMAIN chunk
      /\ \A s \in DOMAIN p.batch : chunk'[s] = p.batch[s]
      /\ \A s \in DOMAIN chunk : s \notin DOMAIN p.batch => chunk'[s] = chunk[s]
  BY <1>3 DEF Over
<1>9. \A q \in Path, n \in Name : <<q, n>> \in DOMAIN p.batch =>
        q \in p.files /\ Has(history, p.to, q, n, chunk'[<<q, n>>])
  BY <1>4, <1>8 DEF Waiting
<1>10. RowsOK(chunk')
  <2>1. DOMAIN chunk' \subseteq Slot
    BY <1>4, <1>8 DEF Waiting, IndexInv, RowsOK
  <2>2. ASSUME NEW q \in Path, NEW n \in Name, <<q, n>> \in DOMAIN chunk'
        PROVE  OfSlot(chunk'[<<q, n>>], q, n)
    <3>1. CASE <<q, n>> \in DOMAIN p.batch
      BY <1>4, <1>9, <3>1, HasOfSlot DEF IndexInv
    <3>2. CASE <<q, n>> \notin DOMAIN p.batch
      BY <1>8, <2>2, <3>2 DEF IndexInv, RowsOK
    <3> QED
      BY <3>1, <3>2
  <2> QED
    BY <2>1, <2>2 DEF RowsOK
<1>11. ASSUME meta # 0, NEW q \in Path, NEW n \in Name
       PROVE  Current(history, meta, chunk', q, n)
  <2>1. Current(history, meta, chunk, q, n)
    BY <1>11 DEF IndexInv, Lags
  <2>2. CASE <<q, n>> \in DOMAIN p.batch
    <3>1. \E c \in meta..Len(history) : Has(history, c, q, n, chunk'[<<q, n>>])
      BY <1>4, <1>9, <2>2
    <3> QED
      BY <1>8, <2>2, <3>1 DEF Current
  <2>3. CASE <<q, n>> \notin DOMAIN p.batch
    BY <1>8, <2>1, <2>3 DEF Current
  <2> QED
    BY <2>2, <2>3
<1>12. Lags(history, meta, chunk')
  BY <1>11 DEF Lags
<1>13. Begun(history, meta, r) /\ Waiting(history, r)
  BY <1>4, <1>7 DEF Begun, Waiting
<1>14. p.files \subseteq Path
  BY <1>4 DEF IndexInv, Branch, SoundTree, Begun
<1>15. ASSUME NEW q \in p.files PROVE Exact(history, p.to, chunk', q)
  <2>1. q \in Path /\ Ready(history, p.to, chunk, p.batch, q)
    BY <1>3, <1>4, <1>14, <1>15 DEF Went
  <2>2. ASSUME NEW n \in Name, <<q, n>> \in DOMAIN chunk', <<q, n>> \notin DOMAIN p.batch
        PROVE  Has(history, p.to, q, n, chunk'[<<q, n>>])
    <3>1. <<q, n>> \in DOMAIN chunk /\ chunk'[<<q, n>>] = chunk[<<q, n>>]
      BY <1>8, <2>2
    <3>2. PICK t : Has(history, p.to, q, n, t)
      BY <2>1, <3>1 DEF Ready
    <3>3. Row(chunk, q, n, t)
      BY <2>1, <2>2, <3>2 DEF Ready
    <3> QED
      BY <3>1, <3>2, <3>3 DEF Row
  <2>3. ASSUME NEW n \in Name, NEW t, Has(history, p.to, q, n, t)
        PROVE  <<q, n>> \in DOMAIN chunk'
    BY <1>8, <2>1, <2>3 DEF Ready, Row
  <2> QED
    BY <1>9, <2>1, <2>2, <2>3 DEF Exact
<1>16. Rowless(chunk', p.gone)
  <2> SUFFICES ASSUME NEW q \in p.gone, NEW n \in Name PROVE <<q, n>> \notin DOMAIN chunk'
    BY DEF Rowless
  <2>1. q \in Path /\ q \notin p.files /\ <<q, n>> \notin DOMAIN chunk
    BY <1>3, <1>4 DEF Begun, Went, Rowless
  <2> QED
    BY <1>8, <1>9, <2>1
<1>17. Went(history, chunk', r)
  BY <1>6, <1>7, <1>15, <1>16 DEF Went
<1>18. JobOK(history, meta, chunk', r)
  BY <1>7, <1>13, <1>17 DEF JobOK
<1> QED
  BY <1>3, <1>4, <1>5, <1>10, <1>12, <1>18, Turn

LEMMA SweepStep ==
  ASSUME OneIndexer, IndexInv, NEW i \in Process, Sweep(i)
  PROVE  IndexInv'
<1> DEFINE p == job[i]
<1>1. PICK r : r = [p EXCEPT !.pc = "meta"]
  OBVIOUS
<1>2. /\ p.pc = "sweep" /\ job' = [job EXCEPT ![i].pc = "meta"] /\ UNCHANGED <<history, meta>>
      /\ chunk' = IF p.files = {} THEN chunk ELSE Within(chunk, p.files \X Name)
  BY DEF Sweep, Goto
<1>3. /\ DOMAIN p = JobFields /\ Begun(history, meta, p) /\ Waiting(history, p)
      /\ Went(history, chunk, p) /\ meta \in Nat /\ meta \in 0..Len(history)
      /\ p.to \in meta..Len(history) /\ p.to \in 1..Len(history)
  BY <1>2, Busy
<1>4. DOMAIN job' = DOMAIN job /\ job'[i] = r
  BY <1>1, <1>2 DEF IndexInv
<1> HIDE DEF p
<1>5. /\ DOMAIN r = JobFields /\ r.pc = "meta" /\ r.full = p.full /\ r.to = p.to
      /\ r.files = p.files /\ r.gone = p.gone /\ r.ignored = p.ignored
      /\ r.todo = p.todo /\ r.batch = p.batch
  BY <1>1, <1>3 DEF JobFields
<1>6. p.full /\ p.files = DOMAIN history[p.to].file \ p.ignored /\ p.gone = {}
  BY <1>2, <1>3 DEF Went, Begun
<1>7. p.files # {} /\ p.files \subseteq Path
  BY <1>3, <1>6 DEF IndexInv, Branch, SoundTree, Begun
<1>8. /\ DOMAIN chunk' = DOMAIN chunk \cap (p.files \X Name)
      /\ \A s \in DOMAIN chunk' : chunk'[s] = chunk[s]
  BY <1>2, <1>7 DEF Within, Restrict
<1>9. \A q \in Path, n \in Name :
        <<q, n>> \in DOMAIN chunk /\ <<q, n>> \notin DOMAIN chunk' =>
          \A t : ~Has(history, p.to, q, n, t)
  BY <1>3, <1>6, <1>8 DEF Begun, Has
<1>10. RowsOK(chunk') /\ Lags(history, meta, chunk')
  BY <1>3, <1>8, <1>9, Fewer DEF IndexInv
<1>11. Begun(history, meta, r) /\ Waiting(history, r)
  BY <1>3, <1>5 DEF Begun, Waiting
<1>12. ASSUME NEW q \in p.files PROVE Exact(history, p.to, chunk', q)
  <2>1. Exact(history, p.to, chunk, q)
    BY <1>2, <1>3, <1>12 DEF Went
  <2>2. \A n \in Name : <<q, n>> \in DOMAIN chunk' <=> <<q, n>> \in DOMAIN chunk
    BY <1>8, <1>12
  <2> QED
    BY <1>8, <2>1, <2>2 DEF Exact
<1>13. Went(history, chunk', r)
  <2>1. Rowless(chunk', Path \ r.files) /\ Rowless(chunk', r.gone)
    BY <1>5, <1>6, <1>8 DEF Rowless
  <2> QED
    BY <1>5, <1>12, <2>1 DEF Went
<1>14. JobOK(history, meta, chunk', r)
  BY <1>5, <1>11, <1>13 DEF JobOK
<1> QED
  BY <1>2, <1>3, <1>4, <1>10, <1>14, Turn

\* A job that ends has brought every file to its commit, or found it alike.
LEMMA Arrived ==
  ASSUME IndexInv, NEW i \in Process, job[i].pc = "meta"
  PROVE  Lags(history, job[i].to, chunk)
<1> DEFINE p == job[i]
<1>1. /\ DOMAIN p = JobFields /\ Begun(history, meta, p) /\ Waiting(history, p)
      /\ Went(history, chunk, p) /\ meta \in Nat /\ meta \in 0..Len(history)
      /\ p.to \in meta..Len(history) /\ p.to \in 1..Len(history)
  BY Busy
<1>2. p.pc = "meta" /\ Len(history) \in Nat
  BY Busy DEF Tip
<1> HIDE DEF p
<1>3. SUFFICES ASSUME NEW x \in Path, NEW n \in Name
               PROVE  Current(history, p.to, chunk, x, n)
  BY DEF Lags, p
<1>4. p.to \in p.to..Len(history)
  BY <1>1, <1>2
<1>5. CASE x \in p.files
  <2>1. Exact(history, p.to, chunk, x)
    BY <1>1, <1>2, <1>5 DEF Went
  <2> QED
    BY <1>4, <2>1 DEF Exact, Current
<1>6. CASE x \notin p.files /\ (p.full \/ x \in p.gone)
  <2>1. <<x, n>> \notin DOMAIN chunk
    BY <1>1, <1>2, <1>6 DEF Went, Rowless
  <2>2. \A t : ~Has(history, p.to, x, n, t)
    BY <1>1, <1>6 DEF Begun, Has
  <2> QED
    BY <1>4, <2>1, <2>2 DEF Current
<1>7. CASE x \notin p.files /\ ~p.full /\ x \notin p.gone
  <2>1. /\ meta \in 1..Len(history) /\ Same(history[meta], history[p.to], x)
        /\ Branch(history)
    BY <1>1, <1>7 DEF Begun, IndexInv
  <2>2. Current(history, meta, chunk, x, n)
    BY <2>1 DEF IndexInv, Lags
  <2>3. ASSUME NEW c \in meta..Len(history), c <= p.to, NEW t
        PROVE  Has(history, c, x, n, t) <=> Has(history, p.to, x, n, t)
    <3>1. c \in 1..Len(history) /\ meta <= c
      BY <2>1
    <3>2. Same(history[meta], history[c], x)
      BY <1>1, <2>1, <2>3, <3>1 DEF Branch, Straight
    <3>3. Same(history[c], history[p.to], x)
      BY <2>1, <3>2, SameBack, SameTwice
    <3> QED
      BY <1>1, <2>1, <3>1, <3>3, HasAlike
  <2>4. ASSUME <<x, n>> \in DOMAIN chunk
        PROVE  \E c \in p.to..Len(history) : Has(history, c, x, n, chunk[<<x, n>>])
    <3>1. PICK c \in meta..Len(history) : Has(history, c, x, n, chunk[<<x, n>>])
      BY <2>2, <2>4 DEF Current
    <3>2. CASE c <= p.to
      BY <1>4, <2>3, <3>1, <3>2
    <3>3. CASE c > p.to
      <4>1. c \in p.to..Len(history)
        BY <1>1, <3>3
      <4> QED
        BY <3>1, <4>1
    <3> QED
      BY <1>1, <3>2, <3>3
  <2>5. ASSUME NEW t, \A c \in p.to..Len(history) : Has(history, c, x, n, t)
        PROVE  <<x, n>> \in DOMAIN chunk
    <3>1. ASSUME NEW c \in meta..Len(history) PROVE Has(history, c, x, n, t)
      <4>1. CASE c <= p.to
        BY <1>4, <2>3, <2>5, <4>1
      <4>2. CASE c > p.to
        <5>1. c \in p.to..Len(history)
          BY <1>1, <4>2
        <5> QED
          BY <2>5, <5>1
      <4> QED
        BY <1>1, <4>1, <4>2
    <3> QED
      BY <2>2, <3>1 DEF Current
  <2> QED
    BY <2>4, <2>5 DEF Current
<1> QED
  BY <1>5, <1>6, <1>7

LEMMA SetMetaStep ==
  ASSUME OneIndexer, Habits = {}, IndexInv, NEW i \in Process, SetMeta(i)
  PROVE  IndexInv'
<1>1. /\ job[i].pc = "meta" /\ meta' = job[i].to /\ job' = [job EXCEPT ![i] = Idle]
      /\ UNCHANGED <<history, chunk>>
  BY DEF SetMeta, At
<1>2. meta' \in 0..Len(history) /\ Lags(history, meta', chunk)
  BY <1>1, Arrived, Busy
<1>3. job'[i] = Idle /\ DOMAIN job' = DOMAIN job
  BY <1>1 DEF IndexInv
<1>4. JobOK(history, meta', chunk, job'[i])
  BY <1>3, Resting DEF JobOK
<1> QED
  BY <1>1, <1>2, <1>3, <1>4, Turn DEF IndexInv

LEMMA SyncFileStep ==
  ASSUME OneIndexer, Habits = {}, IndexInv, NEW i \in Process, NEW x \in Path, SyncFile(i, x)
  PROVE  IndexInv'
BY IgnoredFile, KeptFile

-----------------------------------------------------------------------------
(* The theorem                                                             *)

LEMMA IndexStart ==
  ASSUME Init
  PROVE  IndexInv
<1>1. PICK paths \in SUBSET Path, ignored \in SUBSET Path :
        /\ paths \ ignored # {}
        /\ history = << [file    |-> [p \in paths |-> [n \in Name |-> <<1, p, n>>]],
                         ignored |-> ignored] >>
  BY DEF Init
<1> DEFINE tree == [file    |-> [p \in paths |-> [n \in Name |-> <<1, p, n>>]],
                    ignored |-> ignored]
<1>2. SoundTree(tree, ignored)
  BY <1>1 DEF SoundTree, WellMade, OfSlot
<1>3. tree.ignored = ignored
  OBVIOUS
<1>4. history = <<tree>>
  BY <1>1
<1> HIDE DEF tree
<1>5. history \in Seq({tree}) /\ Len(history) = 1 /\ history[1] = tree
  BY <1>4
<1>6. Straight(history)
  <2>1. \A a, b \in 1..Len(history) : a = b
    BY <1>5
  <2>2. \A p \in Path, a \in 1..Len(history) : Same(history[a], history[a], p)
    BY DEF Same
  <2> QED
    BY <2>1, <2>2 DEF Straight
<1>7. Branch(history)
  BY <1>2, <1>3, <1>5, <1>6 DEF Branch
<1>8. chunk = <<>> /\ meta = 0 /\ job = [i \in Process |-> Idle]
  BY DEF Init
<1>9. RowsOK(chunk) /\ Lags(history, meta, chunk)
  BY <1>8 DEF RowsOK, Lags
<1>10. meta \in 0..Tip
  BY <1>5, <1>8 DEF Tip
<1>11. \A i \in Process : JobOK(history, meta, chunk, job[i])
  BY <1>8, Resting DEF JobOK
<1> QED
  BY <1>7, <1>8, <1>9, <1>10, <1>11 DEF IndexInv

LEMMA IndexStepKeeps ==
  ASSUME OneIndexer, WholeComparisons, Habits = {}, IndexInv, [Next]_vars
  PROVE  IndexInv'
<1>1. CASE UNCHANGED vars
  BY <1>1 DEF vars, IndexInv, Tip
<1>2. CASE Develop
  BY <1>2, EditStep, RemoveStep, ReplaceStep DEF Develop
<1>3. ASSUME NEW i \in Process, Step(i) PROVE IndexInv'
  BY <1>3, DeleteRemovedStep, ReadHashesStep, UpsertStep, SweepStep, SetMetaStep, SyncFileStep
     DEF Step
<1>4. ASSUME NEW i \in Process, Prepare(i) \/ Index(i) \/ Fail(i) PROVE IndexInv'
  BY <1>4, PreparationStep, IndexStep, RestStep
<1> QED
  BY <1>1, <1>2, <1>3, <1>4 DEF Next

\* What the index should hold of a commit, row by row.
LEMMA ChunkOf ==
  ASSUME NEW c, NEW p \in Path, NEW n \in Name
  PROVE  \A t : Has(history, c, p, n, t) <=>
                  <<p, n>> \in DOMAIN ChunksAt(c) /\ ChunksAt(c)[<<p, n>>] = t
<1> DEFINE tree == history[c]
           kept == DOMAIN tree.file \ tree.ignored
           S == {s \in Slot : s[1] \in kept /\ s[2] \in DOMAIN tree.file[s[1]]}
<1>1. ChunksAt(c) = [s \in S |-> tree.file[s[1]][s[2]]]
  BY DEF ChunksAt
<1>2. <<p, n>> \in S <=> p \in kept /\ n \in DOMAIN tree.file[p]
  BY DEF Slot
<1>3. <<p, n>> \in S => ChunksAt(c)[<<p, n>>] = tree.file[p][n]
  BY <1>1
<1>4. DOMAIN ChunksAt(c) = S
  BY <1>1
<1> QED
  BY <1>2, <1>3, <1>4 DEF Has

\* While index_meta names a commit, every row of the base index is of that
\* commit or a later one, and no chunk that stayed as it was lacks its row,
\* whatever update_base was doing when it failed or was killed, and whatever
\* was pushed meanwhile (update_base, ReviewService.prepare, cli.index).
THEOREM DriftBounded ==
  OneIndexer /\ WholeComparisons /\ Habits = {}
  => (Spec => []DriftIsBounded)
<1> SUFFICES ASSUME OneIndexer, WholeComparisons, Habits = {}
             PROVE  Spec => []DriftIsBounded
  OBVIOUS
<1>1. Init => IndexInv
  BY IndexStart
<1>2. IndexInv /\ [Next]_vars => IndexInv'
  BY IndexStepKeeps
<1>3. IndexInv => DriftIsBounded
  <2> SUFFICES ASSUME IndexInv, meta # 0, NEW s \in Slot
               PROVE  LET Holds(c, t) == s \in DOMAIN ChunksAt(c) /\ ChunksAt(c)[s] = t
                      IN  /\ s \in DOMAIN chunk => \E c \in meta..Tip : Holds(c, chunk[s])
                          /\ s \in DOMAIN ChunksAt(meta) =>
                               \/ s \in DOMAIN chunk
                               \/ \E c \in meta..Tip : ~Holds(c, ChunksAt(meta)[s])
    BY DEF DriftIsBounded
  <2>1. PICK p \in Path, n \in Name : s = <<p, n>>
    BY DEF Slot
  <2>2. Current(history, meta, chunk, p, n)
    BY DEF IndexInv, Lags
  <2>3. s \in DOMAIN chunk =>
          \E c \in meta..Tip : s \in DOMAIN ChunksAt(c) /\ ChunksAt(c)[s] = chunk[s]
    BY <2>1, <2>2, ChunkOf DEF Current, Tip
  <2>4. s \in DOMAIN ChunksAt(meta) =>
          \/ s \in DOMAIN chunk
          \/ \E c \in meta..Tip :
               ~(s \in DOMAIN ChunksAt(c) /\ ChunksAt(c)[s] = ChunksAt(meta)[s])
    BY <2>1, <2>2, ChunkOf DEF Current, Tip
  <2> QED
    BY <2>3, <2>4
<1> QED
  BY <1>1, <1>2, <1>3, PTL DEF Spec
=============================================================================
