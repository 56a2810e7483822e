----------------------------- MODULE MCReviews -----------------------------
(* A review: its session and its overlay, its findings and their           *)
(* publication, or what its tools show; and what is asked beside it: a     *)
(* search, the context of a task, a bug report.  The file of the findings  *)
(* has six lines, of which the diff shows the first three; a finding may   *)
(* quote what the lines 4 and 6 are and line 2 contains.                   *)
EXTENDS ReviewSessions, ReviewPublish, ReviewTools, Retrieval, BugReports, TaskContext,
        SequencesExt, TLC

CONSTANTS a, b, x

\* one client with one pull request, and a second process for a gc
OneReview == a :> {x} @@ b :> {}

F(line, msg, rank) ==
  [line |-> line, msg |-> msg, rank |-> rank, quote |-> FALSE, fix |-> NoFix]
Q(line, msg, rank) == [F(line, msg, rank) EXCEPT !.quote = TRUE]
Fixed(f, from, to) == [f EXCEPT !.fix = <<from, to>>]

\* one thing said twice, the second time with more weight; a second remark
\* on the diff
Overlapping == {F(1, "m", 1), F(3, "m", 2), F(1, "n", 1)}

\* two remarks of which one is off the diff, and one that the policy drops
Off == {F(1, "m", 1), F(6, "n", 1), F(4, "n", 0)}

\* two remarks on the diff
Apart == {F(1, "m", 1), F(3, "n", 2)}

\* the same remark from between two places that are what it quotes, from the
\* diff, and without a line
Quoting == {Q(5, "m", 1), Q(1, "m", 2), Q(0, "n", 1)}

\* Remarks with fixes: for a quotation off the diff, for a remark without a line
\* and for one on the diff, of which the second overlaps both others; the first
\* is said again without the fix, and near it with one that leaves the diff.
Suggesting == {Fixed(Q(6, "m", 2), 1, 2), Fixed(F(0, "n", 2), 2, 3),
               Fixed(F(1, "n", 2), 3, 3), F(6, "m", 2), Fixed(F(4, "m", 1), 3, 4)}

GitHub == [vcs |-> "github", pool |-> Overlapping, candidates |-> 2, count |-> 1,
           sessions |-> 2, trouble |-> {"list_error", "busy_but_done", "timeout"}]
OffGitHub == [GitHub EXCEPT !.pool = Off,
                            !.trouble = @ \cup {"refused", "no_history"}]
GitLab == [vcs |-> "gitlab", pool |-> Apart, candidates |-> 2, count |-> 2,
           sessions |-> 2, trouble |-> {"crash", "refused", "busy", "timeout"}]
\* every discussion is accepted: what is published is there on GitLab, too
OpenGitLab == [GitLab EXCEPT !.pool = Off, !.trouble = {"crash", "timeout"}]
QuietGitHub == [vcs |-> "github", pool |-> Apart, candidates |-> 2, count |-> 2,
                sessions |-> 2, trouble |-> {}]

QuotingGitHub == [QuietGitHub EXCEPT !.pool = Quoting, !.candidates = 3]
SuggestingGitHub == [QuietGitHub EXCEPT !.pool = Suggesting, !.candidates = 3,
                                        !.sessions = 1]

Deployments == {GitHub, OffGitHub, GitLab, OpenGitLab, QuotingGitHub, SuggestingGitHub}
OneDeployment == {QuietGitHub}

-----------------------------------------------------------------------------
(* The tools: file 1 with two symbols, of which the review adds one and    *)
(* then removes the other, and changes file 2 in its second head; a text   *)
(* of 20 and more has another signature than one below.                    *)
SymbolFiles == 1 :> 1 @@ 2 :> 1 @@ 3 :> 2 @@ 4 :> 3
CallGraph == {<<4, 1>>, <<1, 3>>, <<3, 4>>}
BaseBefore == 1 :> 10 @@ 2 :> 0 @@ 3 :> 10 @@ 4 :> 10
BaseAfter == 1 :> 11 @@ 2 :> 0 @@ 3 :> 21 @@ 4 :> 11
TwoHeads == <<[changed |-> {1}, text |-> 1 :> 20 @@ 2 :> 21 @@ 3 :> 10 @@ 4 :> 10],
              [changed |-> {1, 2}, text |-> 1 :> 0 @@ 2 :> 22 @@ 3 :> 22 @@ 4 :> 10]>>
TextSignature == [t \in 0..30 |-> t \div 10]

(* The search: a class 1 with its method 2, another chunk 3 of the same    *)
(* file, files g and h, and a test.                                        *)
ChunkPath == 1 :> "f" @@ 2 :> "f" @@ 3 :> "f" @@ 4 :> "g" @@ 5 :> "h" @@ 6 :> "t"
ChunkLines == 1 :> <<1, 9>> @@ 2 :> <<2, 4>> @@ 3 :> <<12, 15>>
              @@ 4 :> <<1, 5>> @@ 5 :> <<1, 5>> @@ 6 :> <<1, 5>>
ListsOf(S, n) == {s \in SeqOf(S, n) : \A i, j \in DOMAIN s : i # j => s[i] # s[j]}
ChunkGraphs == {{}, {{2, 4}, {1, 5}}, {{1, 2}, {3, 4}, {4, 5}, {4, 6}}}
Scores == {[c \in 1..6 |-> 5], [c \in 1..6 |-> c], [c \in 1..6 |-> 9 - c]}
BaseQueries ==
  [kind : {"base"}, hits : ListsOf({1, 2, 3, 4, 6}, 3), far : {{}, {4}}, graph : ChunkGraphs,
   reranker : {"fails"}, score : {<<>>}, floor : {1}, ceiling : {1, 2},
   override : {0, 3}, tests : {FALSE}]
  \cup
  [kind : {"base"}, hits : ListsOf({1, 2, 4, 6}, 3), far : {{}}, graph : ChunkGraphs,
   reranker : {"works"}, score : Scores, floor : {1, 2}, ceiling : {1, 3},
   override : {0}, tests : BOOLEAN]
SourceOf(paths, quota) == [paths |-> paths, quota |-> quota, works |-> TRUE]
TwoQueries == {<<[hits |-> h, works |-> TRUE], [hits |-> g, works |-> TRUE]>> :
                 h \in ListsOf(1..4, 2), g \in ListsOf({1, 3, 4}, 1)}
MultiQueries ==
  [kind : {"multi"}, queries : TwoQueries,
   far : {{}}, graph : ChunkGraphs, embedder : {"works"}, ceiling : {2},
   maxFiles : {1, 2}, perFile : {1}, tests : {FALSE},
   sources : {<<>>, <<SourceOf(<<"z", "t", "h", "g">>, 1)>>,
              <<SourceOf(<<"g">>, 1), SourceOf(<<"g", "f", "h">>, 2)>>,
              <<SourceOf(<<"g", "f">>, 1), SourceOf(<<"f", "h">>, 1)>>}]
  \cup
  [kind : {"multi"}, queries : [1..2 -> [hits : ListsOf({1, 4}, 1), works : BOOLEAN]],
   far : {{4}}, graph : {{}}, embedder : {"works", "batch_fails", "down"}, ceiling : {2},
   maxFiles : {2}, perFile : {1}, tests : {TRUE},
   sources : {<<[SourceOf(<<"h">>, 1) EXCEPT !.works = FALSE]>>}]
  \cup
  [kind : {"multi"}, queries : [1..1 -> [hits : ListsOf({1, 4}, 1), works : {TRUE}]],
   far : {{}}, graph : {{}}, embedder : {"works"}, ceiling : {2},
   maxFiles : {3}, perFile : {1}, tests : {TRUE},
   sources : {<<SourceOf(<<"g", "t">>, 1), SourceOf(<<"g", "h", "t">>, 1)>>}]

\* one issue that was written by hand
HandWritten == <<"v">>

-----------------------------------------------------------------------------
Topics == {"session", "publication", "tools", "search", "bug", "context"}

VARIABLE about                               \* one of Topics

(* The parts that a behaviour is not about stay as they began.             *)
ReviewsInit ==
  /\ about \in Topics
  /\ Init /\ PublishInit /\ ToolsInit /\ SearchInit /\ BugInit /\ ContextInit
  /\ about # "publication" => setting = CHOOSE s \in Settings : TRUE
  /\ about # "context" =>
       out = {} /\ asking = [warm |-> TRUE, board |-> TRUE, stored |-> TRUE, next |-> 1]

ReviewsNext ==
  \/ about = "session" /\ Next
     /\ UNCHANGED <<about, publishing, desk, searching, channel, context>>
  \/ about = "publication" /\ PublishNext
     /\ UNCHANGED <<about, vars, desk, searching, channel, context>>
  \/ about = "tools" /\ ToolsNext
     /\ UNCHANGED <<about, vars, publishing, searching, channel, context>>
  \/ about = "search" /\ SearchNext
     /\ UNCHANGED <<about, vars, publishing, desk, channel, context>>
  \/ about = "bug" /\ BugNext
     /\ UNCHANGED <<about, vars, publishing, desk, searching, context>>
  \/ about = "context" /\ ContextNext
     /\ UNCHANGED <<about, vars, publishing, desk, searching, channel>>

reviewing == <<about, vars, publishing, desk, searching, channel, context>>
ReviewsSpec == ReviewsInit /\ [][ReviewsNext]_reviewing
=============================================================================
