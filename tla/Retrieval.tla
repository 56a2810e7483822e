----------------------------- MODULE Retrieval -----------------------------
(***************************************************************************)
(* The search over the base index: one query with the reranker             *)
(* (reviewer/retrieval/retriever.py, cliff.py), and the several queries of *)
(* the code section of a task context, with files that similar tasks       *)
(* touched mixed in (reviewer/retrieval/multiquery.py).                    *)
(*                                                                         *)
(* A chunk is a number, in the order of the node ids; what a search is     *)
(* given from outside, the hits of the store, the neighbours in the graph, *)
(* the scores of the reranker and which of them fail, is the record        *)
(* `asked', and what it returns is `answer'.                               *)
(*                                                                         *)
(* Left out: texts, the notes under an answer, the capping of a block,     *)
(* neighbours further than one hop, scores of the reranker that tie (the   *)
(* chunk found first goes first), rounding of the reciprocal ranks.        *)
(***************************************************************************)
EXTENDS Integers, Sequences, FiniteSets, Functions

CONSTANTS
  Chunk,        \* the chunks of the base index and the symbols of the graph
  Indexed,      \* those that have a row in the index
  PathOf,       \* the file of each
  Lines,        \* its first and last line
  TestPath,     \* the files that are tests
  RrfK,         \* RRF_K
  RatioTenths,  \* ratio, in tenths
  AbsFloor,     \* abs_floor
  FetchLimit,   \* AUGMENT_FETCH_LIMIT
  BaseAsked,    \* what search_base may be asked, and what it may meet
  MultiAsked    \* the same of search_multi

ASSUME RetrievalAssumption ==
  /\ Chunk \subseteq Nat /\ IsFiniteSet(Chunk) /\ Indexed \subseteq Chunk
  /\ Lines \in [Chunk -> Nat \X Nat] /\ DOMAIN PathOf = Chunk
  /\ RrfK \in Nat /\ RatioTenths \in Nat /\ AbsFloor \in Nat /\ FetchLimit \in Nat

\* rows of the index, each once
Listing == {s \in Seq(Indexed) : \A i, j \in DOMAIN s : s[i] = s[j] => i = j}
AnyBase == [kind : {"base"}, hits : Listing, far : SUBSET Chunk, graph : SUBSET SUBSET Chunk,
            reranker : {"works", "fails", "none"}, score : [Chunk -> Nat] \cup {<<>>},
            floor : Nat, ceiling : Nat, override : Nat, tests : BOOLEAN]
Named == [paths : Seq(STRING), quota : Nat, works : BOOLEAN]
AnyMulti == [kind : {"multi"}, queries : Seq([hits : Listing, works : BOOLEAN]),
             far : SUBSET Chunk, graph : SUBSET SUBSET Chunk,
             embedder : {"works", "batch_fails", "down"}, ceiling : Nat,
             maxFiles : Nat, perFile : Nat, tests : BOOLEAN, sources : Seq(Named)]

ASSUME AskedAssumption ==
  /\ BaseAsked \subseteq AnyBase /\ MultiAsked \subseteq AnyMulti
  /\ \A q \in BaseAsked : q.reranker = "works" => q.score \in [Chunk -> Nat]

VARIABLES asked, answer
searching == <<asked, answer>>

Take(s, n) == SubSeq(s, 1, IF n < Len(s) THEN n ELSE Len(s))
\* the numbers of S, those with a lower key first, and then the lower ones
Sorted(S, key) ==
  LET before(x, y) == key[x] < key[y] \/ (key[x] = key[y] /\ x < y)
  IN  [i \in 1..Cardinality(S) |->
         CHOOSE x \in S : Cardinality({y \in S : before(y, x)}) = i - 1]
Ascending(S) == Sorted(S, [x \in S |-> 0])
Chosen(s, places) == [i \in DOMAIN places |-> s[places[i]]]
\* what of s is in E
Keep(s, E) == Chosen(s, Ascending({i \in DOMAIN s : s[i] \in E}))
PathsIn(s) == {PathOf[s[i]] : i \in DOMAIN s}

-----------------------------------------------------------------------------
(* What both searches share.                                               *)

\* c lies within d: the widest of nested chunks is enough
NestedIn(c, d) ==
  /\ PathOf[c] = PathOf[d] /\ Lines[c] # Lines[d]
  /\ Lines[d][1] <= Lines[c][1] /\ Lines[c][2] <= Lines[d][2]

DedupeStep(kept, c) ==
  IF \E k \in Range(kept) : NestedIn(c, k) THEN kept
  ELSE Append(Keep(kept, {k \in Chunk : ~NestedIn(k, c)}), c)
DedupeOverlapping(items) ==
  LET kept[i \in 0..Len(items)] == IF i = 0 THEN <<>> ELSE DedupeStep(kept[i - 1], items[i])
  IN  kept[Len(items)]

WithoutTests(items, include) == Keep(items, {c \in Chunk : include \/ PathOf[c] \notin TestPath})

\* hits that match a word, or are near enough; the rest is noise
Hits(hits, far) == Keep(hits, Chunk \ far)

\* the neighbours of the seeds that are in the index, in the order of their ids
Neighbours(graph, seeds) ==
  Ascending({n \in Indexed : \E s \in Range(seeds) : {s, n} \in graph /\ s # n})
GraphOnly(graph, hits, ceiling) ==
  Keep(Neighbours(graph, Take(hits, ceiling)), Chunk \ Range(hits))

-----------------------------------------------------------------------------
(* search_base.                                                            *)

\* without the reranker: hybrid hits first, one place for the graph
SelectDegraded(hybrid, graph, ceiling) ==
  CASE ceiling <= 0 -> <<>>
    [] ceiling > 0 /\ hybrid = <<>> -> Take(graph, ceiling)
    [] ceiling = 1 /\ hybrid # <<>> -> Take(hybrid, 1)
    [] ceiling > 1 /\ hybrid # <<>> /\ Len(hybrid) < ceiling ->
         hybrid \o Take(graph, ceiling - Len(hybrid))
    [] OTHER -> IF graph # <<>> THEN Append(Take(hybrid, ceiling - 1), graph[1])
                ELSE Take(hybrid, ceiling)

\* the reranker sorts by score
RerankScored(score, items) ==
  Chosen(items, Sorted(DOMAIN items, [i \in DOMAIN items |-> -score[items[i]]]))

\* the first `floor' chunks, and on to the first drop or the ceiling
SelectByCliff(score, scored, floor, ceiling) ==
  LET most == IF ceiling > floor THEN ceiling ELSE floor
      high(i) == /\ 10 * score[scored[i]] >= RatioTenths * score[scored[1]]
                 /\ score[scored[i]] >= AbsFloor
  IN  Take(scored, Cardinality({i \in DOMAIN scored :
                     i <= floor \/ (i <= most /\ \A j \in (floor + 1)..i : high(j))}))

\* an override of 0 is no override
Ceiling(q) == IF q.override = 0 THEN q.ceiling ELSE q.override

BaseHits(q) == Hits(q.hits, q.far)
BaseItems(q) == DedupeOverlapping(WithoutTests(
                  BaseHits(q) \o GraphOnly(q.graph, BaseHits(q), Ceiling(q)), q.tests))

SearchBase(q) ==
  LET hybrid == Keep(BaseItems(q), Range(BaseHits(q)))
      graph == Keep(BaseItems(q), Chunk \ Range(BaseHits(q)))
      items == hybrid \o graph
      degraded == SelectDegraded(hybrid, graph, Ceiling(q))
  IN  CASE Len(items) <= q.floor -> IF Len(items) > Ceiling(q) THEN degraded ELSE items
        [] Len(items) > q.floor /\ q.reranker # "works" -> degraded
        [] OTHER -> SelectByCliff(q.score, RerankScored(q.score, items), q.floor, Ceiling(q))

-----------------------------------------------------------------------------
(* search_multi.                                                           *)

\* one batch of vectors; when it fails, the first query alone
EmbedPairs(q) ==
  CASE q.embedder = "works" -> q.queries
    [] q.embedder = "batch_fails" -> Take(q.queries, 1)
    [] OTHER -> <<>>

\* a query whose search fails adds nothing
Runs(q) == LET pairs == EmbedPairs(q)
           IN  [i \in DOMAIN pairs |-> IF pairs[i].works THEN Hits(pairs[i].hits, q.far) ELSE <<>>]

\* 1 / (RRF_K + rank) of every run, over a common denominator
\* (BOUND: a query has three hits)
RrfUnit == (RrfK + 1) * (RrfK + 2) * (RrfK + 3)
Share(run, c) == IF c \notin Range(run) THEN 0
                 ELSE RrfUnit \div (RrfK + (CHOOSE rank \in DOMAIN run : run[rank] = c))
RrfScore(runs, c) ==
  LET sum[i \in 0..Len(runs)] == IF i = 0 THEN 0 ELSE sum[i - 1] + Share(runs[i], c)
  IN  sum[Len(runs)]
RrfMerge(runs) ==
  LET found == UNION {Range(runs[i]) : i \in DOMAIN runs}
  IN  Sorted(found, [c \in found |-> -RrfScore(runs, c)])

\* at most perFile chunks of a file, and at most maxFiles files
DiversifyStep(kept, c, maxFiles, perFile) ==
  LET taken == Cardinality({i \in DOMAIN kept : PathOf[kept[i]] = PathOf[c]})
  IN  IF taken >= perFile \/ (taken = 0 /\ Cardinality(PathsIn(kept)) >= maxFiles)
      THEN kept ELSE Append(kept, c)
DiversifyByFile(items, maxFiles, perFile) ==
  LET kept[i \in 0..Len(items)] ==
        IF i = 0 THEN <<>> ELSE DiversifyStep(kept[i - 1], items[i], maxFiles, perFile)
  IN  kept[Len(items)]

\* fetch_retrieved_at_paths: the widest chunk of a file
Widest(path) ==
  LET mine == {c \in Indexed : PathOf[c] = path}
      width(c) == Lines[c][2] - Lines[c][1]
  IN  CHOOSE c \in mine : \A d \in mine :
        width(c) > width(d) \/ (width(c) = width(d) /\ Lines[c][1] <= Lines[d][1])
Filed == {PathOf[c] : c \in Indexed}

\* rank_by_path, counted from 0; a path that no chunk has gets the number of
\* the known paths and one more
RankOf(items, path) ==
  IF path \notin PathsIn(items) THEN Cardinality(PathsIn(items)) + 1
  ELSE (CHOOSE i \in DOMAIN items : /\ PathOf[items[i]] = path
                                    /\ \A j \in 1..(i - 1) : PathOf[items[j]] # path) - 1

\* the paths that a source may bring in, in the order in which they are tried
Candidates(source, items, known, tests) ==
  LET paths == source.paths
      new == {i \in DOMAIN paths : /\ paths[i] \notin known
                                   /\ (tests \/ paths[i] \notin TestPath)
                                   /\ \A j \in 1..(i - 1) : paths[j] # paths[i]}
  IN  Take(Chosen(paths, Sorted(new, [i \in new |-> RankOf(items, paths[i])])), FetchLimit)

\* SEEDED FAULT: the quota is spent on paths that the index may not have
AugmentByTried(brought, source, items, known, tests) ==
  LET tried == Take(Candidates(source, items, known \cup PathsIn(brought), tests), source.quota)
      there == Keep(tried, Filed)
  IN  IF ~source.works THEN brought
      ELSE brought \o [i \in DOMAIN there |-> Widest(there[i])]

\* the quota counts the files that are brought in, not those that are tried
AugmentBy(brought, source, items, known, tests) ==
  LET tried == Candidates(source, items, known \cup PathsIn(brought), tests)
      there == Keep(tried, Filed)
      taken == Take(there, source.quota)
  IN  IF ~source.works THEN brought
      ELSE brought \o [i \in DOMAIN taken |-> Widest(taken[i])]

AugmentItems(q, items, known) ==
  LET brought[i \in 0..Len(q.sources)] ==
        IF i = 0 THEN <<>> ELSE AugmentBy(brought[i - 1], q.sources[i], items, known, q.tests)
  IN  brought[Len(q.sources)]

\* the hits of all queries, and after them what only the graph knows
MultiItems(q) == LET merged == RrfMerge(Runs(q))
                 IN  merged \o GraphOnly(q.graph, merged, q.ceiling)
HybridFinal(q) == DiversifyByFile(DedupeOverlapping(WithoutTests(MultiItems(q), q.tests)),
                                  q.maxFiles, q.perFile)

\* what is brought in has places reserved among the maxFiles
Reserving(q, hybrid, brought) == Take(hybrid, q.maxFiles - Len(brought)) \o brought
Promoting(q, items, hybrid) ==
  Reserving(q, hybrid, Take(AugmentItems(q, items, PathsIn(hybrid)), q.maxFiles))
SearchMulti(q) == Promoting(q, MultiItems(q), HybridFinal(q))

-----------------------------------------------------------------------------
NotAsked == [kind |-> "nothing"]

SearchInit == asked = NotAsked /\ answer = <<>>

SearchCodebase ==
  /\ asked = NotAsked
  /\ \E q \in BaseAsked : asked' = q /\ answer' = SearchBase(q)

SearchCodebaseMulti ==
  /\ asked = NotAsked
  /\ \E q \in MultiAsked : asked' = q /\ answer' = SearchMulti(q)

SearchNext == SearchCodebase \/ SearchCodebaseMulti

-----------------------------------------------------------------------------
Lower(m, n) == IF m < n THEN m ELSE n
MayShow(path) == asked.tests \/ path \notin TestPath
IsShown(c) == \E d \in Range(answer) : c = d \/ NestedIn(c, d)

(* A hit of search_base is left out only for a reason: a wider chunk that  *)
(* only the graph knows holds it and goes where graph chunks go, its score *)
(* is below the cliff, or the answer is full, and then the graph has at    *)
(* most the one place that is kept for it.  (A ratio above one may leave   *)
(* nothing.)  The answer is never longer than the ceiling, or the floor of *)
(* a ranked answer.                                                        *)
NothingFoundIsLost ==
  asked.kind = "base" =>
    LET hits == {c \in Range(BaseHits(asked)) : MayShow(PathOf[c])}
        graph == Range(GraphOnly(asked.graph, BaseHits(asked), Ceiling(asked)))
        ranked == asked.reranker = "works"
        low(c) == \/ asked.score[c] < AbsFloor
                  \/ \E d \in Range(answer) : 10 * asked.score[c] < RatioTenths * asked.score[d]
                  \/ RatioTenths > 10 /\ answer = <<>>
    IN  /\ Len(answer) <= (IF ranked /\ asked.floor > Ceiling(asked) THEN asked.floor ELSE Ceiling(asked))
        /\ \A c \in hits :
             \/ IsShown(c)
             \/ \E d \in graph : NestedIn(c, d)
             \/ ranked /\ (Len(answer) >= Ceiling(asked) \/ \E d \in hits : low(d) /\ (c = d \/ NestedIn(c, d)))
             \/ ~ranked /\ Len(answer) = Ceiling(asked) /\ Cardinality(Range(answer) \cap graph) <= 1

\* the quotas of the sources I, as sets that have nothing in common
Quotas(sources, I) == UNION {{i} \X (1..sources[i].quota) : i \in I}

\* plain: what the search shows without sources; found: the files it finds;
\* left: the sources that name something more
BudgetIsSpent(plain, found) ==
  LET kept == Keep(answer, Range(plain))
      new(i) == {p \in Range(asked.sources[i].paths) : MayShow(p) /\ p \in Filed} \ PathsIn(plain)
      able == {i \in DOMAIN asked.sources :
                 asked.sources[i].works /\ Len(asked.sources[i].paths) <= FetchLimit}
      left == {i \in able : ~(new(i) \subseteq PathsIn(answer))}
  IN  /\ Cardinality(PathsIn(answer)) = Len(answer)
      /\ Len(plain) = Lower(asked.maxFiles, Cardinality(found))
      /\ kept = Take(plain, Len(kept))
      /\ Len(kept) < Len(plain) => Len(answer) = asked.maxFiles
      /\ PathsIn(kept) # {} =>
           /\ \A i \in able : Cardinality(PathsIn(answer) \cap new(i)) >=
                               Lower(asked.sources[i].quota, Cardinality(new(i)))
           /\ Len(answer) - Len(kept) >= Cardinality(Quotas(asked.sources, left))

(* The code section shows every file that was found until max_files is     *)
(* reached, one chunk of each; what sources name is brought in up to their *)
(* quota although the search found it too low or not at all, no two of     *)
(* them spend a quota on one file, and only for want of space does it      *)
(* displace what the search would have shown, the last of it first.        *)
SectionSpendsItsBudget ==
  asked.kind = "multi" /\ asked.perFile = 1 =>
    BudgetIsSpent(SearchMulti([asked EXCEPT !.sources = <<>>]),
                  {p \in PathsIn(MultiItems(asked)) : MayShow(p)})

(* Neither search loses what it found but for the reasons above            *)
(* (Retriever.search_base, multiquery.search_multi).                       *)
SearchKeepsWhatItFinds == NothingFoundIsLost /\ SectionSpendsItsBudget
=============================================================================
