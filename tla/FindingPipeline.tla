-------------------------- MODULE FindingPipeline --------------------------
(***************************************************************************)
(* What becomes of the findings of a review between submission and         *)
(* publication: grounding, the policy gate, deduplication and the assembly *)
(* of inline comments and summary (reviewer/agent/dedup.py, assemble.py,   *)
(* the gate of reviewer/policy/policy.py).                                 *)
(*                                                                         *)
(* All findings are about one changed file, one category and the RIGHT     *)
(* side.  A line is a number, 0 for None; texts are the same or different  *)
(* (two texts that differ little enough to be taken for the same are the   *)
(* same here); severity and confidence are one rank.  A finding may quote  *)
(* a line of the file; there is one text that they quote, which some lines *)
(* are and others contain.  It may come with a fix, the first and the last *)
(* line that a replacement is for.  Candidates are a sequence, and a stage *)
(* of the pipeline is the set of the positions that survive it, from       *)
(* deduplication on with the fix that each has then.  Left out: centrality *)
(* (among findings of one severity it goes before confidence), formatting. *)
(***************************************************************************)
EXTENDS Integers, Sequences, FiniteSets

CONSTANTS
  Message,      \* texts of findings
  Rank,         \* severity and confidence together
  MinRank,      \* severity_threshold and min_confidence
  FileLines,    \* the number of lines of the file
  Commentable,  \* the lines of the diff
  SameLines,    \* the lines that are the quoted text, but for the blanks around
  QuoteLines,   \* the lines that contain it
  MaxDistance,  \* grounding_max_distance
  MaxLine,      \* BOUND: the largest line that a model may invent
  MaxComments,  \* max_comments
  SuggestionsMode  \* review_suggestions

ASSUME PipelineAssumption ==
  /\ Rank \subseteq Nat /\ MinRank \in Nat
  /\ FileLines \in Nat /\ MaxLine \in Nat /\ FileLines <= MaxLine
  /\ Commentable \subseteq 1..FileLines
  /\ SameLines \subseteq QuoteLines /\ QuoteLines \subseteq 1..FileLines
  /\ MaxDistance \in Nat
  /\ MaxComments \in Nat
  /\ SuggestionsMode \in {"apply", "text"}

\* fix_start and fix_end, with a replacement; one that is incomplete is none
NoFix == <<>>
Fixes == {NoFix} \cup ((0..MaxLine) \X (0..MaxLine))
Span(fix) == fix[1]..fix[2]

Finding == [line: 0..MaxLine, msg: Message, rank: Rank, quote: BOOLEAN, fix: Fixes]

-----------------------------------------------------------------------------
(* Grounding: the line that a finding is moved to.                         *)

Distance(i, j) == IF i > j THEN i - j ELSE j - i

\* of two lines as near, the one further up
Nearest(S, line) ==
  CHOOSE i \in S : \A j \in S :
    \/ Distance(i, line) < Distance(j, line)
    \/ Distance(i, line) = Distance(j, line) /\ i <= j

\* without a line there is no nearest of several
PickNearest(S, line) ==
  IF S = {} \/ (line = 0 /\ Cardinality(S) > 1) THEN 0 ELSE Nearest(S, line)

\* the quoted text is looked for as a line; only if there is none, in a line
GroundLine(f) ==
  LET picked == PickNearest(IF SameLines # {} THEN SameLines ELSE QuoteLines, f.line)
  IN  IF f.quote /\ picked # 0 THEN picked ELSE f.line

\* seeded fault: the nearest line of the diff, whatever it says
SnapBlindly(f, line) ==
  LET close == {i \in Commentable : Distance(i, line) <= MaxDistance}
  IN  IF line \in Commentable \cup {0} \/ close = {} THEN line ELSE Nearest(close, line)

\* snap_to_commentable: a line off the diff moves to the nearest one of the
\* diff, if that has the quoted text
Snap(f, line) ==
  LET close == {i \in Commentable : /\ Distance(i, line) <= MaxDistance
                                    /\ (f.quote => i \in QuoteLines)}
  IN  IF line \in Commentable \cup {0} \/ close = {} THEN line ELSE Nearest(close, line)

Located(f) == [f EXCEPT !.line = Snap(f, GroundLine(f))]

-----------------------------------------------------------------------------

\* _sane_line: a line that the file does not have is no line
SaneLine(f) == IF f.line \in 1..FileLines THEN f.line ELSE 0

\* the marker in a published comment; made after the line was made sane
Fingerprint(f) == <<SaneLine(f), f.msg>>
Fingerprints == (0..FileLines) \X Message

Gate(f) == f.rank >= MinRank

-----------------------------------------------------------------------------
(* dedup_findings on the candidates c at the positions K.                  *)

\* _better: the one that comes first, unless the other ranks higher
SameKey(c, i, j) == c[i].line = c[j].line /\ c[i].msg = c[j].msg
Beats(c, i, j) == c[i].rank > c[j].rank \/ (c[i].rank = c[j].rank /\ i < j)
Exact(c, K) == {i \in K : \A j \in K \ {i} : SameKey(c, i, j) => Beats(c, i, j)}

\* _merge: a winner without a fix takes over the loser's
Merged(own, other) == IF own # NoFix THEN own ELSE other

\* the fix that the exact duplicates of i have come to when all are read
ExactFix(c, K, i) ==
  LET fix[n \in 0..Len(c)] ==
        IF n = 0 THEN NoFix
        ELSE IF n \notin K \/ ~SameKey(c, n, i) THEN fix[n - 1]
        ELSE IF n \in Exact(c, {k \in K : k <= n}) THEN Merged(c[n].fix, fix[n - 1])
        ELSE Merged(fix[n - 1], c[n].fix)
  IN  fix[Len(c)]

\* the place in the list that the winner of an exact duplicate takes over
PlaceOf(c, K, i) == CHOOSE j \in K :
  SameKey(c, i, j) /\ \A h \in K : SameKey(c, i, h) => j <= h

\* lines in order, None last
LineOrder(c, i, j) ==
  \/ c[i].line # 0 /\ (c[j].line = 0 \/ c[i].line < c[j].line)
  \/ c[i].line = c[j].line /\ i < j

\* two lines apart or less; None is near None only
Near(c, i, j) ==
  /\ c[i].line = 0 <=> c[j].line = 0
  /\ c[i].line - c[j].line \in -2..2

\* of two that are alike, left without the loser
Without(left, winner, loser) ==
  [k \in DOMAIN left \ {loser} |->
     IF k = winner THEN Merged(left[winner], left[loser]) ELSE left[k]]

\* what is left has both, with one text on lines that are near
Alike(c, left, i, j) ==
  {i, j} \subseteq DOMAIN left /\ c[i].msg = c[j].msg /\ Near(c, i, j)

\* seeded fault: the one further up wins, whatever they rank
FuzzyStepFirstWins(c, left, i, j) ==
  IF Alike(c, left, i, j) THEN Without(left, i, j) ELSE left

\* One comparison of the double loop: i is further up than j.  What is left
\* is a function from positions to fixes.
FuzzyStep(c, left, i, j) ==
  IF ~Alike(c, left, i, j) THEN left
  ELSE IF c[i].rank >= c[j].rank THEN Without(left, i, j)
  ELSE Without(left, j, i)

\* E in the order in which the pairs R are
InOrder(E, R) ==
  [n \in 1..Cardinality(E) |->
     CHOOSE i \in E : Cardinality({j \in E : <<j, i>> \in R}) = n - 1]

\* what is left after the comparisons of the a-th with those behind it
Against(c, s, size, left, a) ==
  LET rest[b \in a..size] ==
        IF b = a THEN left ELSE FuzzyStep(c, rest[b - 1], s[a], s[b])
  IN  rest[size]

Survivors(c, first) ==
  LET E == DOMAIN first
      s == InOrder(E, {p \in E \X E : LineOrder(c, p[1], p[2])})
      size == Cardinality(E)
      left[a \in 0..size] ==
        IF a = 0 THEN first ELSE Against(c, s, size, left[a - 1], a)
  IN  left[size]

\* the positions that are left, with their fixes
Dedup(c, K) == Survivors(c, [i \in Exact(c, K) |-> ExactFix(c, K, i)])

-----------------------------------------------------------------------------
(* assemble_review on what is left, given the fingerprints on the PR.      *)

\* no two of those left have the same place: comments in order of rank
Ahead(c, K, i, j) ==
  \/ c[i].rank > c[j].rank
  \/ c[i].rank = c[j].rank /\ PlaceOf(c, K, i) < PlaceOf(c, K, j)

Fresh(c, left, existing) == {i \in DOMAIN left : Fingerprint(c[i]) \notin existing}
OnDiff(f) == SaneLine(f) \in Commentable

\* the lines of the fix are on the diff, and no other suggestion replaces them
CanApply(fix, used) ==
  /\ SuggestionsMode = "apply" /\ fix # NoFix
  /\ fix[1] <= fix[2] /\ Span(fix) \subseteq Commentable
  /\ \A u \in used : Span(fix) \cap Span(u) = {}

\* Position i has its turn.  As long as there is room, a suggestion that can be
\* applied is a comment where its fix is, and a finding on the diff where it is.
Placed(c, left, made, i) ==
  LET room == Cardinality(made.inline) < MaxComments
      apply == room /\ CanApply(left[i], {left[k] : k \in made.applied})
      comment == room /\ OnDiff(c[i])
  IN  [inline |-> made.inline \cup {k \in {i} : apply \/ comment},
       applied |-> made.applied \cup {k \in {i} : apply}]

\* the inline comments out of these positions, and which of them are suggestions
Made(c, K, left, fresh) ==
  LET s == InOrder(fresh, {p \in fresh \X fresh : Ahead(c, K, p[1], p[2])})
      made[n \in 0..Cardinality(fresh)] ==
        IF n = 0 THEN [inline |-> {}, applied |-> {}]
        ELSE Placed(c, left, made[n - 1], s[n])
  IN  made[Cardinality(fresh)]

Review(made, body) == [inline |-> made.inline, applied |-> made.applied, body |-> body]

\* seeded fault: what the cap leaves over is dropped
AssembleCutOff(c, K, left, existing) ==
  LET fresh == Fresh(c, left, existing)
      made == Made(c, K, left, fresh)
  IN  Review(made, {i \in fresh \ made.inline : ~OnDiff(c[i])})

\* seeded fault: comments of earlier runs are not looked at
AssembleAnew(c, K, left, existing) ==
  LET made == Made(c, K, left, DOMAIN left)
  IN  Review(made, DOMAIN left \ made.inline)

\* the positions of the inline comments, and those that go to the summary
Assemble(c, K, left, existing) ==
  LET fresh == Fresh(c, left, existing)
      made == Made(c, K, left, fresh)
  IN  Review(made, fresh \ made.inline)
=============================================================================
