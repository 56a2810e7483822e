--------------------------- MODULE BoardCallsProofs ---------------------------
(***************************************************************************)
(* Proofs about the calls of the board adapters: an error that asks to be  *)
(* repeated comes before the first write, the connection check promises    *)
(* nothing that the configuration refuses, and what the calls answer is    *)
(* true of the board.  For every configuration of the eleven boards, every *)
(* number of agents, cards and pull requests that call again and again,    *)
(* every sequence of failures, lost answers and changes by people.         *)
(*                                                                         *)
(* An operation is a list of steps, of which the call forgets the first    *)
(* when it is taken.  What a call promises while it goes on is therefore   *)
(* said of the steps that it has left: the set of them (Parts), and that   *)
(* after one of a kind comes none of another (NoneAfter).  The first half  *)
(* of the module shows it of the lists that the adapters make              *)
(* (FinishPlans, CreatePlans, TargetsPlans, ValidatePlans), the second one *)
(* that every step of a call keeps it.  The invariant (Inv) says of every  *)
(* call:                                                                   *)
(*   Retries    what may fail and ask to be repeated comes before a write  *)
(*   Works      a promised operation has no error of configuration left    *)
(*   Creates    what may end a creation comes before the card is there     *)
(*   Lists      a listing is complete, or said to be partial, or goes on   *)
(*   Finishing  without a warning, what is done and what is left suffices  *)
(*   OnTheBoard the card has what the call read and wrote, unless somebody *)
(*              else wrote to it since (Reaches); after the board has      *)
(*              answered it is what the answer says (Meets)                *)
(*                                                                         *)
(* The last part is about the listing of a board page by page: a complete  *)
(* listing has every task that its pages can follow, a limited one the     *)
(* freshest, for every size of the board, of the page and of the limit.    *)
(* Its invariant (ListInv) says that a task which is to be listed has been *)
(* read, or is Ahead: behind the cursor, at or after the offset among the  *)
(* cards that are there now, or in a later column (NothingMissed).         *)
(***************************************************************************)
EXTENDS BoardCalls, BoardListing, SequenceTheorems, FiniteSetTheorems,
        FunctionTheorems, TLAPS

-----------------------------------------------------------------------------
(* Lists of steps.                                                         *)

Part == {"link", "place", "closed"}
StepOp == {"look", "take", "scan", "put", "post", "warn", "halt"}
StepRecord == [op : StepOp, what : SUBSET Part, hard : BOOLEAN]

Parts(s) == {s[i] : i \in DOMAIN s}

Writes == {x \in StepRecord : x.op \in {"put", "post"}}
Posts == {x \in StepRecord : x.op = "post"}
Hard == {x \in StepRecord : x.hard}
Halts == {x \in StepRecord : x.op = "halt"}
Scans == {x \in StepRecord : x.op = "scan"}
Warns == {x \in StepRecord : x.op = "warn"}

\* steps that can fail with an error that asks to be repeated
Risky(b) == {x \in Hard : x.op = "look" \/ (x.op \in {"put", "post"} /\ b.board = "linear")}
\* steps that can end a creation
Stopping == {x \in StepRecord : x.op \in {"halt", "scan"} \/ x.hard}

\* after a step of A comes none of B
NoneAfter(s, A, B) == \A i, j \in DOMAIN s : i < j /\ s[i] \in A => s[j] \notin B

\* what the writes among steps P write, and those of them that must not fail
Puts(P) == UNION {x.what : x \in {y \in P : y.op = "put"}}
HardPuts(P) == UNION {x.what : x \in {y \in P : y.op = "put" /\ y.hard}}

\* a list of steps, its steps, and the order of A and B in it
Plan(s, P, A, B) == s \in Seq(StepRecord) /\ Parts(s) = P /\ NoneAfter(s, A, B)

LEMMA PlanIndex ==
  ASSUME NEW s \in Seq(StepRecord)
  PROVE  Len(s) \in Nat /\ DOMAIN s = 1..Len(s)
BY LenProperties

LEMMA PlanNone == ASSUME NEW A, NEW B PROVE Plan(<< >>, {}, A, B)
<1>1. << >> \in Seq(StepRecord) /\ Len(<< >>) = 0
  BY EmptySeq
<1>2. DOMAIN << >> = {}
  BY <1>1, PlanIndex
<1> HIDE <1>1
<1> QED
  BY <1>1, <1>2 DEF Plan, Parts, NoneAfter

LEMMA PlanOne == ASSUME NEW x \in StepRecord, NEW A, NEW B PROVE Plan(<<x>>, {x}, A, B)
<1>1. <<x>> \in Seq(StepRecord) /\ DOMAIN <<x>> = 1..1 /\ <<x>>[1] = x
  OBVIOUS
<1>2. \A i, j \in 1..1 : ~(i < j)
  OBVIOUS
<1>3. Parts(<<x>>) = {x}
  BY <1>1 DEF Parts
<1>4. NoneAfter(<<x>>, A, B)
  BY <1>1, <1>2 DEF NoneAfter
<1> QED
  BY <1>1, <1>3, <1>4 DEF Plan

LEMMA PlanJoin ==
  ASSUME NEW s, NEW t, NEW P, NEW Q, NEW A, NEW B,
         Plan(s, P, A, B), Plan(t, Q, A, B), P \cap A = {} \/ Q \cap B = {}
  PROVE  Plan(s \o t, P \cup Q, A, B)
<1>1. /\ s \in Seq(StepRecord) /\ Parts(s) = P /\ NoneAfter(s, A, B)
      /\ t \in Seq(StepRecord) /\ Parts(t) = Q /\ NoneAfter(t, A, B)
  BY DEF Plan
<1> DEFINE u == s \o t
<1>2. /\ Len(s) \in Nat /\ DOMAIN s = 1..Len(s) /\ Len(t) \in Nat /\ DOMAIN t = 1..Len(t)
  BY <1>1, PlanIndex
<1>3. /\ u \in Seq(StepRecord) /\ Len(u) = Len(s) + Len(t)
      /\ \A i \in 1..Len(s) + Len(t) : u[i] = IF i <= Len(s) THEN s[i] ELSE t[i - Len(s)]
  BY <1>1, ConcatProperties
<1>4. DOMAIN u = 1..Len(s) + Len(t)
  BY <1>3, PlanIndex
<1> HIDE DEF u
<1>5. /\ \A i \in DOMAIN s : i \in DOMAIN u /\ u[i] = s[i]
      /\ \A i \in DOMAIN t : i + Len(s) \in DOMAIN u /\ u[i + Len(s)] = t[i]
  BY <1>2, <1>3, <1>4
<1>6. \A i \in DOMAIN u : \/ i \in DOMAIN s /\ u[i] = s[i]
                          \/ i > Len(s) /\ i - Len(s) \in DOMAIN t /\ u[i] = t[i - Len(s)]
  BY <1>2, <1>3, <1>4
<1>7. Parts(u) = P \cup Q
  <2>1. ASSUME NEW i \in DOMAIN u PROVE u[i] \in P \cup Q
    BY <1>1, <1>6 DEF Parts
  <2>2. ASSUME NEW i \in DOMAIN s PROVE s[i] \in Parts(u)
    BY <1>5 DEF Parts
  <2>3. ASSUME NEW i \in DOMAIN t PROVE t[i] \in Parts(u)
    BY <1>5 DEF Parts
  <2> QED
    BY <1>1, <2>1, <2>2, <2>3 DEF Parts
<1>8. ASSUME NEW i \in DOMAIN u, NEW j \in DOMAIN u, i < j, u[i] \in A, u[j] \in B
      PROVE  FALSE
  <2>1. CASE j \in DOMAIN s /\ u[j] = s[j]
    <3>1. i \in DOMAIN s /\ u[i] = s[i]
      BY <1>2, <1>3, <1>4, <1>8, <2>1
    <3> QED
      BY <1>1, <1>8, <2>1, <3>1 DEF NoneAfter
  <2>2. CASE i > Len(s) /\ i - Len(s) \in DOMAIN t /\ u[i] = t[i - Len(s)]
    <3>1. j - Len(s) \in DOMAIN t /\ u[j] = t[j - Len(s)] /\ i - Len(s) < j - Len(s)
      BY <1>2, <1>3, <1>4, <1>8, <2>2
    <3> QED
      BY <1>1, <1>8, <2>2, <3>1 DEF NoneAfter
  <2>3. CASE i \in DOMAIN s /\ u[i] = s[i] /\ j > Len(s) /\ j - Len(s) \in DOMAIN t /\ u[j] = t[j - Len(s)]
    <3>1. u[i] \in P /\ u[j] \in Q
      BY <1>1, <2>3 DEF Parts
    <3> QED
      BY <1>8, <3>1
  <2> QED
    BY <1>6, <1>8, <2>1, <2>2, <2>3
<1>9. NoneAfter(u, A, B)
  BY <1>8 DEF NoneAfter
<1>10. Plan(u, P \cup Q, A, B)
  BY <1>3, <1>7, <1>9 DEF Plan
<1> QED
  BY <1>10 DEF u

LEMMA PlanPair ==
  ASSUME NEW x \in StepRecord, NEW y \in StepRecord, NEW A, NEW B, x \notin A \/ y \notin B
  PROVE  Plan(<<x, y>>, {x, y}, A, B)
<1>1. /\ <<x, y>> \in Seq(StepRecord) /\ DOMAIN <<x, y>> = 1..2
      /\ <<x, y>>[1] = x /\ <<x, y>>[2] = y
  OBVIOUS
<1>2. 1..2 = {1, 2} /\ \A i, j \in 1..2 : i < j => i = 1 /\ j = 2
  OBVIOUS
<1>3. Parts(<<x, y>>) = {x, y}
  BY <1>1, <1>2 DEF Parts
<1>4. NoneAfter(<<x, y>>, A, B)
  BY <1>1, <1>2 DEF NoneAfter
<1> QED
  BY <1>1, <1>3, <1>4 DEF Plan

LEMMA PlanWhen ==
  ASSUME NEW s, NEW P, NEW A, NEW B, Plan(s, P, A, B), NEW c
  PROVE  Plan(When(c, s), Only(c, P), A, B)
BY PlanNone DEF When, Only

LEMMA PlanNext ==
  ASSUME NEW s \in Seq(StepRecord), s # << >>
  PROVE  /\ Head(s) \in StepRecord /\ Head(s) \in Parts(s)
         /\ Tail(s) \in Seq(StepRecord)
         /\ Parts(s) = {Head(s)} \cup Parts(Tail(s))
<1>1. /\ Tail(s) \in Seq(StepRecord) /\ Head(s) \in StepRecord
      /\ Len(Tail(s)) = Len(s) - 1
      /\ \A i \in 1..Len(Tail(s)) : Tail(s)[i] = s[i + 1]
  BY HeadTailProperties
<1>2. Len(s) \in Nat \ {0} /\ DOMAIN s = 1..Len(s) /\ DOMAIN Tail(s) = 1..Len(s) - 1
  BY <1>1, PlanIndex, EmptySeq
<1>3. Head(s) = s[1] /\ 1 \in DOMAIN s
  BY <1>2
<1>4. \A i \in DOMAIN s : i = 1 \/ (i - 1 \in DOMAIN Tail(s) /\ Tail(s)[i - 1] = s[i])
  BY <1>1, <1>2
<1>5. \A i \in DOMAIN Tail(s) : i + 1 \in DOMAIN s /\ s[i + 1] = Tail(s)[i]
  BY <1>1, <1>2
<1>6. ASSUME NEW i \in DOMAIN s PROVE s[i] \in {Head(s)} \cup Parts(Tail(s))
  BY <1>3, <1>4 DEF Parts
<1>7. ASSUME NEW i \in DOMAIN Tail(s) PROVE Tail(s)[i] \in Parts(s)
  BY <1>5 DEF Parts
<1>8. Head(s) \in Parts(s)
  BY <1>3 DEF Parts
<1> QED
  BY <1>1, <1>6, <1>7, <1>8 DEF Parts

LEMMA OrderNext ==
  ASSUME NEW s \in Seq(StepRecord), s # << >>, NEW A, NEW B, NoneAfter(s, A, B)
  PROVE  /\ NoneAfter(Tail(s), A, B)
         /\ Head(s) \in A => Parts(Tail(s)) \cap B = {}
<1>1. /\ Tail(s) \in Seq(StepRecord) /\ Head(s) \in StepRecord
      /\ Len(Tail(s)) = Len(s) - 1
      /\ \A i \in 1..Len(Tail(s)) : Tail(s)[i] = s[i + 1]
  BY HeadTailProperties
<1>2. Len(s) \in Nat \ {0} /\ DOMAIN s = 1..Len(s) /\ DOMAIN Tail(s) = 1..Len(s) - 1
  BY <1>1, PlanIndex, EmptySeq
<1>3. Head(s) = s[1] /\ 1 \in DOMAIN s
  BY <1>2
<1>4. \A i \in DOMAIN Tail(s) : i \in Int /\ i >= 1 /\ i + 1 \in DOMAIN s /\ s[i + 1] = Tail(s)[i]
  BY <1>1, <1>2
<1>5. NoneAfter(Tail(s), A, B)
  BY <1>4 DEF NoneAfter
<1>6. ASSUME Head(s) \in A, NEW i \in DOMAIN Tail(s) PROVE Tail(s)[i] \notin B
  BY <1>3, <1>4, <1>6 DEF NoneAfter
<1> QED
  BY <1>5, <1>6 DEF Parts

-----------------------------------------------------------------------------
(* The steps.                                                              *)

\* where each step belongs
LEMMA Kinds ==
  /\ {Look, HardLook, Take, Scan, Warn, Halt} \subseteq StepRecord
  /\ {Look, HardLook, Take, Scan, Warn, Halt} \cap Writes = {}
  /\ {Look, HardLook, Take, Warn, Halt} \cap (Posts \cup Scans) = {}
  /\ Scan \in Scans
  /\ {Look, HardLook, Take, Scan, Warn} \cap Halts = {}
  /\ Warn \in Warns /\ Halt \in Halts
  /\ {Look, Take, Warn} \cap Stopping = {}
  /\ \A b : {Look, Take, Scan, Warn, Halt} \cap Risky(b) = {}
  /\ {x.op : x \in {Look, HardLook}} = {"look"} /\ Scan.op = "scan" /\ Warn.op = "warn"
  /\ \A what \in SUBSET Part :
       /\ {Put(what), HardPut(what), Post(what)} \subseteq StepRecord
       /\ {Put(what), HardPut(what), Post(what)} \cap (Scans \cup Halts \cup Warns) = {}
       /\ {Put(what), HardPut(what)} \cap Posts = {}
       /\ Put(what) \notin Stopping
       /\ \A b : Put(what) \notin Risky(b)
       /\ \A b : b.board # "linear" => {HardPut(what), Post(what)} \cap Risky(b) = {}
       /\ Put(what).op = "put" /\ HardPut(what).op = "put" /\ HardPut(what).hard
       /\ Put(what).what = what /\ HardPut(what).what = what
<1> USE DEF Writes, Posts, Hard, Halts, Scans, Warns, Risky, Stopping, StepOp
<1>1. {} \in SUBSET Part
  OBVIOUS
<1>2. /\ Look \in StepRecord /\ Look.op = "look" /\ ~Look.hard
      /\ HardLook \in StepRecord /\ HardLook.op = "look"
      /\ Take \in StepRecord /\ Take.op = "take" /\ ~Take.hard
      /\ Scan \in StepRecord /\ Scan.op = "scan" /\ ~Scan.hard
      /\ Warn \in StepRecord /\ Warn.op = "warn" /\ ~Warn.hard
      /\ Halt \in StepRecord /\ Halt.op = "halt"
  BY <1>1 DEF Look, HardLook, Take, Scan, Warn, Halt, Step, StepRecord
<1>3. ASSUME NEW what \in SUBSET Part
      PROVE  /\ Put(what) \in StepRecord /\ Put(what).op = "put" /\ ~Put(what).hard /\ Put(what).what = what
             /\ HardPut(what) \in StepRecord /\ HardPut(what).op = "put" /\ HardPut(what).hard /\ HardPut(what).what = what
             /\ Post(what) \in StepRecord /\ Post(what).op = "post"
  BY DEF Put, HardPut, Post, Step, StepRecord
<1> HIDE DEF StepRecord
<1> QED
  BY <1>2, <1>3

-----------------------------------------------------------------------------
(* The steps of finish.                                                    *)

\* writes D make of the card that was read what the call asks for
Suffices(b, r, D) ==
  /\ LinkPresent(b, r) \/ "link" \in D
  /\ r.q.target = "done" /\ (r.q.mark_done \/ b.board \in Flagged \ {"github"}) =>
       r.seen.place = "done" \/ "place" \in D
  /\ r.q.mark_done => IF b.board \in Flagged THEN r.seen.closed \/ "closed" \in D
                      ELSE r.seen.place = "done" \/ "place" \in D

FinishParts(b, r, P) ==
  /\ P \cap (Posts \cup Scans) = {}
  /\ P \cap (Warns \cup Halts) # {} \/ Suffices(b, r, Puts(P))
  /\ b.board = "yougile" =>
       /\ LinkPresent(b, r) \/ "link" \in HardPuts(P)
       /\ r.q.mark_done => r.seen.closed \/ "closed" \in HardPuts(P)
  /\ P \cap Halts # {} => b.board = "asana" /\ ~b.option

FinishPlan(b, r, s) == \E P : Plan(s, P, Writes, Risky(b)) /\ FinishParts(b, r, P)

LEMMA Parts3 == {"link", "place", "closed"} = Part /\ {} \in SUBSET Part
BY DEF Part

LEMMA PutIn ==
  ASSUME NEW P, NEW W \in SUBSET Part
  PROVE  /\ Put(W) \in P => W \subseteq Puts(P)
         /\ HardPut(W) \in P => W \subseteq Puts(P) /\ W \subseteq HardPuts(P)
BY Kinds DEF Puts, HardPuts

LEMMA LinkWhat ==
  ASSUME NEW b, NEW r
  PROVE  /\ Link(b, r) \in SUBSET Part
         /\ LinkPresent(b, r) \/ "link" \in Link(b, r)
         /\ \A c : /\ Only(c, {"place"}) \in SUBSET Part /\ Only(c, {"closed"}) \in SUBSET Part
                   /\ c => "place" \in Only(c, {"place"}) /\ "closed" \in Only(c, {"closed"})
BY DEF Link, Only, Part

LEMMA PlanWrite ==
  ASSUME NEW W \in SUBSET Part, NEW A, NEW B
  PROVE  /\ Plan(<<Put(W)>>, {Put(W)}, A, B)
         /\ Plan(<<HardPut(W)>>, {HardPut(W)}, A, B)
         /\ Plan(<<Post(W)>>, {Post(W)}, A, B)
         /\ \A b : {Put(W)} \cap Risky(b) = {}
BY Kinds, PlanOne

LEMMA PlanRead ==
  ASSUME NEW x \in {Look, HardLook, Take, Scan, Warn, Halt}, NEW A, NEW B
  PROVE  Plan(<<x>>, {x}, A, B)
BY Kinds, PlanOne

LEMMA FinishGithub ==
  ASSUME NEW b, b.board = "github", NEW r
  PROVE  FinishPlan(b, r, finish_github(b, r))
<1> DEFINE A == Writes
           B == Risky(b)
           W == Link(b, r) \cup Only(r.q.mark_done /\ Wanted(r), {"place"})
                  \cup Only(r.q.mark_done /\ ~r.seen.closed, {"closed"})
           P == Only(r.q.mark_done /\ Wanted(r), {Look}) \cup {Put(W)}
<1>1. W \in SUBSET Part
  BY LinkWhat
<1>2. Plan(_done_payload(r), Only(r.q.mark_done /\ Wanted(r), {Look}), A, B)
  BY Kinds, PlanOne, PlanWhen DEF _done_payload
<1> HIDE DEF W
<1>3. Plan(<<Put(W)>>, {Put(W)}, A, B) /\ {Put(W)} \cap B = {}
  BY <1>1, PlanWrite
<1> USE DEF W
<1> HIDE DEF A, B
<1>4. Plan(finish_github(b, r), P, A, B)
  BY <1>2, <1>3, PlanJoin DEF finish_github
<1>5. W \subseteq Puts(P)
  BY <1>1, PutIn
<1>6. Suffices(b, r, Puts(P))
  BY <1>5, LinkWhat DEF Suffices, Flagged, Wanted
<1>7. P \cap (Posts \cup Scans) = {} /\ P \cap Halts = {}
  BY <1>1, Kinds DEF Only
<1> QED
  BY <1>4, <1>6, <1>7 DEF FinishPlan, FinishParts, A, B

LEMMA FinishYougile ==
  ASSUME NEW b, b.board = "yougile", NEW r
  PROVE  FinishPlan(b, r, finish_yougile(b, r))
<1> DEFINE A == Writes
           B == Risky(b)
           W == Link(b, r) \cup Only(Wanted(r), {"place"})
                  \cup Only(r.q.mark_done /\ ~r.seen.closed, {"closed"})
           P == Only(Wanted(r), {Look}) \cup {HardPut(W)}
<1>1. W \in SUBSET Part
  BY LinkWhat
<1>2. Plan(When(Wanted(r), <<Look>>), Only(Wanted(r), {Look}), A, B)
  BY Kinds, PlanOne, PlanWhen
<1>3. Plan(<<HardPut(W)>>, {HardPut(W)}, A, B) /\ {HardPut(W)} \cap B = {}
  BY <1>1, Kinds, PlanWrite
<1> HIDE DEF A, B
<1>4. Plan(finish_yougile(b, r), P, A, B)
  BY <1>2, <1>3, PlanJoin DEF finish_yougile
<1>5. W \subseteq Puts(P) /\ W \subseteq HardPuts(P)
  BY <1>1, PutIn
<1>6. Suffices(b, r, Puts(P))
  BY <1>5, LinkWhat DEF Suffices, Flagged, Wanted
<1>7. P \cap (Posts \cup Scans) = {} /\ P \cap Halts = {}
  BY <1>1, Kinds DEF Only
<1>8. /\ LinkPresent(b, r) \/ "link" \in HardPuts(P)
      /\ r.q.mark_done => r.seen.closed \/ "closed" \in HardPuts(P)
  BY <1>5, LinkWhat
<1> QED
  BY <1>4, <1>6, <1>7, <1>8 DEF FinishPlan, FinishParts, A, B

LEMMA FinishWeeek ==
  ASSUME NEW b, b.board = "weeek", NEW r
  PROVE  FinishPlan(b, r, finish_weeek(b, r))
<1> DEFINE A == Writes
           B == Risky(b)
           L == Link(b, r)
           M == Only(Wanted(r), {"place"})
           C == Only(r.q.mark_done /\ ~r.seen.closed, {"closed"})
           R == Only(Wanted(r), IF b.detail THEN {Look} ELSE {Warn})
           P == (({Put(L)} \cup R) \cup {Put(M)}) \cup {Put(C)}
<1>1. L \in SUBSET Part /\ M \in SUBSET Part /\ C \in SUBSET Part
  BY LinkWhat
<1>2. Plan(_resolve_column(b, r), R, A, B) /\ R \cap B = {}
  <2>1. Plan(IF b.detail THEN <<Look>> ELSE <<Warn>>, IF b.detail THEN {Look} ELSE {Warn}, A, B)
    BY Kinds, PlanOne
  <2> QED
    BY <2>1, Kinds, PlanWhen DEF _resolve_column, Only
<1>3. ASSUME NEW W \in SUBSET Part
      PROVE  Plan(<<Put(W)>>, {Put(W)}, A, B) /\ {Put(W)} \cap B = {}
  BY Kinds, PlanOne
<1> HIDE DEF A, B, R, L, M, C
<1>4. Plan(<<Put(L)>> \o _resolve_column(b, r), {Put(L)} \cup R, A, B)
  BY <1>1, <1>2, <1>3, PlanJoin
<1>5. Plan(<<Put(L)>> \o _resolve_column(b, r) \o <<Put(M)>>, ({Put(L)} \cup R) \cup {Put(M)}, A, B)
  BY <1>1, <1>3, <1>4, PlanJoin
<1>6. Plan(<<Put(L)>> \o _resolve_column(b, r) \o <<Put(M)>> \o <<Put(C)>>, P, A, B)
  BY <1>1, <1>3, <1>5, PlanJoin
<1>7. L \cup M \cup C \subseteq Puts(P)
  BY <1>1, PutIn
<1>8. Suffices(b, r, Puts(P))
  BY <1>7, LinkWhat DEF Suffices, Flagged, Wanted, L, M, C
<1>9. P \cap (Posts \cup Scans) = {} /\ P \cap Halts = {}
  BY <1>1, Kinds DEF Only, R
<1>10. Plan(finish_weeek(b, r), P, A, B)
  BY <1>6 DEF finish_weeek, L, M, C
<1> QED
  BY <1>8, <1>9, <1>10 DEF FinishPlan, FinishParts, A, B

LEMMA LinkFirst ==
  ASSUME NEW b, NEW r, NEW s, NEW Q, Plan(s, Q, Writes, Risky(b)), Q \cap Risky(b) = {}
  PROVE  Plan(<<Put(Link(b, r))>> \o s, {Put(Link(b, r))} \cup Q, Writes, Risky(b))
BY LinkWhat, PlanWrite, PlanJoin

\* the boards that move a card on and do nothing else
LEMMA FinishByMove ==
  ASSUME NEW b, b.board \in {"clickup", "jira", "yandex_tracker"}, NEW r,
         NEW s, NEW S, Plan(s, S, Writes, Risky(b)),
         S \subseteq {Look, Put({"place"})}, Put({"place"}) \in S
  PROVE  FinishPlan(b, r, <<Put(Link(b, r))>> \o Move(r, s))
<1> DEFINE c == r.q.mark_done /\ ~AtTarget(r)
           M == IF Wanted(r) THEN S ELSE {Warn}
           P == {Put(Link(b, r))} \cup Only(c, M)
<1>1. {"place"} \in SUBSET Part /\ Link(b, r) \in SUBSET Part
  BY LinkWhat DEF Part
<1>2. Plan(IF Wanted(r) THEN s ELSE <<Warn>>, M, Writes, Risky(b))
  BY PlanRead
<1>3. Plan(Move(r, s), Only(c, M), Writes, Risky(b))
  BY <1>2, PlanWhen DEF Move
<1>4. {Put({"place"})} \cap Risky(b) = {}
  BY <1>1, PlanWrite
<1>5. Only(c, M) \cap Risky(b) = {}
  BY <1>4, Kinds DEF Only
<1>6. Plan(<<Put(Link(b, r))>> \o Move(r, s), P, Writes, Risky(b))
  BY <1>3, <1>5, LinkFirst
<1>7. P \cap (Posts \cup Scans) = {} /\ P \cap Halts = {}
  BY <1>1, Kinds DEF Only
<1>8. /\ Link(b, r) \subseteq Puts(P)
      /\ c /\ Wanted(r) => "place" \in Puts(P)
      /\ c /\ ~Wanted(r) => Warn \in P
  BY <1>1, PutIn DEF Only
<1>9. Suffices(b, r, Puts(P)) \/ P \cap Warns # {}
  BY <1>8, LinkWhat, Kinds DEF Suffices, Flagged, AtTarget
<1> QED
  BY <1>6, <1>7, <1>9 DEF FinishPlan, FinishParts

LEMMA MoveSteps ==
  ASSUME NEW b
  PROVE  /\ Plan(<<Put({"place"})>>, {Put({"place"})}, Writes, Risky(b))
         /\ Plan(<<Look, Put({"place"})>>, {Look, Put({"place"})}, Writes, Risky(b))
BY Kinds, PlanWrite, PlanPair DEF Part

LEMMA FinishClickup ==
  ASSUME NEW b, b.board = "clickup", NEW r
  PROVE  FinishPlan(b, r, finish_clickup(b, r))
BY MoveSteps, FinishByMove DEF finish_clickup

LEMMA FinishJira ==
  ASSUME NEW b, b.board = "jira", NEW r
  PROVE  FinishPlan(b, r, finish_jira(b, r))
BY MoveSteps, FinishByMove DEF finish_jira, _apply_transition_jira

LEMMA FinishYandex ==
  ASSUME NEW b, b.board = "yandex_tracker", NEW r
  PROVE  FinishPlan(b, r, finish_yandex_tracker(b, r))
BY MoveSteps, FinishByMove DEF finish_yandex_tracker, _apply_transition_yandex

LEMMA FinishTrello ==
  ASSUME NEW b, b.board = "trello", NEW r
  PROVE  FinishPlan(b, r, finish_trello(b, r))
<1> DEFINE R == Only(r.q.mark_done, IF Wanted(r) THEN {HardLook} ELSE {Warn})
           W == Link(b, r) \cup Only(r.q.mark_done /\ Wanted(r), {"place"})
           P == R \cup {Put(W)}
<1>1. W \in SUBSET Part
  BY LinkWhat
<1>2. /\ Plan(When(r.q.mark_done, IF Wanted(r) THEN <<HardLook>> ELSE <<Warn>>), R, Writes, Risky(b))
      /\ R \cap Writes = {}
  <2>1. Plan(IF Wanted(r) THEN <<HardLook>> ELSE <<Warn>>, IF Wanted(r) THEN {HardLook} ELSE {Warn},
             Writes, Risky(b))
    BY PlanRead
  <2> QED
    BY <2>1, Kinds, PlanWhen DEF Only
<1>3. Plan(<<Put(W)>>, {Put(W)}, Writes, Risky(b))
  BY <1>1, PlanWrite
<1>4. Plan(finish_trello(b, r), P, Writes, Risky(b))
  BY <1>2, <1>3, PlanJoin DEF finish_trello
<1>5. W \subseteq Puts(P)
  BY <1>1, PutIn
<1>6. r.q.mark_done /\ ~Wanted(r) => Warn \in P
  BY DEF Only
<1>7. Suffices(b, r, Puts(P)) \/ P \cap Warns # {}
  BY <1>5, <1>6, LinkWhat, Kinds DEF Suffices, Flagged
<1>8. P \cap (Posts \cup Scans) = {} /\ P \cap Halts = {}
  BY <1>1, Kinds DEF Only
<1> QED
  BY <1>4, <1>7, <1>8 DEF FinishPlan, FinishParts

LEMMA FinishKaiten ==
  ASSUME NEW b, b.board = "kaiten", NEW r
  PROVE  FinishPlan(b, r, finish_kaiten(b, r))
<1> DEFINE R == Only(r.q.mark_done, {Look})
           W == Link(b, r) \cup Only(r.q.mark_done, {"place"})
           P == R \cup {HardPut(W)}
<1>1. W \in SUBSET Part
  BY LinkWhat
<1>2. Plan(When(r.q.mark_done, <<Look>>), R, Writes, Risky(b)) /\ R \cap Writes = {}
  BY PlanRead, Kinds, PlanWhen DEF Only
<1>3. Plan(<<HardPut(W)>>, {HardPut(W)}, Writes, Risky(b))
  BY <1>1, PlanWrite
<1>4. Plan(finish_kaiten(b, r), P, Writes, Risky(b))
  BY <1>2, <1>3, PlanJoin DEF finish_kaiten
<1>5. W \subseteq Puts(P)
  BY <1>1, PutIn
<1>6. Suffices(b, r, Puts(P))
  BY <1>5, LinkWhat DEF Suffices, Flagged
<1>7. P \cap (Posts \cup Scans) = {} /\ P \cap Halts = {}
  BY <1>1, Kinds DEF Only
<1> QED
  BY <1>4, <1>6, <1>7 DEF FinishPlan, FinishParts

LEMMA FinishLinear ==
  ASSUME NEW b, b.board = "linear", NEW r
  PROVE  FinishPlan(b, r, finish_linear(b, r))
<1> DEFINE M == {"place"}
           R == Only(r.q.mark_done, {Take, Put(M)})
           P == {Put(Link(b, r))} \cup R
<1>1. M \in SUBSET Part /\ Link(b, r) \in SUBSET Part
  BY LinkWhat DEF Part
<1>2. Plan(<<Take, Put(M)>>, {Take, Put(M)}, Writes, Risky(b))
  BY <1>1, Kinds, PlanPair
<1>3. Plan(When(r.q.mark_done, <<Take, Put(M)>>), R, Writes, Risky(b))
  BY <1>2, PlanWhen
<1>4. R \cap Risky(b) = {}
  BY <1>1, Kinds, PlanWrite DEF Only
<1>5. Plan(finish_linear(b, r), P, Writes, Risky(b))
  BY <1>3, <1>4, LinkFirst DEF finish_linear
<1>6. Link(b, r) \subseteq Puts(P) /\ (r.q.mark_done => "place" \in Puts(P))
  BY <1>1, PutIn DEF Only
<1>7. Suffices(b, r, Puts(P))
  BY <1>6, LinkWhat DEF Suffices, Flagged
<1>8. P \cap (Posts \cup Scans) = {} /\ P \cap Halts = {}
  BY <1>1, Kinds DEF Only
<1> QED
  BY <1>5, <1>7, <1>8 DEF FinishPlan, FinishParts

LEMMA FinishYoutrack ==
  ASSUME NEW b, b.board = "youtrack", NEW r
  PROVE  FinishPlan(b, r, finish_youtrack(b, r))
<1> DEFINE M == {"place"}
           c == r.q.mark_done /\ ~(b.detail /\ r.seen.place = "done" /\ r.q.target \in {"none", "done"})
           R == Only(c, IF b.detail THEN {Put(M)} ELSE {Warn})
           L == Link(b, r)
           P == {HardPut(L)} \cup R
<1>1. M \in SUBSET Part /\ L \in SUBSET Part
  BY LinkWhat DEF Part
<1>2. Plan(_set_status(b), IF b.detail THEN {Put(M)} ELSE {Warn}, Writes, Risky(b))
  BY <1>1, PlanWrite, PlanRead DEF _set_status
<1>3. Plan(When(c, _set_status(b)), R, Writes, Risky(b))
  BY <1>2, PlanWhen
<1>4. R \cap Risky(b) = {}
  BY <1>1, Kinds, PlanWrite DEF Only
<1>5. Plan(<<HardPut(L)>>, {HardPut(L)}, Writes, Risky(b))
  BY <1>1, PlanWrite
<1>6. Plan(finish_youtrack(b, r), P, Writes, Risky(b))
  BY <1>3, <1>4, <1>5, PlanJoin DEF finish_youtrack
<1>7. /\ L \subseteq Puts(P)
      /\ c /\ b.detail => "place" \in Puts(P)
      /\ c /\ ~b.detail => Warn \in P
  BY <1>1, PutIn DEF Only
<1>8. Suffices(b, r, Puts(P)) \/ P \cap Warns # {}
  BY <1>7, LinkWhat, Kinds DEF Suffices, Flagged
<1>9. P \cap (Posts \cup Scans) = {} /\ P \cap Halts = {}
  BY <1>1, Kinds DEF Only
<1> QED
  BY <1>6, <1>8, <1>9 DEF FinishPlan, FinishParts

LEMMA FinishAsana ==
  ASSUME NEW b, b.board = "asana", NEW r
  PROVE  FinishPlan(b, r, finish_asana(b, r))
<1> DEFINE M == {"place"}
           C == {"closed"}
           c == r.q.mark_done /\ ~r.seen.closed
           L == Link(b, r)
           Q == Only(c, {HardPut(C)})
           H == Only(~b.option, {Halt})
           R == Only(Wanted(r), H \cup {Look, Put(M)})
           P == ({Put(L)} \cup Q) \cup R
<1>1. M \in SUBSET Part /\ C \in SUBSET Part /\ L \in SUBSET Part
  BY LinkWhat DEF Part
<1>2. Plan(When(c, <<HardPut(C)>>), Q, Writes, Risky(b)) /\ Q \cap Risky(b) = {}
  BY <1>1, Kinds, PlanWrite, PlanWhen DEF Only
<1>3. Plan(<<Put(L)>> \o When(c, <<HardPut(C)>>), {Put(L)} \cup Q, Writes, Risky(b))
  BY <1>2, LinkFirst
<1>4. Plan(When(~b.option, <<Halt>>), H, Writes, Risky(b)) /\ H \cap Writes = {} /\ H \cap Risky(b) = {}
  BY Kinds, PlanRead, PlanWhen DEF Only
<1>5. Plan(_move_to_section, {Look, Put(M)}, Writes, Risky(b))
  BY <1>1, Kinds, PlanPair DEF _move_to_section
<1>6. Plan(When(~b.option, <<Halt>>) \o _move_to_section, H \cup {Look, Put(M)}, Writes, Risky(b))
  BY <1>4, <1>5, PlanJoin
<1>7. Plan(When(Wanted(r), When(~b.option, <<Halt>>) \o _move_to_section), R, Writes, Risky(b))
  BY <1>6, PlanWhen
<1>8. {Look, Put(M)} \cap Risky(b) = {}
  BY <1>1, Kinds, PlanWrite
<1>9. R \cap Risky(b) = {}
  BY <1>4, <1>8 DEF Only
<1>10. Plan(finish_asana(b, r), P, Writes, Risky(b))
  BY <1>3, <1>7, <1>9, PlanJoin DEF finish_asana
<1>11. /\ L \subseteq Puts(P)
       /\ c => "closed" \in Puts(P)
       /\ Wanted(r) => "place" \in Puts(P)
  BY <1>1, PutIn DEF Only
<1>12. Suffices(b, r, Puts(P))
  BY <1>11, LinkWhat DEF Suffices, Flagged, Wanted
<1>13. /\ P \cap (Posts \cup Scans) = {}
       /\ P \cap Halts # {} => ~b.option
  BY <1>1, Kinds DEF Only
<1> QED
  BY <1>10, <1>12, <1>13 DEF FinishPlan, FinishParts

LEMMA FinishPlans ==
  ASSUME NEW b \in Conf, NEW r
  PROVE  FinishPlan(b, r, finish(b, r))
BY FinishGithub, FinishYougile, FinishWeeek, FinishClickup, FinishTrello, FinishKaiten,
   FinishJira, FinishAsana, FinishYandex, FinishLinear, FinishYoutrack
DEF finish, Conf, Board

-----------------------------------------------------------------------------
(* The steps of create.                                                    *)

Both(s, P, b) == Plan(s, P, Writes, Risky(b)) /\ Plan(s, P, Posts, Stopping)

CreatePlan(b, s) ==
  \E P : /\ Plan(s, P, Writes, Risky(b))
         /\ ~(b.board = "trello" /\ ~b.detail) => Plan(s, P, Posts, Stopping)
         /\ P \cap Halts # {} => ~b.option \/ (b.board \in {"trello", "jira"} /\ ~b.detail)
         /\ P \cap Scans # {} => b.board = "yougile"

LEMMA Inclusions ==
  ASSUME NEW b
  PROVE  Posts \subseteq Writes /\ Risky(b) \subseteq Stopping
BY DEF Posts, Writes, Risky, Stopping, Hard

LEMMA BothJoin ==
  ASSUME NEW b, NEW s, NEW t, NEW P, NEW Q, Both(s, P, b), Both(t, Q, b),
         P \cap Writes = {} \/ Q \cap Stopping = {}
  PROVE  Both(s \o t, P \cup Q, b)
<1>1. P \cap Writes = {} \/ Q \cap Risky(b) = {}
  BY Inclusions
<1>2. P \cap Posts = {} \/ Q \cap Stopping = {}
  BY Inclusions
<1> QED
  BY <1>1, <1>2, PlanJoin DEF Both

LEMMA BothWhen ==
  ASSUME NEW b, NEW s, NEW P, Both(s, P, b), NEW c
  PROVE  Both(When(c, s), Only(c, P), b)
BY PlanWhen DEF Both

LEMMA BothBasics ==
  ASSUME NEW b, NEW W \in SUBSET Part
  PROVE  /\ \A x \in {Look, HardLook, Take, Scan, Warn, Halt} : Both(<<x>>, {x}, b)
         /\ Both(<<Put(W)>>, {Put(W)}, b) /\ Both(<<Post(W)>>, {Post(W)}, b)
         /\ \A x \in {HardLook, Look} : Both(<<x, Post(W)>>, {x, Post(W)}, b)
         /\ Both(<<Look, Put(W)>>, {Look, Put(W)}, b)
         /\ {Put(W)} \cap Stopping = {} /\ {Look, Warn} \cap Stopping = {}
         /\ {Look, HardLook, Take, Scan, Warn, Halt} \cap Writes = {}
<1>1. \A x \in {Look, HardLook, Take, Scan, Warn, Halt} : Both(<<x>>, {x}, b)
  BY PlanRead DEF Both
<1>2. Both(<<Put(W)>>, {Put(W)}, b) /\ Both(<<Post(W)>>, {Post(W)}, b)
  BY PlanWrite DEF Both
<1>3. ASSUME NEW x \in {HardLook, Look}, NEW y \in {Put(W), Post(W)}
      PROVE  Both(<<x, y>>, {x, y}, b)
  <2>1. x \in StepRecord /\ y \in StepRecord /\ x \notin Writes /\ x \notin Posts
    BY Kinds, Inclusions
  <2> QED
    BY <2>1, PlanPair DEF Both
<1> QED
  BY <1>1, <1>2, <1>3, Kinds

LEMMA HaltFirst ==
  ASSUME NEW b, NEW c
  PROVE  /\ Both(When(c, <<Halt>>), Only(c, {Halt}), b)
         /\ Only(c, {Halt}) \cap Writes = {}
<1>1. {} \in SUBSET Part
  OBVIOUS
<1>2. Both(<<Halt>>, {Halt}, b) /\ {Halt} \cap Writes = {}
  BY <1>1, BothBasics
<1> QED
  BY <1>2, BothWhen DEF Only

\* a step that is no write, then the card
LEMMA CreateByPost ==
  ASSUME NEW b \in Conf, b.board # "trello",
         NEW s, NEW Q, Both(s, Q, b), Q \subseteq {Look, Warn}
  PROVE  CreatePlan(b, When(~b.option, <<Halt>>) \o s \o <<Post({"place"})>>)
<1> DEFINE M == {"place"}
           H == Only(~b.option, {Halt})
           P == (H \cup Q) \cup {Post(M)}
<1>1. M \in SUBSET Part
  BY DEF Part
<1>2. Both(When(~b.option, <<Halt>>), H, b) /\ H \cap Writes = {}
  BY HaltFirst
<1>3. Q \cap Writes = {}
  BY Kinds
<1>4. Both(When(~b.option, <<Halt>>) \o s, H \cup Q, b)
  BY <1>2, BothJoin
<1>5. Both(When(~b.option, <<Halt>>) \o s \o <<Post(M)>>, P, b)
  BY <1>1, <1>2, <1>3, <1>4, BothJoin, BothBasics
<1>6. (P \cap Halts # {} => ~b.option) /\ P \cap Scans = {}
  BY <1>1, Kinds DEF Only
<1> QED
  BY <1>5, <1>6 DEF CreatePlan, Both

LEMMA CreatePlain ==
  ASSUME NEW b \in Conf, NEW r
  PROVE  /\ b.board = "github" => CreatePlan(b, create_github(b, r))
         /\ b.board = "clickup" => CreatePlan(b, create_clickup(b, r))
         /\ b.board = "kaiten" => CreatePlan(b, create_kaiten(b, r))
         /\ b.board = "asana" => CreatePlan(b, create_asana(b, r))
         /\ b.board = "weeek" => CreatePlan(b, create_weeek(b, r))
<1>1. {} \in SUBSET Part
  OBVIOUS
<1>2. Both(<<Look>>, {Look}, b) /\ Both(<<Warn>>, {Warn}, b)
  BY <1>1, BothBasics
<1>3. Both(When(Wanted(r), <<Look>>), Only(Wanted(r), {Look}), b) /\ Only(Wanted(r), {Look}) \subseteq {Look, Warn}
  BY <1>2, BothWhen DEF Only
<1>4. \E Q : Both(IF b.detail THEN <<Look>> ELSE <<Warn>>, Q, b) /\ Q \subseteq {Look, Warn}
  BY <1>2
<1> QED
  BY <1>3, <1>4, CreateByPost
  DEF create_github, create_clickup, create_kaiten, create_asana, create_weeek

LEMMA CreateYougile ==
  ASSUME NEW b \in Conf, NEW r, b.board = "yougile"
  PROVE  CreatePlan(b, create_yougile(b, r))
<1> DEFINE M == {"place"}
           s == <<Scan, Post(M), Look>>
<1>1. M \in SUBSET Part
  BY DEF Part
<1>2. /\ Scan \in StepRecord /\ Look \in StepRecord /\ Post(M) \in StepRecord
      /\ Scan \notin Writes /\ Scan \notin Posts
      /\ Look \notin Risky(b) /\ Look \notin Stopping
      /\ {Scan, Post(M), Look} \cap Halts = {}
  BY <1>1, Kinds, Inclusions
<1>3. /\ s \in Seq(StepRecord) /\ DOMAIN s = 1..3
      /\ s[1] = Scan /\ s[2] = Post(M) /\ s[3] = Look
  BY <1>2
<1> HIDE DEF s
<1>4. 1..3 = {1, 2, 3} /\ \A i, j \in 1..3 : i < j => (i = 1 \/ j = 3)
  OBVIOUS
<1>5. Parts(s) = {Scan, Post(M), Look}
  BY <1>3, <1>4 DEF Parts
<1>6. NoneAfter(s, Writes, Risky(b)) /\ NoneAfter(s, Posts, Stopping)
  BY <1>2, <1>3, <1>4 DEF NoneAfter
<1>7. create_yougile(b, r) = s
  BY DEF create_yougile, s
<1> QED
  BY <1>2, <1>3, <1>5, <1>6, <1>7 DEF CreatePlan, Plan

LEMMA CreateTrello ==
  ASSUME NEW b \in Conf, NEW r, b.board = "trello"
  PROVE  CreatePlan(b, create_trello(b, r))
<1> DEFINE M == {"place"}
           H == Only(~b.option, {Halt})
           E == Only(~b.detail, {Halt})
           s == When(~b.option, <<Halt>>) \o <<HardLook, Post(M)>>
           Q == H \cup {HardLook, Post(M)}
<1>1. M \in SUBSET Part
  BY DEF Part
<1>2. Both(When(~b.option, <<Halt>>), H, b) /\ H \cap Writes = {}
  BY HaltFirst
<1>3. Both(<<HardLook, Post(M)>>, {HardLook, Post(M)}, b)
  BY <1>1, BothBasics
<1>4. Both(s, Q, b)
  BY <1>2, <1>3, BothJoin
<1>5. Both(When(~b.detail, <<Halt>>), E, b)
  BY HaltFirst
<1>6. E \cap Risky(b) = {} /\ (b.detail => E = {})
  BY Kinds DEF Only
<1>7. (Q \cup E) \cap Scans = {} /\ ((Q \cup E) \cap Halts # {} => ~b.option \/ ~b.detail)
  BY <1>1, Kinds DEF Only
<1> HIDE DEF s, Q, E
<1>8. Plan(s \o When(~b.detail, <<Halt>>), Q \cup E, Writes, Risky(b))
  BY <1>4, <1>5, <1>6, PlanJoin DEF Both
<1>9. b.detail => Plan(s \o When(~b.detail, <<Halt>>), Q \cup E, Posts, Stopping)
  BY <1>4, <1>5, <1>6, PlanJoin DEF Both
<1>10. create_trello(b, r) = s \o When(~b.detail, <<Halt>>)
  BY DEF create_trello, s
<1> QED
  BY <1>7, <1>8, <1>9, <1>10 DEF CreatePlan

\* the card, then it is moved on
LEMMA CreateThenMove ==
  ASSUME NEW b \in Conf, b.board \in {"jira", "yandex_tracker", "youtrack"},
         NEW c, c => ~b.option \/ (b.board = "jira" /\ ~b.detail),
         NEW s, NEW S, Both(s, S, b), S \in {{Post({})}, {HardLook, Post({})}},
         NEW t, NEW T, Both(t, T, b), T \subseteq {Look, Warn, Put({"place"})}
  PROVE  CreatePlan(b, When(c, <<Halt>>) \o s \o t)
<1> DEFINE H == Only(c, {Halt})
<1>1. {} \in SUBSET Part /\ {"place"} \in SUBSET Part
  BY DEF Part
<1>2. Both(When(c, <<Halt>>), H, b) /\ H \cap Writes = {}
  BY HaltFirst
<1>3. Both(When(c, <<Halt>>) \o s, H \cup S, b)
  BY <1>2, BothJoin
<1>4. {Look, Warn} \cap Stopping = {} /\ {Put({"place"})} \cap Stopping = {}
  BY <1>1, BothBasics
<1>5. Both(When(c, <<Halt>>) \o s \o t, (H \cup S) \cup T, b)
  BY <1>3, <1>4, BothJoin
<1>6. /\ S \cap (Halts \cup Scans) = {} /\ T \cap (Halts \cup Scans) = {}
      /\ H \cap Scans = {} /\ (H # {} => c)
  BY <1>1, Kinds DEF Only
<1>7. /\ ((H \cup S) \cup T) \cap Scans = {}
      /\ ((H \cup S) \cup T) \cap Halts # {} => c
  BY <1>6
<1> QED
  BY <1>5, <1>7 DEF CreatePlan, Both

LEMMA CreateMoving ==
  ASSUME NEW b \in Conf, NEW r
  PROVE  /\ b.board = "jira" => CreatePlan(b, create_jira(b, r))
         /\ b.board = "yandex_tracker" => CreatePlan(b, create_yandex_tracker(b, r))
         /\ b.board = "youtrack" => CreatePlan(b, create_youtrack(b, r))
<1> DEFINE M == {"place"}
<1>1. {} \in SUBSET Part /\ M \in SUBSET Part
  BY DEF Part
<1>2. /\ Both(<<Post({})>>, {Post({})}, b)
      /\ Both(<<HardLook, Post({})>>, {HardLook, Post({})}, b)
      /\ Both(<<Look>>, {Look}, b) /\ Both(<<Warn>>, {Warn}, b)
      /\ Both(<<Put(M)>>, {Put(M)}, b) /\ Both(<<Look, Put(M)>>, {Look, Put(M)}, b)
  BY <1>1, BothBasics
<1>3. /\ Both(When(Wanted(r), <<Look, Put(M)>>), Only(Wanted(r), {Look, Put(M)}), b)
      /\ Only(Wanted(r), {Look, Put(M)}) \subseteq {Look, Warn, Put(M)}
  BY <1>2, BothWhen DEF Only
<1> DEFINE S == IF b.detail THEN {Put(M)} ELSE {Warn}
<1>4. Both(_set_status(b), S, b)
  BY <1>2 DEF _set_status
<1>5. Both(<<Look>> \o _set_status(b), {Look} \cup S, b)
  BY <1>1, <1>2, <1>4, BothJoin, Kinds
<1>6. /\ Both(When(Wanted(r), <<Look>> \o _set_status(b)), Only(Wanted(r), {Look} \cup S), b)
      /\ Only(Wanted(r), {Look} \cup S) \subseteq {Look, Warn, Put(M)}
  BY <1>5, BothWhen DEF Only
<1>7. b.board = "jira" => CreatePlan(b, create_jira(b, r))
  BY <1>2, <1>3, CreateThenMove DEF create_jira, _apply_transition_jira
<1>8. b.board = "yandex_tracker" => CreatePlan(b, create_yandex_tracker(b, r))
  BY <1>2, <1>3, CreateThenMove DEF create_yandex_tracker, _apply_transition_yandex
<1>9. b.board = "youtrack" => CreatePlan(b, create_youtrack(b, r))
  BY <1>2, <1>6, CreateThenMove DEF create_youtrack
<1> QED
  BY <1>7, <1>8, <1>9

LEMMA CreateLinear ==
  ASSUME NEW b \in Conf, NEW r, b.board = "linear"
  PROVE  CreatePlan(b, create_linear(b, r))
<1> DEFINE M == {"place"}
           Q == {HardLook} \cup Only(~b.option, {Halt})
<1>1. M \in SUBSET Part
  BY DEF Part
<1>2. Both(<<HardLook>>, {HardLook}, b) /\ {HardLook} \cap Writes = {} /\ Both(<<Post(M)>>, {Post(M)}, b)
  BY <1>1, BothBasics
<1>3. Both(_resolve_team(b, <<Halt>>), Q, b) /\ Q \cap Writes = {}
  BY <1>2, BothJoin, HaltFirst DEF _resolve_team
<1>4. Both(create_linear(b, r), Q \cup {Post(M)}, b)
  BY <1>2, <1>3, BothJoin DEF create_linear
<1>5. (Q \cup {Post(M)}) \cap Scans = {} /\ ((Q \cup {Post(M)}) \cap Halts # {} => ~b.option)
  BY <1>1, Kinds DEF Only
<1> QED
  BY <1>4, <1>5 DEF CreatePlan, Both

LEMMA CreatePlans ==
  ASSUME NEW b \in Conf, NEW r
  PROVE  CreatePlan(b, create(b, r))
BY CreatePlain, CreateYougile, CreateTrello, CreateMoving, CreateLinear
DEF create, Conf, Board

-----------------------------------------------------------------------------
(* The steps of list_targets and validate_connection.                      *)

\* reads and remarks, and at least one of them
Reading(b, s) == \E P \in SUBSET {Look, HardLook, Warn} : Plan(s, P, Writes, Risky(b))
Asking(b, s) == \E P \in SUBSET {Look, HardLook, Warn} : P # {} /\ Plan(s, P, Writes, Risky(b))

TargetsPlan(b, s) ==
  \E P : /\ P # {} /\ Plan(s, P, Writes, Risky(b)) /\ P \cap Halts = {}
         /\ \A x \in P : /\ x.op \in {"look", "scan", "warn"}
                         /\ x.op = "scan" => b.board \in {"yougile", "youtrack"}
ReadingPlan(b, s) ==
  \E P : Plan(s, P, Writes, Risky(b)) /\ P \cap (Halts \cup Scans) = {}

LEMMA AskingFacts ==
  ASSUME NEW b
  PROVE  /\ \A x \in {Look, HardLook, Warn} : Asking(b, <<x>>)
         /\ \A x, y \in {Look, HardLook, Warn} : Asking(b, <<x, y>>)
         /\ Reading(b, << >>)
<1>1. ASSUME NEW x \in {Look, HardLook, Warn} PROVE Asking(b, <<x>>)
  BY PlanRead DEF Asking
<1>2. ASSUME NEW x \in {Look, HardLook, Warn}, NEW y \in {Look, HardLook, Warn}
      PROVE  Asking(b, <<x, y>>)
  <2>1. x \in StepRecord /\ y \in StepRecord /\ x \notin Writes
    BY Kinds
  <2>2. Plan(<<x, y>>, {x, y}, Writes, Risky(b))
    BY <2>1, PlanPair
  <2> QED
    BY <2>2 DEF Asking
<1> QED
  BY <1>1, <1>2, PlanNone DEF Reading

LEMMA AskingJoin ==
  ASSUME NEW b, NEW s, NEW t, Asking(b, s), Reading(b, t)
  PROVE  Asking(b, s \o t)
<1>1. PICK P \in SUBSET {Look, HardLook, Warn} : P # {} /\ Plan(s, P, Writes, Risky(b))
  BY DEF Asking
<1>2. PICK Q \in SUBSET {Look, HardLook, Warn} : Plan(t, Q, Writes, Risky(b))
  BY DEF Reading
<1>3. P \cap Writes = {}
  BY Kinds
<1>4. Plan(s \o t, P \cup Q, Writes, Risky(b))
  BY <1>1, <1>2, <1>3, PlanJoin
<1> QED
  BY <1>1, <1>4 DEF Asking

LEMMA AskingIsReading ==
  ASSUME NEW b, NEW s, Asking(b, s) PROVE Reading(b, s)
BY DEF Asking, Reading

LEMMA ReadingWhen ==
  ASSUME NEW b, NEW s, Reading(b, s), NEW c PROVE Reading(b, When(c, s))
BY AskingFacts DEF When

LEMMA AskingPlans ==
  ASSUME NEW b, NEW s, Asking(b, s)
  PROVE  TargetsPlan(b, s) /\ ReadingPlan(b, s)
<1>1. PICK P \in SUBSET {Look, HardLook, Warn} : P # {} /\ Plan(s, P, Writes, Risky(b))
  BY DEF Asking
<1>2. {} \in SUBSET Part
  OBVIOUS
<1>3. /\ Look.op = "look" /\ HardLook.op = "look" /\ Warn.op = "warn"
      /\ {Look, HardLook, Warn} \cap (Halts \cup Scans) = {}
  BY DEF Look, HardLook, Warn, Step, Halts, Scans
<1> QED
  BY <1>1, <1>3 DEF TargetsPlan, ReadingPlan

LEMMA TargetsPlans ==
  ASSUME NEW b \in Conf
  PROVE  TargetsPlan(b, list_targets(b))
<1>1. /\ Asking(b, <<Look>>) /\ Asking(b, <<HardLook>>) /\ Asking(b, <<Warn>>)
      /\ Asking(b, <<Look, Look>>) /\ Asking(b, <<HardLook, HardLook>>) /\ Asking(b, <<HardLook, Look>>)
  BY AskingFacts
<1>2. Reading(b, When(~b.detail, <<Warn>>)) /\ Reading(b, When(~b.option, <<Warn>>))
  BY <1>1, AskingIsReading, ReadingWhen
<1>3. Asking(b, targets_kaiten(b)) /\ Asking(b, targets_yandex_tracker(b)) /\ Asking(b, targets_linear(b))
  BY <1>1, <1>2, AskingJoin DEF targets_kaiten, targets_yandex_tracker, targets_linear, _resolve_team
<1>4. /\ Asking(b, targets_github(b)) /\ Asking(b, targets_weeek(b)) /\ Asking(b, targets_clickup(b))
      /\ Asking(b, targets_trello(b)) /\ Asking(b, targets_jira(b)) /\ Asking(b, targets_asana(b))
  BY <1>1 DEF targets_github, targets_weeek, targets_clickup, targets_trello, targets_jira, targets_asana
<1>5. Plan(<<Scan>>, {Scan}, Writes, Risky(b)) /\ {Scan} \cap Writes = {} /\ Scan.op = "scan"
  BY PlanRead, Kinds DEF Scan, Step
<1>6. Warn.op = "warn" /\ {Scan, Warn} \cap Halts = {}
  BY DEF Warn, Scan, Step, Halts
<1>7. b.board = "yougile" => TargetsPlan(b, targets_yougile(b))
  BY <1>5, <1>6 DEF TargetsPlan, targets_yougile
<1>8. b.board = "youtrack" => TargetsPlan(b, targets_youtrack(b))
  <2>1. Plan(<<Warn>>, {Warn}, Writes, Risky(b))
    BY PlanRead
  <2>2. Plan(When(~b.detail, <<Warn>>), Only(~b.detail, {Warn}), Writes, Risky(b))
    BY <2>1, PlanWhen
  <2>3. Plan(targets_youtrack(b), {Scan} \cup Only(~b.detail, {Warn}), Writes, Risky(b))
    BY <1>5, <2>2, PlanJoin DEF targets_youtrack
  <2> QED
    BY <1>5, <1>6, <2>3 DEF TargetsPlan, Only
<1> QED
  BY <1>3, <1>4, <1>7, <1>8, AskingPlans DEF list_targets, Conf, Board

LEMMA ValidatePlans ==
  ASSUME NEW b \in Conf
  PROVE  ReadingPlan(b, validate_connection(b))
<1>1. /\ Asking(b, <<Look>>) /\ Asking(b, <<HardLook>>) /\ Asking(b, <<Warn>>)
      /\ Asking(b, <<HardLook, HardLook>>)
      /\ Reading(b, << >>)
  BY AskingFacts
<1>2. /\ Reading(b, When(~b.detail, <<Warn>>)) /\ Reading(b, When(~b.option, <<Warn>>))
      /\ Reading(b, When(b.option, <<HardLook>>))
      /\ Reading(b, <<Warn>>) /\ Reading(b, <<Look>>)
  BY <1>1, AskingIsReading, ReadingWhen
<1>3. ASSUME NEW s, Reading(b, s) PROVE Asking(b, Checked(b, s))
  <2>1. Reading(b, IF b.option THEN s ELSE <<Warn>>)
    BY <1>2, <1>3
  <2> QED
    BY <1>1, <2>1, AskingJoin DEF Checked
<1>4. /\ Reading(b, <<HardLook>>) /\ Reading(b, <<HardLook, HardLook>>)
      /\ Reading(b, <<HardLook>> \o When(~b.detail, <<Warn>>))
  BY <1>1, <1>2, AskingIsReading, AskingJoin
<1>5. /\ Asking(b, validate_github(b)) /\ Asking(b, validate_clickup(b)) /\ Asking(b, validate_trello(b))
      /\ Asking(b, validate_kaiten(b)) /\ Asking(b, validate_jira(b)) /\ Asking(b, validate_asana(b))
      /\ Asking(b, validate_yandex_tracker(b))
  BY <1>3, <1>4 DEF validate_github, validate_clickup, validate_trello, validate_kaiten,
    validate_jira, validate_asana, validate_yandex_tracker
<1>6. Asking(b, validate_yougile(b))
  BY <1>1 DEF validate_yougile
<1>7. Asking(b, validate_weeek(b))
  <2>1. Asking(b, Checked(b, << >>)) /\ Reading(b, IF b.detail THEN <<Look>> ELSE <<Warn>>)
    BY <1>1, <1>2, <1>3
  <2> QED
    BY <2>1, AskingJoin DEF validate_weeek
<1>8. Asking(b, _resolve_team(b, <<Warn>>))
  BY <1>1, <1>2, AskingJoin DEF _resolve_team
<1>9. Asking(b, validate_linear(b)) /\ Asking(b, validate_youtrack(b))
  BY <1>1, <1>2, <1>8, AskingJoin, AskingIsReading DEF validate_linear, validate_youtrack
<1> QED
  BY <1>5, <1>6, <1>7, <1>9, AskingPlans DEF validate_connection, Conf, Board

-----------------------------------------------------------------------------
(* The invariant.                                                          *)

Later == {"fetch", "index", "pr_read", "pr_write", "returned"}
CallRecord ==
  [pc : {"idle", "read", "steps"} \cup Later, q : Query \cup {NoQuery}, seen : Contents,
   todo : Seq(StepRecord), found : BOOLEAN, listed : {"none", "part", "all"},
   did : SUBSET Part, warned : BOOLEAN, body : SUBSET Card, brief : BOOLEAN,
   task : {"failed", "added", "already_present"}, status : {"ok", "error"},
   retryable : BOOLEAN, sent : BOOLEAN, already : BOOLEAN, made : BOOLEAN, lost : BOOLEAN,
   calm : BOOLEAN, alone : BOOLEAN, fresh : BOOLEAN]

\* what a finished card is at board b
LinkedAt(b, q, v) == q.pr \in v.links \/ (b.board \in Marking /\ v.marked)
DoneAt(b, v) == IF b.board \in Flagged THEN v.closed ELSE v.place = "done"
MovedAt(b, q, v) ==
  q.target = "done" /\ (q.mark_done \/ b.board \in Flagged \ {"github"})
    => v.place = "done"
Meets(b, q, v) == LinkedAt(b, q, v) /\ MovedAt(b, q, v) /\ (q.mark_done => DoneAt(b, v))

\* writes D left card v as the call that read the card wants it, or further on
Reaches(b, r, D, v) ==
  /\ v.there
  /\ r.seen.links \subseteq v.links /\ ("link" \in D => r.q.pr \in v.links)
  /\ b.board \in Marking /\ (r.seen.marked \/ "link" \in D) => v.marked
  /\ r.seen.place = "done" \/ "place" \in D => v.place = "done"
  /\ r.seen.closed \/ "closed" \in D => v.closed

\* an error that asks to be repeated comes before the first write
Retries(r, b) ==
  /\ r.retryable => r.pc = "returned" /\ ~r.sent
  /\ r.pc = "read" => ~r.sent
  /\ r.pc = "steps" => IF r.sent THEN Parts(r.todo) \cap Risky(b) = {}
                       ELSE NoneAfter(r.todo, Writes, Risky(b))

\* what the connection check promises holds
UncheckedAt(b) ==
  \/ b.board \in {"trello", "jira"} /\ ~b.detail
  \/ b.board = "youtrack" /\ ~b.option
Promised(q, b) == q.op \in capabilities(b) /\ ~(UncheckedAt(b) /\ q.op = "create")
Works(r, q, b) ==
  Promised(q, b) =>
    /\ r.status = "error" => ~r.calm
    /\ r.pc = "steps" => /\ Parts(r.todo) \cap Halts = {}
                         /\ q.op = "create" => Parts(r.todo) \cap Scans = {}

\* a creation that fails made nothing
Certain(r, q, b) == q.op = "create" /\ ~r.lost /\ ~(b.board = "trello" /\ ~b.detail)
Creates(r, q, b) ==
  Certain(r, q, b) =>
    /\ r.status = "error" => ~r.made
    /\ r.pc = "steps" =>
         IF r.made THEN Parts(r.todo) \cap Stopping = {}
         ELSE NoneAfter(r.todo, Posts, Stopping)

\* a listing is complete, or says that it is not, or is not over
Complete(b) == b.board \in {"yougile", "youtrack"} => Scanned(b) = {"all"}
Lists(r, q, b) ==
  q.op = "targets" /\ r.pc # "idle" =>
    /\ r.pc \in {"steps", "returned"}
    /\ Complete(b) /\ r.status = "ok" =>
         r.listed = "all" \/ r.warned \/ (r.pc = "steps" /\ r.todo # << >>)
    /\ r.pc = "steps" =>
         \A x \in Parts(r.todo) : /\ x.op \in {"look", "scan", "warn"}
                                  /\ x.op = "scan" => b.board \in {"yougile", "youtrack"}

\* what is done and what is still to do are enough
Finishing(r, q, b) ==
  q.op = "finish" /\ r.pc = "steps" =>
    /\ Parts(r.todo) \cap (Posts \cup Scans) = {}
    /\ ~r.warned =>
         /\ r.found
         /\ \/ Parts(r.todo) \cap (Warns \cup Halts) # {}
            \/ Suffices(b, r, r.did \cup Puts(Parts(r.todo)))
    /\ b.board = "yougile" =>
         /\ LinkPresent(b, r) \/ "link" \in r.did \cup HardPuts(Parts(r.todo))
         /\ q.mark_done => r.seen.closed \/ "closed" \in r.did \cup HardPuts(Parts(r.todo))

\* the card is as the call believes, unless others wrote to it
OnTheBoard(r, q, b, v) ==
  q.op = "finish" /\ r.alone /\ r.status = "ok" =>
    /\ r.pc = "steps" => Reaches(b, r, r.did, v)
    /\ r.pc \in Later =>
         /\ v.there
         /\ ~r.warned => Meets(b, q, v)
         /\ r.already /\ (b.board = "youtrack" => ~r.warned) =>
              LinkedAt(b, q, v) /\ (q.mark_done => DoneAt(b, v))

AgentInv(r, q, b, v) ==
  /\ r \in CallRecord
  /\ r.pc # "idle" => r.q = q
  /\ r.pc # "returned" => r.status = "ok"
  /\ r.pc = "read" => q.op = "finish" /\ r.found /\ r.did = {}
  /\ Retries(r, b) /\ Works(r, q, b) /\ Creates(r, q, b) /\ Lists(r, q, b)
  /\ Finishing(r, q, b) /\ OnTheBoard(r, q, b, v)

Tables ==
  /\ conf \in Conf /\ job \in [Agent -> Query]
  /\ card \in [Card -> Contents] /\ prs \in [Pr -> SUBSET Card]
  /\ able \subseteq capabilities(conf)

Inv ==
  /\ Tables
  /\ DOMAIN call = Agent
  /\ \A c \in Agent : AgentInv(call[c], job[c], conf, card[job[c].card])

-----------------------------------------------------------------------------
(* The call of one agent.                                                  *)

LEMMA QuietFields ==
  ASSUME NEW q \in Query
  PROVE  LET r == [Quiet EXCEPT !.q = q]
         IN  /\ r \in CallRecord /\ r.q = q /\ r.pc = "idle" /\ r.status = "ok"
             /\ ~r.retryable /\ ~r.sent /\ ~r.made /\ ~r.lost /\ r.calm /\ r.found
             /\ ~r.warned /\ r.did = {} /\ r.alone /\ r.listed = "none"
BY EmptySeq DEF Quiet, CallRecord, Later, Contents, Absent, Part

LEMMA RaiseFields ==
  ASSUME NEW r \in CallRecord, NEW again \in BOOLEAN
  PROVE  LET e == Raise(r, again)
         IN  /\ e \in CallRecord /\ e.pc = "returned" /\ e.status = "error"
             /\ e.retryable = again /\ e.q = r.q /\ e.sent = r.sent /\ e.calm = r.calm
             /\ e.made = r.made /\ e.lost = r.lost
<1>1. Absent \in Contents /\ << >> \in Seq(StepRecord)
  BY EmptySeq DEF Absent, Contents
<1>2. /\ Forget(r) \in CallRecord
      /\ Forget(r).q = r.q /\ Forget(r).sent = r.sent /\ Forget(r).calm = r.calm
      /\ Forget(r).made = r.made /\ Forget(r).lost = r.lost
  BY <1>1 DEF Forget, CallRecord, Part
<1> QED
  BY <1>2 DEF Raise, Returned, CallRecord, Later

\* A call that ends with an error.
LEMMA RaiseTurn ==
  ASSUME NEW r \in CallRecord, NEW q \in Query, r.q = q, NEW again \in BOOLEAN, NEW b, NEW v,
         again => ~r.sent, Promised(q, b) => ~r.calm, Certain(r, q, b) => ~r.made
  PROVE  AgentInv(Raise(r, again), q, b, v)
<1> DEFINE e == Raise(r, again)
<1>1. /\ e \in CallRecord /\ e.pc = "returned" /\ e.status = "error"
      /\ e.retryable = again /\ e.q = r.q /\ e.sent = r.sent /\ e.calm = r.calm
      /\ e.made = r.made /\ e.lost = r.lost
  BY RaiseFields
<1> HIDE DEF e
<1>2. Retries(e, b) /\ Works(e, q, b) /\ Creates(e, q, b)
  BY <1>1 DEF Retries, Works, Creates, Certain
<1>3. Lists(e, q, b) /\ Finishing(e, q, b) /\ OnTheBoard(e, q, b, v)
  BY <1>1 DEF Lists, Finishing, OnTheBoard
<1>4. AgentInv(e, q, b, v)
  BY <1>1, <1>2, <1>3 DEF AgentInv
<1> QED
  BY <1>4 DEF e

\* Call r goes on to r1 by the first step of its list.
Passes(r, r1) ==
  /\ r1.pc = "steps" /\ r1.status = "ok" /\ ~r1.retryable /\ r1.q = r.q
  /\ r1.todo = Tail(r.todo) /\ (r.lost => r1.lost)

LEMMA OrderTurn ==
  ASSUME NEW r \in CallRecord, NEW r1 \in CallRecord, NEW q, NEW b,
         r.pc = "steps", r.todo # << >>, Passes(r, r1),
         r1.sent => r.sent \/ Head(r.todo) \in Writes,
         r1.made => r.made \/ Head(r.todo) \in Posts,
         r.sent => r1.sent, r.made => r1.made,
         Retries(r, b), Works(r, q, b), Creates(r, q, b)
  PROVE  Retries(r1, b) /\ Works(r1, q, b) /\ Creates(r1, q, b)
<1>1. r.todo \in Seq(StepRecord)
  BY DEF CallRecord
<1>2. /\ Head(r.todo) \in StepRecord /\ Head(r.todo) \in Parts(r.todo)
      /\ Tail(r.todo) \in Seq(StepRecord)
      /\ Parts(r.todo) = {Head(r.todo)} \cup Parts(Tail(r.todo))
  BY <1>1, PlanNext
<1>3. \A A, B : NoneAfter(r.todo, A, B) =>
          /\ NoneAfter(Tail(r.todo), A, B)
          /\ Head(r.todo) \in A => Parts(Tail(r.todo)) \cap B = {}
  BY <1>1, OrderNext
<1>4. Retries(r1, b)
  BY <1>2, <1>3 DEF Retries, Passes
<1>5. Works(r1, q, b)
  BY <1>2 DEF Works, Passes
<1>6. Creates(r1, q, b)
  <2>1. Certain(r1, q, b) => Certain(r, q, b)
    BY DEF Certain, Passes
  <2> QED
    BY <1>2, <1>3, <2>1 DEF Creates, Passes
<1> QED
  BY <1>4, <1>5, <1>6

\* what a step of finish does
Serves(r, r1) ==
  LET head == Head(r.todo) IN
  /\ r1.seen = r.seen /\ r.did \subseteq r1.did /\ (r.warned => r1.warned)
  /\ ~r1.warned => /\ r1.found /\ head \notin Warns \cup Halts
                   /\ head.op = "put" => \A w \in head.what :
                        w \in r1.did \/ (w = "place" /\ r.seen.place = "done")
  /\ head.op = "put" /\ head.hard => head.what \cap {"link", "closed"} \subseteq r1.did

LEMMA FinishTurn ==
  ASSUME NEW r \in CallRecord, NEW r1 \in CallRecord, NEW q, NEW b, q.op = "finish",
         r.pc = "steps", r.todo # << >>, Passes(r, r1), Serves(r, r1), Finishing(r, q, b)
  PROVE  Finishing(r1, q, b)
<1> DEFINE head == Head(r.todo)
           P == Parts(r.todo)
           T == Parts(Tail(r.todo))
<1>1. head \in StepRecord /\ P = {head} \cup T
  BY PlanNext DEF CallRecord
<1>2. /\ Puts(P) \subseteq Puts(T) \cup (IF head.op = "put" THEN head.what ELSE {})
      /\ HardPuts(P) \subseteq HardPuts(T) \cup (IF head.op = "put" /\ head.hard THEN head.what ELSE {})
  BY <1>1 DEF Puts, HardPuts
<1>3. /\ r1.todo = Tail(r.todo) /\ r1.q = r.q /\ r1.seen = r.seen /\ r.did \subseteq r1.did
      /\ ~r1.warned => ~r.warned /\ r1.found /\ head \notin Warns \cup Halts
      /\ ~r1.warned /\ head.op = "put" => \A w \in head.what :
           w \in r1.did \/ (w = "place" /\ r.seen.place = "done")
      /\ head.op = "put" /\ head.hard => head.what \cap {"link", "closed"} \subseteq r1.did
  BY DEF Passes, Serves
<1>4. /\ P \cap (Posts \cup Scans) = {}
      /\ ~r.warned =>
           \/ P \cap (Warns \cup Halts) # {}
           \/ Suffices(b, r, r.did \cup Puts(P))
      /\ b.board = "yougile" =>
           /\ LinkPresent(b, r) \/ "link" \in r.did \cup HardPuts(P)
           /\ q.mark_done => r.seen.closed \/ "closed" \in r.did \cup HardPuts(P)
  BY DEF Finishing
<1> HIDE DEF head, P, T
<1>5. T \cap (Posts \cup Scans) = {}
  BY <1>1, <1>4
<1>6. LinkPresent(b, r1) <=> LinkPresent(b, r)
  BY <1>3 DEF LinkPresent
<1>7. ASSUME ~r1.warned
      PROVE  T \cap (Warns \cup Halts) # {} \/ Suffices(b, r1, r1.did \cup Puts(T))
  <2>1. CASE P \cap (Warns \cup Halts) # {}
    BY <1>1, <1>3, <1>7, <2>1
  <2>2. CASE Suffices(b, r, r.did \cup Puts(P))
    <3>1. \A w \in r.did \cup Puts(P) : w \in r1.did \cup Puts(T) \/ (w = "place" /\ r1.seen.place = "done")
      BY <1>2, <1>3, <1>7
    <3> QED
      BY <1>3, <1>6, <2>2, <3>1 DEF Suffices
  <2> QED
    BY <1>3, <1>4, <1>7, <2>1, <2>2
<1>8. b.board = "yougile" =>
         /\ LinkPresent(b, r1) \/ "link" \in r1.did \cup HardPuts(T)
         /\ q.mark_done => r1.seen.closed \/ "closed" \in r1.did \cup HardPuts(T)
  <2>1. \A w \in {"link", "closed"} : w \in r.did \cup HardPuts(P) => w \in r1.did \cup HardPuts(T)
    BY <1>2, <1>3
  <2> QED
    BY <1>3, <1>4, <1>6, <2>1
<1> QED
  BY <1>3, <1>5, <1>7, <1>8 DEF Finishing, T

LEMMA PassTurn ==
  ASSUME NEW r, NEW r1 \in CallRecord, NEW q, NEW b, NEW v, NEW v1, AgentInv(r, q, b, v),
         r.pc = "steps", r.todo # << >>, Passes(r, r1),
         r1.sent => r.sent \/ Head(r.todo) \in Writes,
         r1.made => r.made \/ Head(r.todo) \in Posts,
         r.sent => r1.sent, r.made => r1.made,
         q.op = "targets" /\ Complete(b) => r1.listed = "all" \/ r1.warned,
         q.op = "finish" => Serves(r, r1),
         q.op = "finish" /\ r1.alone => Reaches(b, r1, r1.did, v1)
  PROVE  AgentInv(r1, q, b, v1)
<1>1. /\ r \in CallRecord /\ r.q = q
      /\ Retries(r, b) /\ Works(r, q, b) /\ Creates(r, q, b) /\ Lists(r, q, b) /\ Finishing(r, q, b)
  BY DEF AgentInv
<1>2. Retries(r1, b) /\ Works(r1, q, b) /\ Creates(r1, q, b)
  BY <1>1, OrderTurn
<1>3. Finishing(r1, q, b)
  BY <1>1, FinishTurn DEF Finishing
<1>4. Lists(r1, q, b)
  <2>1. Parts(Tail(r.todo)) \subseteq Parts(r.todo)
    BY <1>1, PlanNext DEF CallRecord
  <2> QED
    BY <1>1, <2>1 DEF Lists, Passes
<1>5. OnTheBoard(r1, q, b, v1)
  BY DEF OnTheBoard, Passes, Later
<1> QED
  BY <1>1, <1>2, <1>3, <1>4, <1>5 DEF AgentInv, Passes

\* A call of which others have written the card, or nobody.
LEMMA TouchedTurn ==
  ASSUME NEW r, NEW q \in Query, NEW b, NEW v, NEW v1, NEW k, AgentInv(r, q, b, v),
         q.card # k => v1 = v
  PROVE  AgentInv(Touched(r, k), q, b, v1)
<1>1. /\ r \in CallRecord /\ (r.pc # "idle" => r.q = q)
      /\ r.pc # "returned" => r.status = "ok"
      /\ r.pc = "read" => q.op = "finish" /\ r.found /\ r.did = {}
      /\ Retries(r, b) /\ Works(r, q, b) /\ Creates(r, q, b) /\ Lists(r, q, b)
      /\ Finishing(r, q, b) /\ OnTheBoard(r, q, b, v)
  BY DEF AgentInv
<1>2. CASE ~(r.pc # "idle" /\ r.q.card = k)
  <2>1. Touched(r, k) = r
    BY <1>2 DEF Touched
  <2>2. OnTheBoard(r, q, b, v1)
    BY <1>1, <1>2 DEF OnTheBoard, Later
  <2> QED
    BY <1>1, <2>1, <2>2 DEF AgentInv
<1>3. CASE r.pc # "idle" /\ r.q.card = k
  <2> DEFINE t == [r EXCEPT !.alone = FALSE, !.fresh = FALSE]
  <2>1. Touched(r, k) = t
    BY <1>3 DEF Touched
  <2>2. /\ t \in CallRecord /\ t.pc = r.pc /\ t.q = r.q /\ t.status = r.status /\ ~t.alone
        /\ t.retryable = r.retryable /\ t.sent = r.sent /\ t.todo = r.todo /\ t.calm = r.calm
        /\ t.lost = r.lost /\ t.made = r.made /\ t.listed = r.listed /\ t.warned = r.warned
        /\ t.found = r.found /\ t.did = r.did /\ t.seen = r.seen
    BY <1>1 DEF CallRecord
  <2> HIDE DEF t
  <2>3. Retries(t, b) /\ Works(t, q, b) /\ Creates(t, q, b) /\ Lists(t, q, b)
    BY <1>1, <2>2 DEF Retries, Works, Creates, Certain, Lists
  <2>4. Finishing(t, q, b)
    BY <1>1, <2>2 DEF Finishing, Suffices, LinkPresent
  <2>5. OnTheBoard(t, q, b, v1)
    BY <2>2 DEF OnTheBoard
  <2>6. AgentInv(t, q, b, v1)
    BY <1>1, <2>2, <2>3, <2>4, <2>5 DEF AgentInv
  <2> QED
    BY <2>1, <2>6
<1> QED
  BY <1>2, <1>3

\* An agent takes a step that nobody else notices.
LEMMA AloneTurn ==
  ASSUME Inv, NEW c \in Agent, NEW r1, call' = [call EXCEPT ![c] = r1],
         AgentInv(r1, job[c], conf, card'[job[c].card]),
         conf' = conf, job' = job, card' = card, Tables'
  PROVE  Inv'
<1>1. DOMAIN call = Agent /\ \A a \in Agent : AgentInv(call[a], job[a], conf, card[job[a].card])
  BY DEF Inv
<1>2. ASSUME NEW a \in Agent
      PROVE  AgentInv(call'[a], job'[a], conf', card'[job'[a].card])
  <2>1. call'[a] = IF a = c THEN r1 ELSE call[a]
    BY <1>1
  <2> QED
    BY <1>1, <2>1
<1> QED
  BY <1>1, <1>2 DEF Inv

LEMMA AgentFacts ==
  ASSUME Inv, NEW c \in Agent
  PROVE  /\ Tables /\ conf \in Conf /\ job[c] \in Query /\ job[c].card \in Card /\ job[c].pr \in Pr
         /\ card[job[c].card] \in Contents
         /\ AgentInv(call[c], job[c], conf, card[job[c].card])
         /\ call[c] \in CallRecord /\ (call[c].pc # "idle" => call[c].q = job[c])
         /\ call[c].pc # "returned" => call[c].status = "ok"
BY DEF Inv, Tables, AgentInv, Query

LEMMA QuietTurn ==
  ASSUME NEW q, NEW b, NEW v
  PROVE  AgentInv(Quiet, q, b, v)
<1>1. Quiet \in CallRecord /\ Quiet.pc = "idle" /\ Quiet.status = "ok" /\ ~Quiet.retryable
  BY EmptySeq DEF Quiet, CallRecord, Contents, Absent
<1> HIDE DEF Quiet
<1> QED
  BY <1>1 DEF AgentInv, Retries, Works, Creates, Lists, Finishing, OnTheBoard, Later

LEMMA StartTurn ==
  ASSUME Init PROVE Inv
<1>1. PICK x \in Cases : conf = x[1] /\ job = x[2]
  BY DEF Init
<1>2. conf \in Conf /\ job \in [Agent -> Query]
  BY <1>1, CallAssumption
<1>3. Tables
  <2>1. Fresh \in Contents /\ Absent \in Contents
    BY DEF Fresh, Absent, Contents
  <2> QED
    BY <1>2, <2>1 DEF Init, Tables
<1>4. ASSUME NEW c \in Agent
      PROVE  AgentInv(call[c], job[c], conf, card[job[c].card])
  BY QuietTurn DEF Init
<1> QED
  BY <1>3, <1>4 DEF Init, Inv

\* A call that is no finish begins its steps.
LEMMA EnterTurn ==
  ASSUME NEW r \in CallRecord, NEW q \in Query, NEW b \in Conf, NEW v, r.q = q,
         r.pc = "steps", r.status = "ok", ~r.retryable, ~r.sent, ~r.made,
         NEW P, Plan(r.todo, P, Writes, Risky(b)),
         q.op = "create" /\ ~(b.board = "trello" /\ ~b.detail) => Plan(r.todo, P, Posts, Stopping),
         Promised(q, b) => P \cap Halts = {} /\ (q.op = "create" => P \cap Scans = {}),
         q.op = "targets" => /\ P # {}
                             /\ \A x \in P : /\ x.op \in {"look", "scan", "warn"}
                                             /\ x.op = "scan" => b.board \in {"yougile", "youtrack"},
         q.op # "finish"
  PROVE  AgentInv(r, q, b, v)
<1>1. Parts(r.todo) = P /\ NoneAfter(r.todo, Writes, Risky(b))
  BY DEF Plan
<1>2. Retries(r, b) /\ Works(r, q, b) /\ Creates(r, q, b)
  BY <1>1 DEF Retries, Works, Creates, Certain, Plan
<1>3. Lists(r, q, b)
  <2>1. P # {} => r.todo # << >>
    BY <1>1 DEF Parts
  <2> QED
    BY <1>1, <2>1 DEF Lists
<1>4. Finishing(r, q, b) /\ OnTheBoard(r, q, b, v)
  BY DEF Finishing, OnTheBoard
<1> QED
  BY <1>2, <1>3, <1>4 DEF AgentInv

LEMMA BeginStep ==
  ASSUME Inv, NEW c \in Agent, Begin(c)
  PROVE  Inv'
<1> DEFINE q == job[c]
           b == conf
           v == card[job[c].card]
           r == [Quiet EXCEPT !.q = q]
<1>1. /\ Tables /\ b \in Conf /\ q \in Query
  BY AgentFacts
<1>2. /\ r \in CallRecord /\ r.q = q /\ r.pc = "idle" /\ r.status = "ok"
      /\ ~r.retryable /\ ~r.sent /\ ~r.made /\ ~r.lost /\ r.calm /\ r.found
      /\ ~r.warned /\ r.did = {} /\ r.alone /\ r.listed = "none"
  BY <1>1, QuietFields
<1>3. /\ \/ _require(q) /\ ~conf.option /\ Set(c, Raise(r, FALSE))
         \/ q.op = "finish" /\ Set(c, [r EXCEPT !.pc = "read"])
         \/ q.op = "create" /\ Set(c, [r EXCEPT !.pc = "steps", !.todo = create(conf, r)])
         \/ q.op = "targets" /\ Set(c, [r EXCEPT !.pc = "steps", !.todo = list_targets(conf)])
         \/ q.op = "validate" /\ Set(c, [r EXCEPT !.pc = "steps", !.todo = validate_connection(conf)])
      /\ UNCHANGED <<conf, job, card, prs, stored, able, spent>>
  BY <1>1 DEF Begin, Query, Op
<1>4. Tables' /\ conf' = conf /\ job' = job /\ card' = card
  BY <1>1, <1>3 DEF Tables
<1> HIDE DEF r
<1>5. ASSUME NEW r1, Set(c, r1), AgentInv(r1, q, b, v)
      PROVE  Inv'
  BY <1>4, <1>5, AloneTurn DEF Set
<1>6. CASE _require(q) /\ ~conf.option /\ Set(c, Raise(r, FALSE))
  <2>1. ~Promised(q, b)
    BY <1>6 DEF _require, Promised, capabilities, Only
  <2>2. AgentInv(Raise(r, FALSE), q, b, v)
    BY <1>1, <1>2, <2>1, RaiseTurn
  <2> QED
    BY <1>5, <1>6, <2>2
<1>7. CASE q.op = "finish" /\ Set(c, [r EXCEPT !.pc = "read"])
  <2> DEFINE r1 == [r EXCEPT !.pc = "read"]
  <2>1. /\ r1 \in CallRecord /\ r1.q = q /\ r1.pc = "read" /\ r1.status = "ok"
        /\ ~r1.retryable /\ ~r1.sent /\ r1.found /\ r1.did = {}
    BY <1>2 DEF CallRecord
  <2> HIDE DEF r1
  <2>2. AgentInv(r1, q, b, v)
    BY <1>7, <2>1 DEF AgentInv, Retries, Works, Creates, Certain, Lists, Finishing, OnTheBoard, Later
  <2> QED
    BY <1>5, <1>7, <2>2 DEF r1
<1>8. ASSUME NEW s \in Seq(StepRecord)
      PROVE  LET r1 == [r EXCEPT !.pc = "steps", !.todo = s]
             IN  /\ r1 \in CallRecord /\ r1.q = q /\ r1.pc = "steps" /\ r1.status = "ok"
                 /\ ~r1.retryable /\ ~r1.sent /\ ~r1.made /\ r1.todo = s
  BY <1>2 DEF CallRecord
<1>9. CASE q.op = "create" /\ Set(c, [r EXCEPT !.pc = "steps", !.todo = create(conf, r)])
  <2> DEFINE s == create(conf, r)
             r1 == [r EXCEPT !.pc = "steps", !.todo = s]
  <2>1. PICK P : /\ Plan(s, P, Writes, Risky(b))
                 /\ ~(b.board = "trello" /\ ~b.detail) => Plan(s, P, Posts, Stopping)
                 /\ P \cap Halts # {} => ~b.option \/ (b.board \in {"trello", "jira"} /\ ~b.detail)
                 /\ P \cap Scans # {} => b.board = "yougile"
    BY <1>1, CreatePlans DEF CreatePlan
  <2>2. s \in Seq(StepRecord)
    BY <2>1 DEF Plan
  <2>3. Promised(q, b) => P \cap Halts = {} /\ P \cap Scans = {}
    BY <1>9, <2>1 DEF Promised, UncheckedAt, capabilities, Only
  <2> HIDE DEF s
  <2>4. /\ r1 \in CallRecord /\ r1.q = q /\ r1.pc = "steps" /\ r1.status = "ok"
        /\ ~r1.retryable /\ ~r1.sent /\ ~r1.made /\ r1.todo = s
    BY <1>8, <2>2
  <2> HIDE DEF r1
  <2>5. AgentInv(r1, q, b, v)
    BY <1>1, <1>9, <2>1, <2>3, <2>4, EnterTurn
  <2> QED
    BY <1>5, <1>9, <2>5 DEF r1, s
<1>10. CASE q.op = "targets" /\ Set(c, [r EXCEPT !.pc = "steps", !.todo = list_targets(conf)])
  <2> DEFINE s == list_targets(conf)
             r1 == [r EXCEPT !.pc = "steps", !.todo = s]
  <2>1. PICK P : /\ P # {} /\ Plan(s, P, Writes, Risky(b)) /\ P \cap Halts = {}
                 /\ \A x \in P : /\ x.op \in {"look", "scan", "warn"}
                                 /\ x.op = "scan" => b.board \in {"yougile", "youtrack"}
    BY <1>1, TargetsPlans DEF TargetsPlan
  <2>2. s \in Seq(StepRecord)
    BY <2>1 DEF Plan
  <2> HIDE DEF s
  <2>4. /\ r1 \in CallRecord /\ r1.q = q /\ r1.pc = "steps" /\ r1.status = "ok"
        /\ ~r1.retryable /\ ~r1.sent /\ ~r1.made /\ r1.todo = s
    BY <1>8, <2>2
  <2> HIDE DEF r1
  <2>5. AgentInv(r1, q, b, v)
    BY <1>1, <1>10, <2>1, <2>4, EnterTurn
  <2> QED
    BY <1>5, <1>10, <2>5 DEF r1, s
<1>11. CASE q.op = "validate" /\ Set(c, [r EXCEPT !.pc = "steps", !.todo = validate_connection(conf)])
  <2> DEFINE s == validate_connection(conf)
             r1 == [r EXCEPT !.pc = "steps", !.todo = s]
  <2>1. PICK P : Plan(s, P, Writes, Risky(b)) /\ P \cap (Halts \cup Scans) = {}
    BY <1>1, ValidatePlans DEF ReadingPlan
  <2>2. s \in Seq(StepRecord)
    BY <2>1 DEF Plan
  <2> HIDE DEF s
  <2>4. /\ r1 \in CallRecord /\ r1.q = q /\ r1.pc = "steps" /\ r1.status = "ok"
        /\ ~r1.retryable /\ ~r1.sent /\ ~r1.made /\ r1.todo = s
    BY <1>8, <2>2
  <2> HIDE DEF r1
  <2>5. AgentInv(r1, q, b, v)
    BY <1>1, <1>11, <2>1, <2>4, EnterTurn
  <2> QED
    BY <1>5, <1>11, <2>5 DEF r1, s
<1> QED
  BY <1>3, <1>6, <1>7, <1>9, <1>10, <1>11

LEMMA ReadCardStep ==
  ASSUME Inv, NEW c \in Agent, ReadCard(c)
  PROVE  Inv'
<1> DEFINE q == job[c]
           b == conf
           v == card[job[c].card]
           o == call[c]
           r == [o EXCEPT !.seen = card[o.q.card], !.alone = TRUE]
<1>1. /\ Tables /\ b \in Conf /\ q \in Query /\ v \in Contents
      /\ o \in CallRecord /\ AgentInv(o, q, b, v)
  BY AgentFacts
<1>2. o.pc = "read" /\ o.q = q /\ o.status = "ok" /\ ~o.retryable /\ ~o.sent
      /\ q.op = "finish" /\ o.found /\ o.did = {}
  BY <1>1 DEF ReadCard, At, AgentInv, Retries
<1>3. /\ r \in CallRecord /\ r.q = q /\ r.pc = "read" /\ r.status = "ok" /\ ~r.retryable /\ ~r.sent
      /\ r.found /\ r.did = {} /\ r.seen = v /\ r.made = o.made
  BY <1>1, <1>2 DEF CallRecord
<1>4. /\ Set(c, IF r.seen.there THEN [r EXCEPT !.pc = "steps", !.todo = finish(conf, r)]
                ELSE [Raise(r, FALSE) EXCEPT !.calm = FALSE])
      /\ UNCHANGED <<conf, job, card, prs, stored, able, spent>>
  BY DEF ReadCard
<1>5. Tables' /\ conf' = conf /\ job' = job /\ card' = card
  BY <1>1, <1>4 DEF Tables
<1> HIDE DEF r, o
<1>6. ASSUME NEW r1, Set(c, r1), AgentInv(r1, q, b, v)
      PROVE  Inv'
  BY <1>5, <1>6, AloneTurn DEF Set
<1>7. CASE ~r.seen.there
  <2> DEFINE e == Raise(r, FALSE)
             r1 == [e EXCEPT !.calm = FALSE]
  <2>1. /\ e \in CallRecord /\ e.pc = "returned" /\ e.status = "error" /\ ~e.retryable /\ e.q = q
    BY <1>3, RaiseFields
  <2> HIDE DEF e
  <2>2. /\ r1 \in CallRecord /\ r1.pc = "returned" /\ r1.status = "error" /\ ~r1.retryable /\ r1.q = q
        /\ ~r1.calm
    BY <2>1 DEF CallRecord
  <2> HIDE DEF r1
  <2>3. AgentInv(r1, q, b, v)
    BY <1>2, <2>2 DEF AgentInv, Retries, Works, Creates, Certain, Lists, Finishing, OnTheBoard
  <2> QED
    BY <1>4, <1>6, <1>7, <2>3 DEF r1, e
<1>8. CASE r.seen.there
  <2> DEFINE s == finish(conf, r)
             r1 == [r EXCEPT !.pc = "steps", !.todo = s]
  <2>1. PICK P : Plan(s, P, Writes, Risky(b)) /\ FinishParts(b, r, P)
    BY <1>1, FinishPlans DEF FinishPlan
  <2>2. s \in Seq(StepRecord)
    BY <2>1 DEF Plan
  <2> HIDE DEF s
  <2>3. /\ r1 \in CallRecord /\ r1.q = q /\ r1.pc = "steps" /\ r1.status = "ok"
        /\ ~r1.retryable /\ ~r1.sent /\ r1.todo = s /\ r1.seen = v /\ r1.did = {} /\ r1.found
        /\ r1.made = r.made
    BY <1>3, <2>2 DEF CallRecord
  <2> HIDE DEF r1
  <2>4. FinishParts(b, r1, P)
    BY <1>3, <2>1, <2>3 DEF FinishParts, Suffices, LinkPresent
  <2>5. Reaches(b, r1, r1.did, v)
    BY <1>3, <1>8, <2>3 DEF Reaches
  <2>6. Promised(q, b) => P \cap Halts = {}
    BY <1>2, <2>1 DEF FinishParts, Promised, capabilities, Only
  <2>7. AgentInv(r1, q, b, v)
    <3>1. Parts(r1.todo) = P /\ NoneAfter(r1.todo, Writes, Risky(b))
      BY <2>1, <2>3 DEF Plan
    <3>2. Suffices(b, r1, Puts(P)) => Suffices(b, r1, r1.did \cup Puts(P))
      BY DEF Suffices
    <3>3. Finishing(r1, q, b)
      BY <2>3, <2>4, <3>1, <3>2 DEF Finishing, FinishParts
    <3>4. OnTheBoard(r1, q, b, v)
      BY <2>3, <2>5 DEF OnTheBoard, Later
    <3>5. Retries(r1, b) /\ Works(r1, q, b) /\ Creates(r1, q, b) /\ Lists(r1, q, b)
      BY <1>2, <2>3, <2>6, <3>1 DEF Retries, Works, Creates, Certain, Lists
    <3> QED
      BY <1>2, <2>3, <3>3, <3>4, <3>5 DEF AgentInv
  <2> QED
    BY <1>4, <1>6, <1>8, <2>7 DEF r1, s
<1> QED
  BY <1>7, <1>8

\* A call that has steps to take.
LEMMA WantsFacts ==
  ASSUME Inv, NEW c \in Agent, NEW S, c \in Wants(S)
  PROVE  LET r == call[c]
             head == Head(r.todo)
         IN  /\ r \in CallRecord /\ r.pc = "steps" /\ r.status = "ok" /\ r.q = job[c]
             /\ r.todo # << >> /\ r.todo \in Seq(StepRecord) /\ Tail(r.todo) \in Seq(StepRecord)
             /\ head \in StepRecord /\ head \in Parts(r.todo) /\ head.op \in S
             /\ ~r.retryable
<1>1. call[c] \in CallRecord /\ call[c].pc = "steps" /\ call[c].todo # << >>
      /\ Head(call[c].todo).op \in S
  BY AgentFacts DEF Wants, At
<1>2. call[c].todo \in Seq(StepRecord)
  BY <1>1 DEF CallRecord
<1> QED
  BY <1>1, <1>2, AgentFacts, PlanNext DEF AgentInv, Retries

LEMMA HardTurn ==
  ASSUME NEW r, NEW q \in Query, NEW b, NEW v, AgentInv(r, q, b, v), r.pc # "idle",
         ~r.sent, Certain(r, q, b) => ~r.made, NEW s \in HardFailure(r)
  PROVE  AgentInv(s, q, b, v)
<1>1. r \in CallRecord /\ r.q = q
  BY DEF AgentInv
<1> DEFINE f == [r EXCEPT !.calm = FALSE]
<1>2. /\ f \in CallRecord /\ f.q = q /\ ~f.calm /\ f.sent = r.sent /\ f.made = r.made /\ f.lost = r.lost
  BY <1>1 DEF CallRecord
<1>3. PICK again \in BOOLEAN : s = Raise(f, again)
  BY DEF HardFailure
<1> HIDE DEF f
<1>4. Certain(f, q, b) => ~f.made
  BY <1>2 DEF Certain
<1> QED
  BY <1>2, <1>3, <1>4, RaiseTurn

\* a step that may stop the call, or ask to be repeated, comes before the card
LEMMA HeadFacts ==
  ASSUME NEW r, NEW q, NEW b, NEW v, AgentInv(r, q, b, v), r.pc = "steps",
         NEW x \in Parts(r.todo)
  PROVE  /\ x \in Risky(b) => ~r.sent
         /\ x \in Stopping /\ Certain(r, q, b) => ~r.made
BY DEF AgentInv, Retries, Creates

LEMMA ReadCardFailsStep ==
  ASSUME Inv, NEW c \in Agent, ReadCardFails(c)
  PROVE  Inv'
<1>1. PICK s \in HardFailure(call[c]) : Set(c, s)
  BY DEF ReadCardFails
<1>2. /\ call[c].pc = "read" /\ AgentInv(call[c], job[c], conf, card[job[c].card])
      /\ job[c] \in Query /\ Tables
  BY AgentFacts DEF ReadCardFails, At
<1>3. ~call[c].sent /\ job[c].op = "finish"
  BY <1>2 DEF AgentInv, Retries
<1>4. AgentInv(s, job[c], conf, card[job[c].card])
  BY <1>2, <1>3, HardTurn DEF Certain
<1>5. Tables' /\ conf' = conf /\ job' = job /\ card' = card
  BY <1>2 DEF Tables, ReadCardFails
<1> QED
  BY <1>1, <1>4, <1>5, AloneTurn DEF Set

LEMMA LookUpStep ==
  ASSUME Inv, NEW c \in Agent, LookUp(c)
  PROVE  Inv'
<1> DEFINE q == job[c]
           b == conf
           v == card[job[c].card]
           r == call[c]
           t == Then(r)
           f == t.found /\ TargetKnown(conf, t)
           w == t.warned \/ Unresolved(t)
           r1 == [t EXCEPT !.found = f, !.listed = "all", !.warned = w]
<1>1. /\ Tables /\ b \in Conf /\ q \in Query /\ AgentInv(r, q, b, v)
  BY AgentFacts
<1>2. /\ r \in CallRecord /\ r.pc = "steps" /\ r.status = "ok" /\ r.q = q
      /\ r.todo # << >> /\ Tail(r.todo) \in Seq(StepRecord)
      /\ Head(r.todo) \in StepRecord /\ Head(r.todo).op \in {"look", "take"}
      /\ ~r.retryable
  BY WantsFacts DEF LookUp
<1>3. Set(c, r1) /\ Tables' /\ conf' = conf /\ job' = job /\ card' = card
  BY <1>1 DEF LookUp, Tables
<1>4. /\ t \in CallRecord /\ t.q = q /\ t.pc = "steps" /\ t.status = "ok" /\ ~t.retryable
      /\ t.todo = Tail(r.todo) /\ t.lost = r.lost /\ t.sent = r.sent /\ t.made = r.made
      /\ t.seen = r.seen /\ t.did = r.did /\ t.alone = r.alone /\ t.found = r.found /\ t.warned = r.warned
  BY <1>2 DEF Then, CallRecord
<1> HIDE DEF t
<1>5. /\ r1 \in CallRecord /\ r1.q = q /\ r1.pc = "steps" /\ r1.status = "ok" /\ ~r1.retryable
      /\ r1.todo = Tail(r.todo) /\ r1.lost = r.lost /\ r1.sent = r.sent /\ r1.made = r.made
      /\ r1.seen = r.seen /\ r1.did = r.did /\ r1.alone = r.alone /\ r1.listed = "all"
      /\ r1.found = f /\ r1.warned = w
  <2>1. f \in BOOLEAN /\ w \in BOOLEAN
    BY <1>4 DEF CallRecord
  <2> HIDE DEF f, w
  <2> QED
    BY <1>4, <2>1 DEF CallRecord
<1> HIDE DEF r1
<1>6. Passes(r, r1)
  BY <1>2, <1>5 DEF Passes
<1>7. q.op = "finish" => Serves(r, r1)
  <2> SUFFICES ASSUME q.op = "finish" PROVE Serves(r, r1)
    OBVIOUS
  <2>1. ~TargetKnown(conf, t) => Unresolved(t)
    BY <1>4 DEF Unresolved
  <2>2. ~r.warned => r.found
    BY <1>1, <1>2 DEF AgentInv, Finishing
  <2>3. Head(r.todo) \notin Warns \cup Halts
    BY <1>2 DEF Warns, Halts
  <2> QED
    BY <1>2, <1>4, <1>5, <2>1, <2>2, <2>3 DEF Serves
<1>8. q.op = "finish" /\ r1.alone => Reaches(b, r1, r1.did, v)
  BY <1>1, <1>2, <1>5 DEF AgentInv, OnTheBoard, Reaches
<1>9. AgentInv(r1, q, b, v)
  BY <1>1, <1>2, <1>5, <1>6, <1>7, <1>8, PassTurn
<1> QED
  BY <1>3, <1>9, AloneTurn DEF Set

\* A step that is passed over with a warning.
LEMMA WarnedTurn ==
  ASSUME NEW r, NEW q, NEW b, NEW v, AgentInv(r, q, b, v), r.pc = "steps", r.todo # << >>,
         NEW r1 \in CallRecord, Passes(r, r1), r1.warned,
         r1.sent => r.sent \/ Head(r.todo) \in Writes,
         r1.made => r.made \/ Head(r.todo) \in Posts,
         r.sent => r1.sent, r.made => r1.made,
         r1.seen = r.seen, r1.did = r.did, r1.alone = r.alone,
         Head(r.todo).op = "put" => ~Head(r.todo).hard,
         NEW v1, q.op = "finish" /\ Reaches(b, r, r.did, v) => Reaches(b, r, r.did, v1)
  PROVE  AgentInv(r1, q, b, v1)
<1>1. Serves(r, r1)
  BY DEF Serves
<1>2. q.op = "finish" /\ r1.alone => Reaches(b, r1, r1.did, v1)
  BY DEF AgentInv, OnTheBoard, Reaches, Passes
<1> QED
  BY <1>1, <1>2, PassTurn

LEMMA LookUpFailsStep ==
  ASSUME Inv, NEW c \in Agent, LookUpFails(c)
  PROVE  Inv'
<1> DEFINE q == job[c]
           b == conf
           v == card[job[c].card]
           r == call[c]
           soft == [Then(r) EXCEPT !.found = FALSE, !.warned = TRUE, !.calm = FALSE]
<1>1. /\ Tables /\ b \in Conf /\ q \in Query /\ AgentInv(r, q, b, v)
  BY AgentFacts
<1>2. /\ r \in CallRecord /\ r.pc = "steps" /\ r.status = "ok" /\ r.q = q
      /\ r.todo # << >> /\ Tail(r.todo) \in Seq(StepRecord)
      /\ Head(r.todo) \in StepRecord /\ Head(r.todo).op = "look"
      /\ Head(r.todo) \in Parts(r.todo) /\ ~r.retryable
  BY WantsFacts DEF LookUpFails
<1>3. Tables' /\ conf' = conf /\ job' = job /\ card' = card
  BY <1>1 DEF LookUpFails, Tables
<1>4. PICK s \in IF Head(r.todo).hard THEN HardFailure(r) ELSE {soft} : Set(c, s)
  BY DEF LookUpFails
<1>5. CASE Head(r.todo).hard
  <2>1. Head(r.todo) \in Risky(b) /\ Head(r.todo) \in Stopping
    BY <1>2, <1>5 DEF Risky, Hard, Stopping
  <2>2. AgentInv(s, q, b, v)
    BY <1>1, <1>2, <1>4, <1>5, <2>1, HeadFacts, HardTurn
  <2> QED
    BY <1>3, <1>4, <2>2, AloneTurn DEF Set
<1>6. CASE ~Head(r.todo).hard
  <2>1. s = soft
    BY <1>4, <1>6
  <2>2. /\ soft \in CallRecord /\ soft.q = q /\ soft.pc = "steps" /\ soft.status = "ok" /\ ~soft.retryable
        /\ soft.todo = Tail(r.todo) /\ soft.lost = r.lost /\ soft.sent = r.sent /\ soft.made = r.made
        /\ soft.seen = r.seen /\ soft.did = r.did /\ soft.alone = r.alone /\ soft.warned
    BY <1>2 DEF Then, CallRecord
  <2> HIDE DEF soft
  <2>3. Passes(r, soft)
    BY <1>2, <2>2 DEF Passes
  <2>4. AgentInv(soft, q, b, v)
    BY <1>1, <1>2, <2>2, <2>3, WarnedTurn
  <2> QED
    BY <1>3, <1>4, <2>1, <2>4, AloneTurn DEF Set
<1> QED
  BY <1>5, <1>6

LEMMA ScanBoardsStep ==
  ASSUME Inv, NEW c \in Agent, ScanBoards(c)
  PROVE  Inv'
<1> DEFINE q == job[c]
           b == conf
           v == card[job[c].card]
           r == call[c]
<1>1. /\ Tables /\ b \in Conf /\ q \in Query /\ AgentInv(r, q, b, v)
  BY AgentFacts
<1>2. /\ r \in CallRecord /\ r.pc = "steps" /\ r.status = "ok" /\ r.q = q
      /\ r.todo # << >> /\ Tail(r.todo) \in Seq(StepRecord)
      /\ Head(r.todo) \in StepRecord /\ Head(r.todo).op = "scan"
      /\ Head(r.todo) \in Parts(r.todo) /\ ~r.retryable
  BY WantsFacts DEF ScanBoards
<1>3. Tables' /\ conf' = conf /\ job' = job /\ card' = card
  BY <1>1 DEF ScanBoards, Tables
<1>4. Head(r.todo) \in Scans /\ Head(r.todo) \in Stopping
  BY <1>2 DEF Scans, Stopping
<1>5. q.op # "finish"
  BY <1>1, <1>2, <1>4 DEF AgentInv, Finishing
<1> DEFINE w == [r EXCEPT !.warned = TRUE, !.calm = FALSE]
<1>6. /\ w \in CallRecord /\ w.q = q /\ w.pc = "steps" /\ w.status = "ok" /\ ~w.retryable
      /\ w.todo = r.todo /\ w.lost = r.lost /\ w.sent = r.sent /\ w.made = r.made /\ w.warned
  BY <1>2 DEF CallRecord
<1>7. PICK o \in {r, w}, got \in {"none", "part", "all"} :
        /\ Set(c, AfterScan(o, got))
        /\ o = w \/ got \in Scanned(conf)
  BY DEF ScanBoards, Scanned, _columns_of_project, _discover_status_fields
<1> HIDE DEF w
<1>8. /\ o \in CallRecord /\ o.q = q /\ o.pc = "steps" /\ o.status = "ok" /\ ~o.retryable
      /\ o.todo = r.todo /\ o.lost = r.lost /\ o.sent = r.sent /\ o.made = r.made
      /\ o.warned \/ (o = r /\ got \in Scanned(conf))
  BY <1>2, <1>6, <1>7
<1>9. CASE got = "none" /\ o.q.op = "create"
  <2>1. AfterScan(o, got) = Raise(o, FALSE)
    BY <1>9 DEF AfterScan
  <2>2. ~Promised(q, b)
    BY <1>1, <1>2, <1>4, <1>8, <1>9 DEF AgentInv, Works
  <2>3. Certain(o, q, b) => ~o.made
    BY <1>1, <1>2, <1>4, <1>8, HeadFacts DEF Certain
  <2>4. AgentInv(Raise(o, FALSE), q, b, v)
    BY <1>1, <1>8, <2>2, <2>3, RaiseTurn
  <2> QED
    BY <1>3, <1>7, <2>1, <2>4, AloneTurn DEF Set
<1>10. CASE ~(got = "none" /\ o.q.op = "create")
  <2> DEFINE s == Then(o)
             f == got = "all" /\ TargetKnown(conf, o)
             x == s.warned \/ got = "none" \/ (Wanted(o) /\ ~(got = "all" /\ TargetKnown(conf, o)))
             r1 == [s EXCEPT !.listed = got, !.found = f, !.warned = x]
  <2>1. AfterScan(o, got) = r1
    BY <1>10 DEF AfterScan
  <2>2. /\ s \in CallRecord /\ s.q = q /\ s.pc = "steps" /\ s.status = "ok" /\ ~s.retryable
        /\ s.todo = Tail(r.todo) /\ s.lost = r.lost /\ s.sent = r.sent /\ s.made = r.made
        /\ s.warned = o.warned
    BY <1>2, <1>8 DEF Then, CallRecord
  <2> HIDE DEF s
  <2>3. /\ r1 \in CallRecord /\ r1.q = q /\ r1.pc = "steps" /\ r1.status = "ok" /\ ~r1.retryable
        /\ r1.todo = Tail(r.todo) /\ r1.lost = r.lost /\ r1.sent = r.sent /\ r1.made = r.made
        /\ r1.listed = got /\ (o.warned => r1.warned)
    <3>1. f \in BOOLEAN /\ x \in BOOLEAN /\ (o.warned => x)
      BY <2>2 DEF CallRecord
    <3> HIDE DEF f, x
    <3> QED
      BY <2>2, <3>1 DEF CallRecord
  <2> HIDE DEF r1
  <2>4. q.op = "targets" /\ Complete(b) => r1.listed = "all" \/ r1.warned
    <3>1. q.op = "targets" => b.board \in {"yougile", "youtrack"}
      BY <1>1, <1>2 DEF AgentInv, Lists
    <3> QED
      BY <1>8, <2>3, <3>1 DEF Complete
  <2>5. Passes(r, r1)
    BY <1>2, <2>3 DEF Passes
  <2>6. AgentInv(r1, q, b, v)
    BY <1>1, <1>2, <1>5, <2>3, <2>4, <2>5, PassTurn
  <2> QED
    BY <1>3, <1>7, <2>1, <2>6, AloneTurn DEF Set
<1> QED
  BY <1>9, <1>10

LEMMA RemarkStep ==
  ASSUME Inv, NEW c \in Agent, Remark(c)
  PROVE  Inv'
<1> DEFINE q == job[c]
           b == conf
           v == card[job[c].card]
           r == call[c]
           r1 == [Then(r) EXCEPT !.warned = TRUE]
<1>1. /\ Tables /\ b \in Conf /\ q \in Query /\ AgentInv(r, q, b, v)
  BY AgentFacts
<1>2. /\ r \in CallRecord /\ r.pc = "steps" /\ r.status = "ok" /\ r.q = q
      /\ r.todo # << >> /\ Tail(r.todo) \in Seq(StepRecord)
      /\ Head(r.todo).op = "warn" /\ ~r.retryable
  BY WantsFacts DEF Remark
<1>3. Set(c, r1) /\ Tables' /\ conf' = conf /\ job' = job /\ card' = card
  BY <1>1 DEF Remark, Tables
<1>4. /\ r1 \in CallRecord /\ r1.q = q /\ r1.pc = "steps" /\ r1.status = "ok" /\ ~r1.retryable
      /\ r1.todo = Tail(r.todo) /\ r1.lost = r.lost /\ r1.sent = r.sent /\ r1.made = r.made
      /\ r1.seen = r.seen /\ r1.did = r.did /\ r1.alone = r.alone /\ r1.warned
  BY <1>2 DEF Then, CallRecord
<1> HIDE DEF r1
<1>5. Passes(r, r1)
  BY <1>2, <1>4 DEF Passes
<1>6. AgentInv(r1, q, b, v)
  BY <1>1, <1>2, <1>4, <1>5, WarnedTurn
<1> QED
  BY <1>3, <1>6, AloneTurn DEF Set

LEMMA StopStep ==
  ASSUME Inv, NEW c \in Agent, Stop(c)
  PROVE  Inv'
<1> DEFINE q == job[c]
           b == conf
           v == card[job[c].card]
           r == call[c]
<1>1. /\ Tables /\ b \in Conf /\ q \in Query /\ AgentInv(r, q, b, v)
  BY AgentFacts
<1>2. /\ r \in CallRecord /\ r.pc = "steps" /\ r.q = q
      /\ Head(r.todo) \in StepRecord /\ Head(r.todo).op = "halt"
      /\ Head(r.todo) \in Parts(r.todo)
  BY WantsFacts DEF Stop
<1>3. Set(c, Raise(r, FALSE)) /\ Tables' /\ conf' = conf /\ job' = job /\ card' = card
  BY <1>1 DEF Stop, Tables
<1>4. Head(r.todo) \in Halts /\ Head(r.todo) \in Stopping
  BY <1>2 DEF Halts, Stopping
<1>5. ~Promised(q, b)
  BY <1>1, <1>2, <1>4 DEF AgentInv, Works
<1>6. Certain(r, q, b) => ~r.made
  BY <1>1, <1>2, <1>4, HeadFacts
<1>7. AgentInv(Raise(r, FALSE), q, b, v)
  BY <1>1, <1>2, <1>5, <1>6, RaiseTurn
<1> QED
  BY <1>3, <1>7, AloneTurn DEF Set

\* What the head of the list writes is reached by the write.
LEMMA WhatFacts ==
  ASSUME NEW r \in CallRecord, Head(r.todo) \in StepRecord
  PROVE  /\ What(r) \subseteq Head(r.todo).what /\ What(r) \subseteq Part
         /\ \A w \in Head(r.todo).what :
              w \in What(r) \/ (w = "place" /\ (~r.found \/ r.seen.place = "done"))
BY DEF What, StepRecord

LEMMA WrittenFields ==
  ASSUME NEW r \in CallRecord, NEW q \in Query, r.q = q, NEW v \in Contents
  PROVE  LET u == Written(r, v)
         IN  /\ u \in Contents /\ u.there = v.there
             /\ u.links = IF "link" \in What(r) THEN r.seen.links \cup {q.pr} ELSE v.links
             /\ u.marked = IF "link" \in What(r) THEN conf.board \in Marking ELSE v.marked
             /\ u.place = IF "place" \in What(r) THEN "done" ELSE v.place
             /\ u.closed <=> v.closed \/ "closed" \in What(r)
<1>1. r.seen.links \in SUBSET Pr /\ q.pr \in Pr /\ r.q.pr = q.pr
  BY DEF CallRecord, Contents, Query
<1> DEFINE L == IF "link" \in What(r) THEN r.seen.links \cup {r.q.pr} ELSE v.links
           M == IF "link" \in What(r) THEN conf.board \in Marking ELSE v.marked
           P == IF "place" \in What(r) THEN "done" ELSE v.place
           C == v.closed \/ "closed" \in What(r)
<1>2. L \in SUBSET Pr /\ M \in BOOLEAN /\ P \in {"todo", "done"} /\ C \in BOOLEAN
  <2>1. v.links \in SUBSET Pr /\ v.marked \in BOOLEAN /\ v.place \in {"todo", "done"} /\ v.closed \in BOOLEAN
    BY DEF Contents
  <2>2. r.seen.links \cup {r.q.pr} \in SUBSET Pr
    BY <1>1
  <2>3. L \in SUBSET Pr
    BY <2>1, <2>2
  <2>4. P \in {"todo", "done"}
    BY <2>1
  <2>5. C \in BOOLEAN
    OBVIOUS
  <2>6. (conf.board \in Marking) \in BOOLEAN
    OBVIOUS
  <2>7. M \in BOOLEAN
    <3> HIDE DEF Marking
    <3>1. CASE "link" \in What(r)
      BY <2>6, <3>1
    <3>2. CASE "link" \notin What(r)
      BY <2>1, <3>2
    <3> QED
      BY <3>1, <3>2
  <2> QED
    BY <2>3, <2>4, <2>5, <2>7
<1>3. Written(r, v) = [v EXCEPT !.links = L, !.marked = M, !.place = P, !.closed = C]
  BY DEF Written, Contents
<1> HIDE DEF L, M, P, C
<1>4. LET u == [v EXCEPT !.links = L, !.marked = M, !.place = P, !.closed = C]
      IN  /\ u \in Contents /\ u.there = v.there /\ u.links = L /\ u.marked = M
          /\ u.place = P /\ u.closed = C
  BY <1>2 DEF Contents
<1> QED
  BY <1>1, <1>3, <1>4 DEF L, M, P, C

LEMMA WriteReaches ==
  ASSUME NEW r \in CallRecord, NEW q \in Query, r.q = q, NEW v \in Contents,
         Head(r.todo) \in StepRecord, Reaches(conf, r, r.did, v)
  PROVE  /\ Reaches(conf, r, r.did, Written(r, v))
         /\ Reaches(conf, r, r.did \cup What(r), Written(r, v))
<1> DEFINE u == Written(r, v)
<1>1. /\ u.there = v.there
      /\ u.links = IF "link" \in What(r) THEN r.seen.links \cup {q.pr} ELSE v.links
      /\ u.marked = IF "link" \in What(r) THEN conf.board \in Marking ELSE v.marked
      /\ u.place = IF "place" \in What(r) THEN "done" ELSE v.place
      /\ u.closed <=> v.closed \/ "closed" \in What(r)
  BY WrittenFields
<1> HIDE DEF u
<1>2. Reaches(conf, r, r.did, u) /\ Reaches(conf, r, r.did \cup What(r), u)
  BY <1>1 DEF Reaches
<1> QED
  BY <1>2 DEF u

LEMMA NothingToWriteStep ==
  ASSUME Inv, NEW c \in Agent, NothingToWrite(c)
  PROVE  Inv'
<1> DEFINE q == job[c]
           b == conf
           v == card[job[c].card]
           r == call[c]
           r1 == Then(r)
<1>1. /\ Tables /\ b \in Conf /\ q \in Query /\ AgentInv(r, q, b, v)
  BY AgentFacts
<1>2. /\ r \in CallRecord /\ r.pc = "steps" /\ r.status = "ok" /\ r.q = q
      /\ r.todo # << >> /\ Tail(r.todo) \in Seq(StepRecord)
      /\ Head(r.todo) \in StepRecord /\ Head(r.todo).op = "put"
      /\ Head(r.todo) \in Parts(r.todo) /\ ~r.retryable
  BY WantsFacts DEF NothingToWrite
<1>3. Set(c, r1) /\ Tables' /\ conf' = conf /\ job' = job /\ card' = card
  BY <1>1 DEF NothingToWrite, Tables
<1>4. /\ r1 \in CallRecord /\ r1.q = q /\ r1.pc = "steps" /\ r1.status = "ok" /\ ~r1.retryable
      /\ r1.todo = Tail(r.todo) /\ r1.lost = r.lost /\ r1.sent = r.sent /\ r1.made = r.made
      /\ r1.seen = r.seen /\ r1.did = r.did /\ r1.alone = r.alone /\ r1.warned = r.warned
      /\ r1.found = r.found
  BY <1>2 DEF Then, CallRecord
<1> HIDE DEF r1
<1>5. Passes(r, r1)
  BY <1>2, <1>4 DEF Passes
<1>6. \A w \in Head(r.todo).what : w = "place" /\ (~r.found \/ r.seen.place = "done")
  BY <1>2, WhatFacts DEF NothingToWrite
<1>7. q.op = "finish" => Serves(r, r1)
  <2>1. q.op = "finish" /\ ~r.warned => r.found
    BY <1>1, <1>2 DEF AgentInv, Finishing
  <2>2. Head(r.todo) \notin Warns \cup Halts
    BY <1>2 DEF Warns, Halts
  <2> QED
    BY <1>4, <1>6, <2>1, <2>2 DEF Serves
<1>8. q.op = "finish" /\ r1.alone => Reaches(b, r1, r1.did, v)
  BY <1>1, <1>2, <1>4 DEF AgentInv, OnTheBoard, Reaches
<1>9. q.op # "targets"
  BY <1>1, <1>2 DEF AgentInv, Lists
<1>10. AgentInv(r1, q, b, v)
  BY <1>1, <1>2, <1>4, <1>5, <1>7, <1>8, <1>9, PassTurn
<1> QED
  BY <1>3, <1>10, AloneTurn DEF Set

\* An agent's write to its card is executed.
LEMMA WriterTurn ==
  ASSUME Inv, NEW c \in Agent, NEW k, k = job[c].card, call[c].q.card = k,
         NEW w \in Contents, card' = [card EXCEPT ![k] = w],
         NEW r1, After(c, r1, TRUE), r1.q.card = k, AgentInv(r1, job[c], conf, w),
         conf' = conf, job' = job, prs' = prs, able' = able
  PROVE  Inv'
<1>1. /\ Tables /\ DOMAIN call = Agent
      /\ \A a \in Agent : AgentInv(call[a], job[a], conf, card[job[a].card])
  BY DEF Inv
<1>2. card' \in [Card -> Contents] /\ \A x \in Card : card'[x] = IF x = k THEN w ELSE card[x]
  BY <1>1 DEF Tables
<1>3. Tables'
  BY <1>1, <1>2 DEF Tables
<1>4. \A a \in Agent : job[a] \in Query /\ job[a].card \in Card
  BY <1>1 DEF Tables, Query
<1>5. call' = [a \in Agent |-> IF a = c THEN r1 ELSE Touched(call[a], k)]
  BY DEF After
<1>6. ASSUME NEW a \in Agent
      PROVE  AgentInv(call'[a], job'[a], conf', card'[job'[a].card])
  <2>1. CASE a = c
    BY <1>2, <1>4, <1>5, <2>1
  <2>2. CASE a # c
    <3>1. AgentInv(call[a], job[a], conf, card[job[a].card])
      BY <1>1
    <3>2. job[a].card # k => card'[job[a].card] = card[job[a].card]
      BY <1>2, <1>4
    <3>3. AgentInv(Touched(call[a], k), job[a], conf, card'[job[a].card])
      BY <1>4, <3>1, <3>2, TouchedTurn
    <3> QED
      BY <1>5, <2>2, <3>3
  <2> QED
    BY <2>1, <2>2
<1> QED
  BY <1>3, <1>5, <1>6 DEF Inv

LEMMA WriteStep ==
  ASSUME Inv, NEW c \in Agent, Write(c)
  PROVE  Inv'
<1> DEFINE q == job[c]
           b == conf
           v == card[job[c].card]
           r == call[c]
           r1 == [Then(r) EXCEPT !.did = @ \cup What(r), !.sent = TRUE]
<1>1. /\ Tables /\ b \in Conf /\ q \in Query /\ AgentInv(r, q, b, v) /\ v \in Contents
      /\ q.card \in Card
  BY AgentFacts
<1>2. /\ r \in CallRecord /\ r.pc = "steps" /\ r.status = "ok" /\ r.q = q
      /\ r.todo # << >> /\ Tail(r.todo) \in Seq(StepRecord)
      /\ Head(r.todo) \in StepRecord /\ Head(r.todo).op = "put"
      /\ Head(r.todo) \in Parts(r.todo) /\ ~r.retryable
  BY WantsFacts DEF Write, Writing
<1>3. /\ card' = [card EXCEPT ![q.card] = Written(r, v)]
      /\ After(c, r1, TRUE)
      /\ conf' = conf /\ job' = job /\ prs' = prs /\ able' = able
  BY <1>1, <1>2 DEF Write, Execute, Tables
<1>4. What(r) \subseteq Part /\ \A w \in Head(r.todo).what :
         w \in What(r) \/ (w = "place" /\ (~r.found \/ r.seen.place = "done"))
  BY <1>2, WhatFacts
<1>5. /\ r1 \in CallRecord /\ r1.q = q /\ r1.pc = "steps" /\ r1.status = "ok" /\ ~r1.retryable
      /\ r1.todo = Tail(r.todo) /\ r1.lost = r.lost /\ r1.sent /\ r1.made = r.made
      /\ r1.seen = r.seen /\ r1.did = r.did \cup What(r) /\ r1.alone = r.alone
      /\ r1.warned = r.warned /\ r1.found = r.found
  BY <1>2, <1>4 DEF Then, CallRecord
<1> HIDE DEF r1
<1>6. Passes(r, r1)
  BY <1>2, <1>5 DEF Passes
<1>7. q.op = "finish" => Serves(r, r1)
  <2>1. q.op = "finish" /\ ~r.warned => r.found
    BY <1>1, <1>2 DEF AgentInv, Finishing
  <2>2. Head(r.todo) \notin Warns \cup Halts
    BY <1>2 DEF Warns, Halts
  <2> QED
    BY <1>4, <1>5, <2>1, <2>2 DEF Serves
<1>8. q.op = "finish" /\ r1.alone => Reaches(b, r1, r1.did, Written(r, v))
  <2> SUFFICES ASSUME q.op = "finish", r1.alone PROVE Reaches(b, r1, r1.did, Written(r, v))
    OBVIOUS
  <2>1. Reaches(b, r, r.did, v)
    BY <1>1, <1>2, <1>5 DEF AgentInv, OnTheBoard
  <2>2. Reaches(b, r, r.did \cup What(r), Written(r, v))
    BY <1>1, <1>2, <2>1, WriteReaches
  <2> QED
    BY <1>2, <1>5, <2>2 DEF Reaches
<1>9. q.op # "targets"
  BY <1>1, <1>2 DEF AgentInv, Lists
<1>10. Head(r.todo) \in Writes
  BY <1>2 DEF Writes
<1>11. AgentInv(r1, q, b, Written(r, v))
  BY <1>1, <1>2, <1>5, <1>6, <1>7, <1>8, <1>9, <1>10, PassTurn
<1>12. Written(r, v) \in Contents
  BY <1>1, <1>2, WrittenFields
<1> QED
  BY <1>2, <1>3, <1>5, <1>11, <1>12, WriterTurn

\* A call that is about to write.
AtWrite(r, q) ==
  /\ r.pc = "steps" /\ r.status = "ok" /\ r.q = q /\ r.todo # << >> /\ ~r.retryable
  /\ Tail(r.todo) \in Seq(StepRecord) /\ Head(r.todo) \in StepRecord
  /\ Head(r.todo) \in Parts(r.todo) /\ Head(r.todo).op \in {"put", "post"}

\* A creation whose answer is lost may be made.
Made(r) == [r EXCEPT !.made = TRUE]
IfMade(r, lost, s, q, b, v) ==
  lost /\ Head(r.todo).op = "post" => AgentInv(Made(s), q, b, v)

\* A write that fails, or whose answer is lost.
LEMMA FailTurn ==
  ASSUME NEW r, NEW q \in Query, NEW v, NEW v1, AgentInv(r, q, conf, v), AtWrite(r, q),
         NEW lost \in BOOLEAN, NEW s \in WriteFails(r, lost),
         q.op = "finish" /\ Reaches(conf, r, r.did, v) => Reaches(conf, r, r.did, v1)
  PROVE  /\ AgentInv(s, q, conf, v1) /\ s.q = q
         /\ IfMade(r, lost, s, q, conf, v1)
<1> DEFINE f == [r EXCEPT !.calm = FALSE, !.lost = @ \/ lost, !.sent = @ \/ lost]
           g == [Then(f) EXCEPT !.warned = TRUE]
<1>1. r \in CallRecord
  BY DEF AgentInv
<1> USE DEF AtWrite, IfMade
<1>2. /\ f \in CallRecord /\ f.q = q /\ f.pc = "steps" /\ f.status = "ok" /\ ~f.retryable
      /\ f.todo = r.todo /\ ~f.calm /\ (f.lost <=> r.lost \/ lost) /\ (f.sent <=> r.sent \/ lost)
      /\ f.made = r.made /\ f.seen = r.seen /\ f.did = r.did /\ f.alone = r.alone
  <2> DEFINE l == r.lost \/ lost
             n == r.sent \/ lost
  <2>1. l \in BOOLEAN /\ n \in BOOLEAN
    OBVIOUS
  <2>2. f = [r EXCEPT !.calm = FALSE, !.lost = l, !.sent = n]
    BY <1>1 DEF CallRecord
  <2> HIDE DEF l, n, f
  <2>3. /\ f \in CallRecord /\ f.q = q /\ f.pc = "steps" /\ f.status = "ok" /\ ~f.retryable
        /\ f.todo = r.todo /\ ~f.calm /\ f.lost = l /\ f.sent = n
        /\ f.made = r.made /\ f.seen = r.seen /\ f.did = r.did /\ f.alone = r.alone
    BY <1>1, <2>1, <2>2 DEF CallRecord
  <2> QED
    BY <2>3 DEF l, n
<1>3. IF Head(r.todo).hard
      THEN \E again \in BOOLEAN : s = Raise(f, again) /\ (again => conf.board = "linear" /\ ~lost)
      ELSE s = g
  BY DEF WriteFails
<1> HIDE DEF f
<1>4. Head(r.todo) \in Writes /\ (Head(r.todo).op = "post" => Head(r.todo) \in Posts)
  BY DEF Writes, Posts
<1>5. CASE Head(r.todo).hard
  <2>1. PICK again \in BOOLEAN : s = Raise(f, again) /\ (again => conf.board = "linear" /\ ~lost)
    BY <1>3, <1>5
  <2>2. again => ~f.sent
    <3>1. conf.board = "linear" => Head(r.todo) \in Risky(conf)
      BY <1>5 DEF Risky, Hard
    <3> QED
      BY <1>2, <2>1, <3>1, HeadFacts
  <2>3. Certain(f, q, conf) => ~f.made
    <3>1. Head(r.todo) \in Stopping
      BY <1>5 DEF Stopping
    <3>2. Certain(f, q, conf) => Certain(r, q, conf)
      BY <1>2 DEF Certain
    <3> QED
      BY <1>2, <3>1, <3>2, HeadFacts
  <2>4. AgentInv(s, q, conf, v1) /\ s.q = q
    BY <1>2, <2>1, <2>2, <2>3, RaiseTurn, RaiseFields
  <2>5. ASSUME lost PROVE AgentInv(Made(s), q, conf, v1)
    <3> DEFINE e == Made(s)
    <3>1. /\ s \in CallRecord /\ s.pc = "returned" /\ s.status = "error" /\ ~s.retryable
          /\ s.q = q /\ ~s.calm /\ s.lost
      BY <1>2, <2>1, <2>5, RaiseFields
    <3>2. /\ e \in CallRecord /\ e.pc = "returned" /\ e.status = "error" /\ ~e.retryable
          /\ e.q = q /\ ~e.calm /\ e.lost
      BY <3>1 DEF CallRecord, Made
    <3> HIDE DEF e
    <3>3. AgentInv(e, q, conf, v1)
      BY <3>2 DEF AgentInv, Retries, Works, Creates, Certain, Lists, Finishing, OnTheBoard
    <3> QED
      BY <3>3 DEF e
  <2> QED
    BY <2>4, <2>5
<1>6. CASE ~Head(r.todo).hard
  <2>1. s = g
    BY <1>3, <1>6
  <2>2. /\ g \in CallRecord /\ g.q = q /\ g.pc = "steps" /\ g.status = "ok" /\ ~g.retryable
        /\ g.todo = Tail(r.todo) /\ g.lost = f.lost /\ g.sent = f.sent /\ g.made = r.made
        /\ g.seen = r.seen /\ g.did = r.did /\ g.alone = r.alone /\ g.warned
    BY <1>2 DEF Then, CallRecord
  <2> HIDE DEF g
  <2>3. AgentInv(g, q, conf, v1)
    <3>1. Passes(r, g)
      BY <1>2, <2>2 DEF Passes
    <3> QED
      BY <1>2, <1>4, <1>6, <2>2, <3>1, WarnedTurn
  <2>4. ASSUME lost, Head(r.todo).op = "post"
        PROVE  AgentInv(Made(g), q, conf, v1)
    <3> DEFINE e == Made(g)
    <3>1. /\ e \in CallRecord /\ e.q = q /\ e.pc = "steps" /\ e.status = "ok" /\ ~e.retryable
          /\ e.todo = Tail(r.todo) /\ e.lost = f.lost /\ e.sent = f.sent /\ e.made
          /\ e.seen = r.seen /\ e.did = r.did /\ e.alone = r.alone /\ e.warned
      BY <2>2 DEF CallRecord, Made
    <3> HIDE DEF e
    <3>2. Passes(r, e)
      BY <1>2, <3>1 DEF Passes
    <3>3. AgentInv(e, q, conf, v1)
      BY <1>2, <1>4, <1>6, <2>4, <3>1, <3>2, WarnedTurn
    <3> QED
      BY <3>3 DEF e
  <2> QED
    BY <2>1, <2>2, <2>3, <2>4
<1> QED
  BY <1>5, <1>6

LEMMA RefusedStep ==
  ASSUME Inv, NEW c \in Agent, Refused(c)
  PROVE  Inv'
<1> DEFINE q == job[c]
           v == card[job[c].card]
           r == call[c]
<1>1. /\ Tables /\ q \in Query /\ AgentInv(r, q, conf, v)
  BY AgentFacts
<1>2. /\ r.pc = "steps" /\ r.status = "ok" /\ r.q = q
      /\ r.todo # << >> /\ Tail(r.todo) \in Seq(StepRecord)
      /\ Head(r.todo) \in StepRecord /\ Head(r.todo).op = "put"
      /\ Head(r.todo) \in Parts(r.todo) /\ ~r.retryable
      /\ AtWrite(r, q)
  BY WantsFacts DEF Refused, Writing, AtWrite
<1>0. PICK lost \in BOOLEAN : \E s \in WriteFails(r, lost) : Set(c, s)
  BY DEF Refused
<1>3. PICK s \in WriteFails(r, lost) : Set(c, s)
  BY <1>0
<1>4. Tables' /\ conf' = conf /\ job' = job /\ card' = card
  BY <1>1 DEF Refused, Tables
<1>5. AgentInv(s, q, conf, v)
  <2>1. /\ q \in Query /\ AgentInv(r, q, conf, v) /\ AtWrite(r, q)
        /\ lost \in BOOLEAN /\ s \in WriteFails(r, lost)
    BY <1>1, <1>2, <1>3
  <2> QED
    BY <2>1, FailTurn
<1> QED
  BY <1>3, <1>4, <1>5, AloneTurn DEF Set

LEMMA LostWriteStep ==
  ASSUME Inv, NEW c \in Agent, LostWrite(c)
  PROVE  Inv'
<1> DEFINE q == job[c]
           v == card[job[c].card]
           r == call[c]
<1>1. /\ Tables /\ q \in Query /\ AgentInv(r, q, conf, v) /\ v \in Contents /\ q.card \in Card
  BY AgentFacts
<1>2. /\ r \in CallRecord /\ r.pc = "steps" /\ r.status = "ok" /\ r.q = q
      /\ r.todo # << >> /\ Tail(r.todo) \in Seq(StepRecord)
      /\ Head(r.todo) \in StepRecord /\ Head(r.todo).op = "put"
      /\ Head(r.todo) \in Parts(r.todo) /\ ~r.retryable
      /\ AtWrite(r, q)
  BY WantsFacts DEF LostWrite, Writing, AtWrite
<1>0. PICK lost \in BOOLEAN : \E s \in WriteFails(r, lost) :
        \/ Execute(c) /\ After(c, s, TRUE)
        \/ Set(c, s) /\ UNCHANGED <<card, stored>>
  BY DEF LostWrite
<1>3. PICK s \in WriteFails(r, lost) :
        \/ Execute(c) /\ After(c, s, TRUE)
        \/ Set(c, s) /\ UNCHANGED <<card, stored>>
  BY <1>0
<1>4. conf' = conf /\ job' = job /\ prs' = prs /\ able' = able
  BY DEF LostWrite
<1>5. CASE Execute(c) /\ After(c, s, TRUE)
  <2>1. card' = [card EXCEPT ![q.card] = Written(r, v)]
    BY <1>1, <1>2, <1>5 DEF Execute, Tables
  <2>2. Reaches(conf, r, r.did, v) => Reaches(conf, r, r.did, Written(r, v))
    BY <1>1, <1>2, WriteReaches
  <2>3. AgentInv(s, q, conf, Written(r, v)) /\ s.q = q
    <3>1. /\ q \in Query /\ AgentInv(r, q, conf, v) /\ AtWrite(r, q)
          /\ lost \in BOOLEAN /\ s \in WriteFails(r, lost)
      BY <1>0, <1>1, <1>2, <1>3
    <3> QED
      BY <2>2, <3>1, FailTurn
  <2>4. Written(r, v) \in Contents
    BY <1>1, <1>2, WrittenFields
  <2> QED
    BY <1>2, <1>4, <1>5, <2>1, <2>3, <2>4, WriterTurn
<1>6. CASE Set(c, s) /\ UNCHANGED <<card, stored>>
  <2>1. Tables'
    BY <1>1, <1>4, <1>6 DEF Tables
  <2>2. AgentInv(s, q, conf, v)
    <3>1. /\ q \in Query /\ AgentInv(r, q, conf, v) /\ AtWrite(r, q)
          /\ lost \in BOOLEAN /\ s \in WriteFails(r, lost)
      BY <1>0, <1>1, <1>2, <1>3
    <3> QED
      BY <3>1, FailTurn
  <2> QED
    BY <1>4, <1>6, <2>1, <2>2, AloneTurn DEF Set
<1> QED
  BY <1>3, <1>5, <1>6

\* A card appears: no call that goes on believes in one that was not there.
LEMMA AbsentTurn ==
  ASSUME NEW r, NEW q, NEW b, NEW v, NEW v1, AgentInv(r, q, b, v), ~v.there
  PROVE  AgentInv(r, q, b, v1)
BY DEF AgentInv, OnTheBoard, Reaches

LEMMA CreatorTurn ==
  ASSUME Inv, NEW c \in Agent, NEW k, k = job[c].card, ~card[k].there,
         NEW w \in Contents, card' = [card EXCEPT ![k] = w],
         NEW r1, Set(c, r1), AgentInv(r1, job[c], conf, w),
         conf' = conf, job' = job, prs' = prs, able' = able
  PROVE  Inv'
<1>1. /\ Tables /\ DOMAIN call = Agent
      /\ \A a \in Agent : AgentInv(call[a], job[a], conf, card[job[a].card])
  BY DEF Inv
<1>2. card' \in [Card -> Contents] /\ \A x \in Card : card'[x] = IF x = k THEN w ELSE card[x]
  BY <1>1 DEF Tables
<1>3. Tables'
  BY <1>1, <1>2 DEF Tables
<1>4. \A a \in Agent : job[a].card \in Card
  BY <1>1 DEF Tables, Query
<1>5. DOMAIN call' = Agent /\ \A a \in Agent : call'[a] = IF a = c THEN r1 ELSE call[a]
  BY <1>1 DEF Set
<1>6. ASSUME NEW a \in Agent
      PROVE  AgentInv(call'[a], job'[a], conf', card'[job'[a].card])
  <2>1. CASE a = c
    BY <1>2, <1>4, <1>5, <2>1
  <2>2. CASE a # c
    <3>1. AgentInv(call[a], job[a], conf, card[job[a].card])
      BY <1>1
    <3>2. CASE job[a].card = k
      <4>1. AgentInv(call[a], job[a], conf, w)
        BY <3>1, <3>2, AbsentTurn
      <4> QED
        BY <1>2, <1>4, <1>5, <2>2, <3>2, <4>1
    <3>3. CASE job[a].card # k
      BY <1>2, <1>4, <1>5, <2>2, <3>1, <3>3
    <3> QED
      BY <3>2, <3>3
  <2> QED
    BY <2>1, <2>2
<1> QED
  BY <1>3, <1>5, <1>6 DEF Inv

LEMMA PostedFields ==
  ASSUME NEW r PROVE Posted(r) \in Contents
<1>1. Fresh \in Contents
  BY DEF Fresh, Absent, Contents
<1> DEFINE p == IF Head(r.todo).what # {} /\ Wanted(r) /\ r.found /\ r.q.target = "done"
                THEN "done" ELSE "todo"
<1>2. p \in {"todo", "done"}
  OBVIOUS
<1> HIDE DEF p
<1>3. [Fresh EXCEPT !.place = p] \in Contents
  BY <1>1, <1>2 DEF Contents
<1> QED
  BY <1>3 DEF Posted, p

\* A creation about to be made.
LEMMA PostingFacts ==
  ASSUME Inv, NEW c \in Agent, Posting(c)
  PROVE  LET r == call[c]
         IN  /\ r \in CallRecord /\ AtWrite(r, job[c]) /\ Head(r.todo) \in Posts /\ Head(r.todo) \in Writes
             /\ Head(r.todo).op = "post"
             /\ job[c].op \notin {"finish", "targets"} /\ ~card[job[c].card].there
<1>1. /\ call[c] \in CallRecord /\ AtWrite(call[c], job[c]) /\ Head(call[c].todo).op = "post"
  BY WantsFacts DEF Posting, AtWrite
<1>2. AgentInv(call[c], job[c], conf, card[job[c].card])
  BY AgentFacts
<1>3. Head(call[c].todo) \in Posts /\ Head(call[c].todo) \in Writes
  BY <1>1 DEF AtWrite, Posts, Writes
<1>4. job[c].op \notin {"finish", "targets"}
  BY <1>1, <1>2, <1>3 DEF AtWrite, AgentInv, Finishing, Lists
<1> QED
  BY <1>1, <1>3, <1>4 DEF Posting, AtWrite

LEMMA Post1Step ==
  ASSUME Inv, NEW c \in Agent, Post1(c)
  PROVE  Inv'
<1> DEFINE q == job[c]
           v == card[job[c].card]
           r == call[c]
           w == Posted(r)
           r1 == [Then(r) EXCEPT !.made = TRUE, !.sent = TRUE, !.found = TRUE,
                    !.alone = TRUE, !.seen = w]
<1>1. /\ q \in Query /\ AgentInv(r, q, conf, v) /\ q.card \in Card
  BY AgentFacts
<1>2. /\ r \in CallRecord /\ AtWrite(r, q) /\ Head(r.todo) \in Posts /\ Head(r.todo) \in Writes
      /\ q.op \notin {"finish", "targets"} /\ ~v.there
  BY PostingFacts DEF Post1
<1>3. w \in Contents
  BY PostedFields
<1>4. /\ card' = [card EXCEPT ![q.card] = w] /\ Set(c, r1)
      /\ conf' = conf /\ job' = job /\ prs' = prs /\ able' = able
  BY <1>2 DEF Post1, AtWrite
<1> HIDE DEF w
<1>5. /\ r1 \in CallRecord /\ r1.q = q /\ r1.pc = "steps" /\ r1.status = "ok" /\ ~r1.retryable
      /\ r1.todo = Tail(r.todo) /\ r1.lost = r.lost /\ r1.sent /\ r1.made
  BY <1>2, <1>3 DEF Then, CallRecord, AtWrite
<1> HIDE DEF r1
<1>6. Passes(r, r1)
  BY <1>2, <1>5 DEF Passes, AtWrite
<1>7. AgentInv(r1, q, conf, w)
  BY <1>1, <1>2, <1>5, <1>6, PassTurn DEF AtWrite
<1> QED
  BY <1>2, <1>3, <1>4, <1>7, CreatorTurn

LEMMA PostFailsStep ==
  ASSUME Inv, NEW c \in Agent, PostFails(c)
  PROVE  Inv'
<1> DEFINE q == job[c]
           v == card[job[c].card]
           r == call[c]
           w == Posted(r)
<1>1. /\ Tables /\ q \in Query /\ AgentInv(r, q, conf, v) /\ q.card \in Card
  BY AgentFacts
<1>2. /\ r \in CallRecord /\ AtWrite(r, q) /\ Head(r.todo).op = "post"
      /\ q.op \notin {"finish", "targets"} /\ ~v.there
  BY PostingFacts DEF PostFails
<1>3. w \in Contents
  BY PostedFields
<1>4. conf' = conf /\ job' = job /\ prs' = prs /\ able' = able
  BY DEF PostFails
<1>5. PICK lost \in BOOLEAN : \E s \in WriteFails(r, lost) :
        \/ Set(c, s) /\ UNCHANGED card
        \/ lost /\ Set(c, Made(s)) /\ card' = [card EXCEPT ![q.card] = w]
  BY <1>2 DEF PostFails, Made, AtWrite
<1>6. PICK s \in WriteFails(r, lost) :
        \/ Set(c, s) /\ UNCHANGED card
        \/ lost /\ Set(c, Made(s)) /\ card' = [card EXCEPT ![q.card] = w]
  BY <1>5
<1> HIDE DEF w
<1>7. /\ q \in Query /\ AgentInv(r, q, conf, v) /\ AtWrite(r, q)
      /\ lost \in BOOLEAN /\ s \in WriteFails(r, lost)
  BY <1>1, <1>2, <1>5, <1>6
<1>8. CASE Set(c, s) /\ UNCHANGED card
  <2>1. Tables'
    BY <1>1, <1>4, <1>8 DEF Tables
  <2>2. AgentInv(s, q, conf, v)
    BY <1>7, FailTurn
  <2> QED
    BY <1>4, <1>8, <2>1, <2>2, AloneTurn DEF Set
<1>9. CASE lost /\ Set(c, Made(s)) /\ card' = [card EXCEPT ![q.card] = w]
  <2>1. AgentInv(Made(s), q, conf, w)
    <3>1. q.op # "finish"
      BY <1>2
    <3>2. IfMade(r, lost, s, q, conf, w)
      BY <1>7, <3>1, FailTurn
    <3> QED
      BY <1>2, <1>9, <3>2 DEF IfMade
  <2> QED
    BY <1>2, <1>3, <1>4, <1>9, <2>1, CreatorTurn
<1> QED
  BY <1>6, <1>8, <1>9

\* A card that the writes of a call have reached is what the call asks for.
LEMMA ReachedIsMet ==
  ASSUME NEW b \in Conf, NEW r, NEW q \in Query, NEW v, r.q = q, r.pc = "steps", r.todo = << >>,
         q.op = "finish", Finishing(r, q, b), Reaches(b, r, r.did, v)
  PROVE  /\ ~r.warned => Meets(b, q, v)
         /\ already_closed(b, r) /\ (b.board = "youtrack" => ~r.warned) =>
              LinkedAt(b, q, v) /\ (q.mark_done => DoneAt(b, v))
<1>1. Parts(r.todo) = {} /\ Puts({}) = {} /\ HardPuts({}) = {}
  BY DEF Parts, Puts, HardPuts
<1>2. /\ ~r.warned => Suffices(b, r, r.did)
      /\ b.board = "yougile" => /\ LinkPresent(b, r) \/ "link" \in r.did
                                /\ q.mark_done => r.seen.closed \/ "closed" \in r.did
  BY <1>1 DEF Finishing
<1>3. /\ LinkPresent(b, r) \/ "link" \in r.did => LinkedAt(b, q, v)
      /\ r.seen.place = "done" \/ "place" \in r.did => v.place = "done"
      /\ r.seen.closed \/ "closed" \in r.did => v.closed
  BY DEF Reaches, LinkPresent, LinkedAt
<1>4. ASSUME ~r.warned PROVE Meets(b, q, v)
  BY <1>2, <1>3, <1>4 DEF Suffices, Meets, MovedAt, DoneAt
<1>5. ASSUME already_closed(b, r), b.board = "youtrack" => ~r.warned
      PROVE  LinkedAt(b, q, v) /\ (q.mark_done => DoneAt(b, v))
  <2>1. CASE b.board = "youtrack"
    BY <1>4, <1>5, <2>1 DEF Meets
  <2>2. CASE b.board = "yougile"
    BY <1>2, <1>3, <2>2 DEF DoneAt, Flagged
  <2>3. CASE b.board \notin {"yougile", "youtrack"}
    <3>1. LinkPresent(b, r) /\ (q.mark_done => DoneSeen(b, r))
      BY <1>5, <2>3 DEF already_closed
    <3>2. DoneSeen(b, r) => DoneAt(b, v)
      BY <1>3 DEF DoneSeen, DoneAt, Flagged, AtTarget
    <3> QED
      BY <1>3, <3>1, <3>2
  <2> QED
    BY <2>1, <2>2, <2>3
<1> QED
  BY <1>4, <1>5

LEMMA ForgetFields ==
  ASSUME NEW r \in CallRecord
  PROVE  LET f == Forget(r)
         IN  /\ f \in CallRecord /\ f.pc = r.pc /\ f.q = r.q /\ f.status = r.status
             /\ f.retryable = r.retryable /\ f.sent = r.sent /\ f.made = r.made /\ f.lost = r.lost
             /\ f.calm = r.calm /\ f.warned = r.warned /\ f.listed = r.listed
             /\ f.alone = r.alone /\ f.already = r.already /\ f.task = r.task
<1>1. Absent \in Contents /\ << >> \in Seq(StepRecord)
  BY EmptySeq DEF Absent, Contents
<1> QED
  BY <1>1 DEF Forget, CallRecord, Part

LEMMA ReturnedFields ==
  ASSUME NEW r \in CallRecord
  PROVE  LET f == Returned(r)
         IN  /\ f \in CallRecord /\ f.pc = "returned" /\ f.q = r.q /\ f.status = r.status
             /\ f.retryable = r.retryable /\ f.sent = r.sent /\ f.made = r.made /\ f.lost = r.lost
             /\ f.calm = r.calm /\ f.warned = r.warned /\ f.listed = r.listed
             /\ f.alone = r.alone /\ f.already = r.already
<1> DEFINE g == Forget(r)
<1>1. /\ g \in CallRecord /\ g.q = r.q /\ g.status = r.status
      /\ g.retryable = r.retryable /\ g.sent = r.sent /\ g.made = r.made /\ g.lost = r.lost
      /\ g.calm = r.calm /\ g.warned = r.warned /\ g.listed = r.listed
      /\ g.alone = r.alone /\ g.already = r.already
  BY ForgetFields
<1> HIDE DEF g
<1>2. Returned(r) = [g EXCEPT !.pc = "returned"]
  BY DEF Returned, g
<1> QED
  BY <1>1, <1>2 DEF CallRecord, Later

LEMMA AnsweredStep ==
  ASSUME Inv, NEW c \in Agent, Answered(c)
  PROVE  Inv'
<1> DEFINE q == job[c]
           v == card[job[c].card]
           r == call[c]
           a == r.q.op = "finish" /\ already_closed(conf, r)
           r1 == [Forget(r) EXCEPT !.pc = "fetch", !.already = a]
<1>1. /\ Tables /\ q \in Query /\ AgentInv(r, q, conf, v) /\ conf \in Conf
  BY AgentFacts
<1>2. /\ r \in CallRecord /\ r.pc = "steps" /\ r.todo = << >> /\ r.q = q
      /\ r.status = "ok" /\ ~r.retryable
  BY <1>1 DEF Answered, At, AgentInv, Retries
<1>3. /\ Set(c, IF r.q.op \in {"finish", "create"} THEN r1 ELSE Returned(r))
      /\ conf' = conf /\ job' = job /\ card' = card /\ prs' = prs
      /\ able' = able \/ able' = able \cup capabilities(conf)
  BY DEF Answered
<1>4. Tables'
  BY <1>1, <1>3 DEF Tables
<1>5. CASE q.op \in {"finish", "create"}
  <2> DEFINE f == Forget(r)
  <2>1. /\ f \in CallRecord /\ f.q = q /\ f.status = "ok" /\ ~f.retryable
        /\ f.warned = r.warned /\ f.alone = r.alone
    BY <1>2, ForgetFields
  <2>2. a \in BOOLEAN
    OBVIOUS
  <2> HIDE DEF f, a
  <2>3. r1 = [f EXCEPT !.pc = "fetch", !.already = a]
    BY DEF f
  <2> HIDE DEF r1
  <2>4. /\ r1 \in CallRecord /\ r1.pc = "fetch" /\ r1.q = q /\ r1.status = "ok" /\ ~r1.retryable
        /\ r1.warned = r.warned /\ r1.alone = r.alone /\ r1.already = a
    BY <2>1, <2>2, <2>3 DEF CallRecord, Later
  <2>5. ASSUME q.op = "finish", r.alone
        PROVE  /\ v.there
               /\ ~r.warned => Meets(conf, q, v)
               /\ a /\ (conf.board = "youtrack" => ~r.warned) =>
                    LinkedAt(conf, q, v) /\ (q.mark_done => DoneAt(conf, v))
    <3>1. Finishing(r, q, conf) /\ Reaches(conf, r, r.did, v)
      BY <1>1, <1>2, <2>5 DEF AgentInv, OnTheBoard
    <3>2. /\ ~r.warned => Meets(conf, q, v)
          /\ already_closed(conf, r) /\ (conf.board = "youtrack" => ~r.warned) =>
               LinkedAt(conf, q, v) /\ (q.mark_done => DoneAt(conf, v))
      BY <1>1, <1>2, <2>5, <3>1, ReachedIsMet
    <3>3. a => already_closed(conf, r)
      BY DEF a
    <3> QED
      BY <3>1, <3>2, <3>3 DEF Reaches
  <2>6. OnTheBoard(r1, q, conf, v)
    BY <2>4, <2>5 DEF OnTheBoard
  <2>7. AgentInv(r1, q, conf, v)
    BY <1>5, <2>4, <2>6 DEF AgentInv, Retries, Works, Creates, Lists, Finishing
  <2> QED
    BY <1>2, <1>3, <1>4, <1>5, <2>7, AloneTurn DEF Set
<1>6. CASE q.op \notin {"finish", "create"}
  <2> DEFINE f == Returned(r)
  <2>1. /\ f \in CallRecord /\ f.pc = "returned" /\ f.q = q /\ f.status = "ok" /\ ~f.retryable
        /\ f.warned = r.warned /\ f.listed = r.listed
    BY <1>2, ReturnedFields
  <2> HIDE DEF f
  <2>2. Lists(f, q, conf)
    BY <1>1, <1>2, <2>1 DEF AgentInv, Lists
  <2>3. AgentInv(f, q, conf, v)
    BY <1>6, <2>1, <2>2 DEF AgentInv, Retries, Works, Creates, Certain, Finishing, OnTheBoard
  <2> QED
    BY <1>2, <1>3, <1>4, <1>6, <2>3, AloneTurn DEF Set, f
<1> QED
  BY <1>5, <1>6

\* A call goes on after the board has answered: its card is as it was.
LEMMA LaterTurn ==
  ASSUME NEW r, NEW r1 \in CallRecord, NEW q, NEW b, NEW v, AgentInv(r, q, b, v),
         r.pc \in Later, r.pc # "returned", r1.pc \in Later, r1.q = q, r1.status = "ok", ~r1.retryable,
         r.warned => r1.warned, r1.alone = r.alone, r1.already = r.already
  PROVE  AgentInv(r1, q, b, v)
<1>1. /\ r.status = "ok" /\ Lists(r, q, b) /\ OnTheBoard(r, q, b, v)
  BY DEF AgentInv
<1>2. q.op # "targets"
  BY <1>1 DEF Lists, Later
<1>3. OnTheBoard(r1, q, b, v)
  BY <1>1 DEF OnTheBoard, Later
<1> QED
  BY <1>2, <1>3 DEF AgentInv, Retries, Works, Creates, Lists, Finishing, Later

\* An agent goes on after the board has answered.
LEMMA LaterStep ==
  ASSUME Inv, NEW c \in Agent, call[c].pc \in Later, call[c].pc # "returned",
         NEW r1 \in CallRecord, Set(c, r1), r1.pc \in Later, r1.q = call[c].q,
         r1.status = call[c].status, r1.retryable = call[c].retryable,
         call[c].warned => r1.warned, r1.alone = call[c].alone, r1.already = call[c].already,
         conf' = conf, job' = job, card' = card, able' = able, prs' \in [Pr -> SUBSET Card]
  PROVE  Inv'
<1> DEFINE q == job[c]
           v == card[job[c].card]
           r == call[c]
<1>1. /\ Tables /\ AgentInv(r, q, conf, v)
  BY AgentFacts
<1>2. r.q = q /\ r.status = "ok" /\ ~r.retryable
  BY <1>1 DEF AgentInv, Retries, Later
<1>3. AgentInv(r1, q, conf, v)
  BY <1>1, <1>2, LaterTurn
<1>4. Tables'
  BY <1>1 DEF Tables
<1> QED
  BY <1>3, <1>4, AloneTurn DEF Set

LEMMA NoBriefFields ==
  ASSUME NEW r \in CallRecord
  PROVE  LET f == NoBrief(r)
         IN  /\ f \in CallRecord /\ f.pc = "returned" /\ f.q = r.q /\ f.status = r.status
             /\ f.retryable = r.retryable /\ (r.warned => f.warned)
             /\ f.alone = r.alone /\ f.already = r.already
<1> DEFINE w == r.warned \/ r.q.op = "finish"
           g == [r EXCEPT !.warned = w]
<1>1. w \in BOOLEAN /\ (r.warned => w)
  OBVIOUS
<1>2. NoBrief(r) = Returned(g)
  BY DEF NoBrief, CallRecord
<1> HIDE DEF w
<1>3. /\ g \in CallRecord /\ g.q = r.q /\ g.status = r.status /\ g.retryable = r.retryable
      /\ g.warned = w /\ g.alone = r.alone /\ g.already = r.already
  BY <1>1 DEF CallRecord
<1> HIDE DEF g
<1> QED
  BY <1>1, <1>2, <1>3, ReturnedFields

LEMMA FetchStep ==
  ASSUME Inv, NEW c \in Agent, Fetch(c)
  PROVE  Inv'
<1> DEFINE r == call[c]
           i == [r EXCEPT !.pc = "index", !.fresh = TRUE]
           f == [r EXCEPT !.calm = FALSE]
<1>1. /\ r \in CallRecord /\ r.pc = "fetch" /\ prs \in [Pr -> SUBSET Card]
  BY AgentFacts DEF Fetch, At, Tables
<1>2. /\ Set(c, i) \/ Set(c, NoBrief(r)) \/ Set(c, NoBrief(f))
      /\ UNCHANGED <<conf, job, card, prs, able>>
  BY DEF Fetch
<1>3. /\ i \in CallRecord /\ i.pc = "index" /\ i.q = r.q /\ i.status = r.status
      /\ i.retryable = r.retryable /\ i.warned = r.warned /\ i.alone = r.alone
      /\ i.already = r.already
  BY <1>1 DEF CallRecord, Later
<1>4. /\ f \in CallRecord /\ f.q = r.q /\ f.status = r.status
      /\ f.retryable = r.retryable /\ f.warned = r.warned /\ f.alone = r.alone
      /\ f.already = r.already
  BY <1>1 DEF CallRecord
<1> HIDE DEF i, f
<1>5. CASE Set(c, i)
  BY <1>1, <1>2, <1>3, <1>5, LaterStep DEF Later
<1>6. ASSUME NEW g \in {r, f}, Set(c, NoBrief(g)) PROVE Inv'
  <2>1. LET n == NoBrief(g)
        IN  /\ n \in CallRecord /\ n.pc = "returned" /\ n.q = r.q /\ n.status = r.status
            /\ n.retryable = r.retryable /\ (r.warned => n.warned)
            /\ n.alone = r.alone /\ n.already = r.already
    BY <1>1, <1>4, NoBriefFields
  <2> QED
    BY <1>1, <1>2, <1>6, <2>1, LaterStep DEF Later
<1> QED
  BY <1>2, <1>5, <1>6

LEMMA IndexStep ==
  ASSUME Inv, NEW c \in Agent, Index(c)
  PROVE  Inv'
<1> DEFINE o == call[c]
           r == [o EXCEPT !.brief = TRUE]
           n == IF r.q.op = "finish" THEN [r EXCEPT !.pc = "pr_read"] ELSE Returned(r)
           m == [n EXCEPT !.calm = FALSE]
<1>1. /\ o \in CallRecord /\ o.pc = "index" /\ prs \in [Pr -> SUBSET Card]
  BY AgentFacts DEF Index, At, Tables
<1>2. /\ Set(c, n) \/ Set(c, m)
      /\ UNCHANGED <<conf, job, card, prs, able>>
  BY DEF Index
<1>3. /\ r \in CallRecord /\ r.q = o.q /\ r.status = o.status
      /\ r.retryable = o.retryable /\ r.warned = o.warned /\ r.alone = o.alone
      /\ r.already = o.already
  BY <1>1 DEF CallRecord
<1> HIDE DEF r
<1>4. /\ n \in CallRecord /\ n.pc \in Later /\ n.q = o.q /\ n.status = o.status
      /\ n.retryable = o.retryable /\ n.warned = o.warned /\ n.alone = o.alone
      /\ n.already = o.already
  <2>1. CASE r.q.op = "finish"
    BY <1>3, <2>1 DEF CallRecord, Later
  <2>2. CASE r.q.op # "finish"
    BY <1>3, <2>2, ReturnedFields DEF Later
  <2> QED
    BY <2>1, <2>2
<1> HIDE DEF n
<1>5. /\ m \in CallRecord /\ m.pc \in Later /\ m.q = o.q /\ m.status = o.status
      /\ m.retryable = o.retryable /\ m.warned = o.warned /\ m.alone = o.alone
      /\ m.already = o.already
  BY <1>4 DEF CallRecord
<1> HIDE DEF m
<1> QED
  BY <1>1, <1>2, <1>4, <1>5, LaterStep DEF Later

LEMMA NoBacklinkFields ==
  ASSUME NEW r \in CallRecord
  PROVE  LET f == NoBacklink(r)
         IN  /\ f \in CallRecord /\ f.pc = "returned" /\ f.q = r.q /\ f.status = r.status
             /\ f.retryable = r.retryable /\ f.warned
             /\ f.alone = r.alone /\ f.already = r.already
<1> DEFINE g == [r EXCEPT !.warned = TRUE, !.calm = FALSE]
<1>1. /\ g \in CallRecord /\ g.q = r.q /\ g.status = r.status /\ g.retryable = r.retryable
      /\ g.warned /\ g.alone = r.alone /\ g.already = r.already
  BY DEF CallRecord
<1>2. NoBacklink(r) = Returned(g)
  BY DEF NoBacklink
<1> HIDE DEF g
<1> QED
  BY <1>1, <1>2, ReturnedFields

LEMMA ReadPrStep ==
  ASSUME Inv, NEW c \in Agent, ReadPr(c)
  PROVE  Inv'
<1> DEFINE o == call[c]
           r == [o EXCEPT !.body = prs[o.q.pr]]
           w == [r EXCEPT !.pc = "pr_write"]
           p == [r EXCEPT !.task = "already_present"]
<1>1. /\ o \in CallRecord /\ o.pc = "pr_read" /\ prs \in [Pr -> SUBSET Card] /\ o.q.pr \in Pr
  BY AgentFacts DEF ReadPr, At, Tables
<1>2. /\ Set(c, w) \/ Set(c, Returned(p)) \/ Set(c, NoBacklink(o))
      /\ UNCHANGED <<conf, job, card, prs, able>>
  BY DEF ReadPr
<1>3. /\ r \in CallRecord /\ r.q = o.q /\ r.status = o.status
      /\ r.retryable = o.retryable /\ r.warned = o.warned /\ r.alone = o.alone
      /\ r.already = o.already
  <2>1. prs[o.q.pr] \in SUBSET Card
    BY <1>1
  <2> QED
    BY <1>1, <2>1 DEF CallRecord
<1> HIDE DEF r
<1>4. /\ w \in CallRecord /\ w.pc = "pr_write" /\ w.q = o.q /\ w.status = o.status
      /\ w.retryable = o.retryable /\ w.warned = o.warned /\ w.alone = o.alone
      /\ w.already = o.already
  BY <1>3 DEF CallRecord, Later
<1>5. /\ p \in CallRecord /\ p.q = o.q /\ p.status = o.status
      /\ p.retryable = o.retryable /\ p.warned = o.warned /\ p.alone = o.alone
      /\ p.already = o.already
  BY <1>3 DEF CallRecord
<1> HIDE DEF w, p
<1>6. CASE Set(c, w)
  BY <1>1, <1>2, <1>4, <1>6, LaterStep DEF Later
<1>7. CASE Set(c, Returned(p))
  <2>1. LET f == Returned(p)
        IN  /\ f \in CallRecord /\ f.pc = "returned" /\ f.q = o.q /\ f.status = o.status
            /\ f.retryable = o.retryable /\ f.warned = o.warned
            /\ f.alone = o.alone /\ f.already = o.already
    BY <1>5, ReturnedFields
  <2> QED
    BY <1>1, <1>2, <1>7, <2>1, LaterStep DEF Later
<1>8. CASE Set(c, NoBacklink(o))
  BY <1>1, <1>2, <1>8, NoBacklinkFields, LaterStep DEF Later
<1> QED
  BY <1>2, <1>6, <1>7, <1>8

LEMMA WritePrStep ==
  ASSUME Inv, NEW c \in Agent, WritePr(c)
  PROVE  Inv'
<1> DEFINE r == call[c]
           p == [r EXCEPT !.task = "added"]
<1>1. /\ r \in CallRecord /\ r.pc = "pr_write" /\ prs \in [Pr -> SUBSET Card]
      /\ r.q.pr \in Pr /\ r.q.card \in Card
  BY AgentFacts DEF WritePr, At, Tables
<1>2. /\ Set(c, Returned(p)) \/ Set(c, NoBacklink(r))
      /\ prs' = prs \/ prs' = [prs EXCEPT ![r.q.pr] = r.body \cup {r.q.card}]
      /\ UNCHANGED <<conf, job, card, able>>
  BY DEF WritePr
<1>3. prs' \in [Pr -> SUBSET Card]
  <2>1. r.body \cup {r.q.card} \in SUBSET Card
    BY <1>1 DEF CallRecord
  <2> QED
    BY <1>1, <1>2, <2>1
<1>4. /\ p \in CallRecord /\ p.q = r.q /\ p.status = r.status
      /\ p.retryable = r.retryable /\ p.warned = r.warned /\ p.alone = r.alone
      /\ p.already = r.already
  BY <1>1 DEF CallRecord
<1> HIDE DEF p
<1>5. CASE Set(c, Returned(p))
  <2>1. LET f == Returned(p)
        IN  /\ f \in CallRecord /\ f.pc = "returned" /\ f.q = r.q /\ f.status = r.status
            /\ f.retryable = r.retryable /\ f.warned = r.warned
            /\ f.alone = r.alone /\ f.already = r.already
    BY <1>4, ReturnedFields
  <2> QED
    BY <1>1, <1>2, <1>3, <1>5, <2>1, LaterStep DEF Later
<1>6. CASE Set(c, NoBacklink(r))
  BY <1>1, <1>2, <1>3, <1>6, NoBacklinkFields, LaterStep DEF Later
<1> QED
  BY <1>2, <1>5, <1>6

LEMMA DoneStep ==
  ASSUME Inv, NEW c \in Agent, Done(c)
  PROVE  Inv'
<1>1. Tables
  BY DEF Inv
<1>2. Set(c, Quiet) /\ Tables' /\ conf' = conf /\ job' = job /\ card' = card
  BY <1>1 DEF Done, Tables
<1>3. AgentInv(Quiet, job[c], conf, card[job[c].card])
  BY QuietTurn
<1> QED
  BY <1>2, <1>3, AloneTurn DEF Set

LEMMA StepInStep ==
  ASSUME Inv, NEW k \in Card, NEW kind \in PeopleKind, StepIn(k, kind)
  PROVE  Inv'
<1> DEFINE w == PersonDoes(kind, card[k])
<1>1. /\ Tables /\ DOMAIN call = Agent
      /\ \A a \in Agent : AgentInv(call[a], job[a], conf, card[job[a].card])
  BY DEF Inv
<1>2. w \in Contents
  <2>1. card[k] \in Contents /\ Absent \in Contents
    BY <1>1 DEF Tables, Absent, Contents
  <2>2. /\ [card[k] EXCEPT !.place = "todo", !.closed = FALSE] \in Contents
        /\ [card[k] EXCEPT !.links = {}, !.marked = FALSE] \in Contents
    BY <2>1 DEF Contents
  <2> QED
    BY <2>1, <2>2 DEF PersonDoes, PeopleKind
<1>3. /\ card' = [card EXCEPT ![k] = w]
      /\ call' = [c \in Agent |-> Touched(call[c], k)]
      /\ UNCHANGED <<conf, job, prs, able>>
  BY <1>1 DEF StepIn, Tables
<1> HIDE DEF w
<1>4. card' \in [Card -> Contents] /\ \A x \in Card : x # k => card'[x] = card[x]
  BY <1>1, <1>2, <1>3 DEF Tables
<1>5. Tables'
  BY <1>1, <1>3, <1>4 DEF Tables
<1>6. ASSUME NEW a \in Agent
      PROVE  AgentInv(call'[a], job'[a], conf', card'[job'[a].card])
  <2>1. job[a] \in Query /\ job[a].card \in Card
    BY <1>1 DEF Tables, Query
  <2>2. job[a].card # k => card'[job[a].card] = card[job[a].card]
    BY <1>4, <2>1
  <2>3. AgentInv(Touched(call[a], k), job[a], conf, card'[job[a].card])
    BY <1>1, <2>1, <2>2, TouchedTurn
  <2> QED
    BY <1>3, <2>3
<1> QED
  BY <1>3, <1>5, <1>6 DEF Inv

LEMMA StepKeepsInv ==
  ASSUME Inv, [Next]_vars
  PROVE  Inv'
<1>1. CASE UNCHANGED vars
  BY <1>1 DEF vars, Inv, Tables
<1>2. ASSUME NEW c \in Agent, Begin(c) PROVE Inv'
  BY <1>2, BeginStep
<1>3. ASSUME NEW c \in Agent, CallStep(c) PROVE Inv'
  BY <1>3, ReadCardStep, ReadCardFailsStep, LookUpStep, LookUpFailsStep, ScanBoardsStep,
     RemarkStep, StopStep, WriteStep, NothingToWriteStep, RefusedStep, LostWriteStep,
     Post1Step, PostFailsStep, AnsweredStep, FetchStep, IndexStep, ReadPrStep, WritePrStep, DoneStep
  DEF CallStep
<1>4. ASSUME NEW k \in Card, NEW kind \in PeopleKind, StepIn(k, kind) PROVE Inv'
  BY <1>4, StepInStep
<1> QED
  BY <1>1, <1>2, <1>3, <1>4 DEF Next

\* The inductive invariant: every call of finish_task, create_task,
\* get_board_targets and validate is, between any two requests, on its way to
\* an answer that is true.
THEOREM CallsInvariant == Spec => []Inv
<1>1. Init => Inv
  BY StartTurn
<1>2. Inv /\ [Next]_vars => Inv'
  BY StepKeepsInv
<1> QED
  BY <1>1, <1>2, PTL DEF Spec

\* An error that asks to be repeated comes before the first write of the call
\* (_board_error, the adapters' retries), so that the agent may repeat it as
\* it is, at every board and for every sequence of failures.
THEOREM RetriesWriteNothing == Spec => []RetryableMeansNothingWritten
<1>1. Inv => RetryableMeansNothingWritten
  BY DEF Inv, AgentInv, Retries, RetryableMeansNothingWritten
<1> QED
  BY <1>1, CallsInvariant, PTL

\* What validate_connection reports as possible is not refused for a reason
\* of configuration afterwards, but for create at the boards of Unchecked.
THEOREM ChecksAreKept == Spec => []CapableIsAble
<1>1. Inv => CapableIsAble
  <2> SUFFICES ASSUME Inv, NEW c \in Agent,
                      call[c].pc = "returned", call[c].q.op \in able, call[c].calm,
                      ~(Unchecked /\ call[c].q.op = "create")
               PROVE  call[c].status = "ok"
    BY DEF CapableIsAble
  <2>1. /\ call[c] \in CallRecord /\ call[c].q = job[c] /\ Works(call[c], job[c], conf)
        /\ able \subseteq capabilities(conf)
    BY AgentFacts DEF AgentInv, Tables
  <2>2. UncheckedAt(conf) => Unchecked
    BY DEF UncheckedAt, Unchecked
  <2>3. Promised(job[c], conf)
    BY <2>1, <2>2 DEF Promised
  <2> QED
    BY <2>1, <2>3 DEF Works, CallRecord
<1> QED
  BY <1>1, CallsInvariant, PTL

\* What a call answers is true of the board: a finish_task without a warning
\* has linked, moved and closed its card, one that says already_closed found
\* it so, a create_task that fails without a lost answer left no card, and a
\* get_board_targets without a warning names every target.
THEOREM AnswersTellTheTruth == Spec => []AnswersAreTrue
<1>1. Inv => AnswersAreTrue
  <2> SUFFICES ASSUME Inv PROVE AnswersAreTrue
    OBVIOUS
  <2>1. ASSUME NEW c \in Agent, call[c].pc = "returned"
        PROVE  /\ call[c] \in CallRecord /\ call[c].q = job[c]
               /\ OnTheBoard(call[c], job[c], conf, card[job[c].card])
               /\ Creates(call[c], job[c], conf) /\ Lists(call[c], job[c], conf)
    BY <2>1, AgentFacts DEF AgentInv
  <2>2. \A q, v : /\ Meets(conf, q, v) => Satisfied(q, v)
                  /\ LinkedAt(conf, q, v) => LinkThere(q, v)
                  /\ DoneAt(conf, v) => DoneThere(v)
    BY DEF Meets, Satisfied, LinkedAt, LinkThere, MovedAt, MovedThere, DoneAt, DoneThere
  <2>3. CleanFinishIsDone
    BY <2>1, <2>2 DEF CleanFinishIsDone, Finished, OnTheBoard, Later
  <2>4. AlreadyClosedIsTrue
    BY <2>1, <2>2 DEF AlreadyClosedIsTrue, Finished, OnTheBoard, Later
  <2>5. CreateErrorMeansNone
    BY <2>1 DEF CreateErrorMeansNone, Creates, Certain
  <2>6. SilentListingIsComplete
    <3>1. "all" \in Scanned(conf) => Scanned(conf) = {"all"}
      BY DEF Scanned, _columns_of_project, _discover_status_fields
    <3> QED
      BY <2>1, <3>1 DEF SilentListingIsComplete, Lists, Complete
  <2> QED
    BY <2>3, <2>4, <2>5, <2>6 DEF AnswersAreTrue
<1> QED
  BY <1>1, CallsInvariant, PTL

-----------------------------------------------------------------------------
(* The listing of a board.                                                 *)

ReaderState ==
  [pc : {"idle", "reading", "complete", "cut", "broken"}, offset : Nat, cursor : Int,
   pages : Nat, column : Column, rows : Seq([key : Item, timestamp : Nat])]

\* Every stamp was given to one card.
Stamped ==
  /\ clock \in Nat
  /\ items \in [Item -> [there : BOOLEAN, stamp : 0..clock, column : Column]]
  /\ \A c \in There : items[c].stamp > 0
  /\ \A c, d \in Item : items[c].stamp > 0 /\ items[c].stamp = items[d].stamp => c = d

Listed ==
  /\ board \in Board /\ order \in Sorting(board) /\ limit \in Limit
  /\ Stamped
  /\ reader \in ReaderState
  /\ start \subseteq AtFirst
  /\ reader.pc = "idle" => reader = Idle /\ changes = {} /\ There \subseteq AtFirst
  /\ reader.pc # "idle" /\ changes = {} => start = There

\* How many cards are listed before c.
Position(c) == Cardinality({d \in Visible : Rank(d) < Rank(c)})

\* The next request begins before c.
NotPassed(c) ==
  IF board \in ByCursor THEN reader.cursor = NoCursor \/ Rank(c) > reader.cursor
  ELSE Position(c) >= reader.offset

\* c is on a page still to be read.
Ahead(c) ==
  \/ c \in Visible /\ NotPassed(c)
  \/ board = "yougile" /\ items[c].column > reader.column

\* A card that is to be listed has been read or is ahead.
NothingMissed ==
  \A c \in start \cap There :
    IsTask(c) /\ Undisturbed(c) => c \in Keys(reader.rows) \/ Ahead(c)

\* The rows of Trello were read once, and are behind the cursor.
ReadOnce(rows, cursor) ==
  /\ \A i, j \in DOMAIN rows : rows[i].key = rows[j].key => i = j
  /\ \A i \in DOMAIN rows : cursor # NoCursor /\ Rank(rows[i].key) <= cursor

\* While nobody changes anything, the rows say what the cards are.
Current(rows) == \A i \in DOMAIN rows : rows[i].timestamp = items[rows[i].key].stamp

\* A row comes after the tasks that are fresher.
FresherFirst(rows) ==
  \A i \in DOMAIN rows, c \in There :
    IsTask(c) /\ items[c].stamp > rows[i].timestamp =>
      \E j \in DOMAIN rows : j < i /\ rows[j].key = c

PagesRead ==
  reader.pc = "reading" =>
    /\ order = "oldest" => reader.cursor <= clock
    /\ NothingMissed
    /\ board = "trello" => ReadOnce(reader.rows, reader.cursor)
    /\ board \in FreshestFirst /\ changes = {} =>
         /\ Current(reader.rows)
         /\ board # "trello" => FresherFirst(reader.rows)

ListInv == Listed /\ PagesRead /\ ListingKeepsItsWord

-----------------------------------------------------------------------------
(* Sorting.                                                                *)

Arranged(s, before, q) ==
  /\ Cardinality(s) \in Nat /\ q \in [1..Cardinality(s) -> s]
  /\ \A x \in s : \E n \in 1..Cardinality(s) : q[n] = x /\ Cardinality(before[x]) = n - 1
  /\ \A m, n \in 1..Cardinality(s) : m < n => q[m] \in before[q[n]]

\* A set with a strict order is sorted by it.
LEMMA Orderly ==
  ASSUME NEW s, IsFiniteSet(s), NEW before,
         \A x \in s : before[x] \subseteq s /\ x \notin before[x],
         \A x, y \in s : x # y => x \in before[y] \/ y \in before[x],
         \A x, y \in s : x \in before[y] => before[x] \subseteq before[y]
  PROVE  Arranged(s, before, InOrder(s, before))
<1> DEFINE N == Cardinality(s)
           q == InOrder(s, before)
           place == [x \in s |-> Cardinality(before[x])]
<1>1. N \in Nat
  BY FS_CardinalityType
<1>2. \A x \in s : IsFiniteSet(before[x]) /\ Cardinality(before[x]) \in Nat
  BY FS_Subset, FS_CardinalityType
<1>3. ASSUME NEW x \in s, NEW y \in s, x \in before[y]
      PROVE  Cardinality(before[x]) < Cardinality(before[y])
  <2>1. before[x] \in SUBSET before[y] /\ before[x] # before[y] /\ IsFiniteSet(before[y])
    BY <1>2, <1>3
  <2>2. Cardinality(before[x]) <= Cardinality(before[y])
        /\ Cardinality(before[x]) # Cardinality(before[y])
    BY <2>1, FS_Subset
  <2> QED
    BY <1>2, <2>2
<1>4. ASSUME NEW x \in s PROVE Cardinality(before[x]) \in 0..(N - 1)
  <2>1. before[x] \in SUBSET s /\ before[x] # s
    OBVIOUS
  <2>2. Cardinality(before[x]) <= N /\ Cardinality(before[x]) # N
    BY <2>1, FS_Subset
  <2> QED
    BY <1>1, <1>2, <2>2
<1>5. \A x, y \in s : place[x] = place[y] => x = y
  <2> SUFFICES ASSUME NEW x \in s, NEW y \in s, x # y PROVE place[x] # place[y]
    OBVIOUS
  <2>1. place[x] \in Nat /\ place[y] \in Nat
    BY <1>2
  <2> QED
    BY <1>3, <2>1
<1>6. place \in Injection(s, 0..(N - 1))
  <2>1. place \in [s -> 0..(N - 1)]
    BY <1>4
  <2> HIDE DEF place
  <2> QED
    BY <1>5, <2>1 DEF Injection, IsInjective
<1>7. place \in Surjection(s, 0..(N - 1))
  <2>1. IsFiniteSet(0..(N - 1)) /\ Cardinality(0..(N - 1)) = N
    <3> HIDE DEF N
    <3>1. 0 \in Int /\ N - 1 \in Int
      BY <1>1
    <3>2. /\ IsFiniteSet(0..(N - 1))
          /\ Cardinality(0..(N - 1)) = IF 0 > N - 1 THEN 0 ELSE (N - 1) - 0 + 1
      BY <3>1, FS_Interval
    <3> QED
      BY <1>1, <3>2
  <2> HIDE DEF place
  <2> QED
    BY <1>6, <2>1, FS_Injection
<1>8. \A r \in 0..(N - 1) : \E x \in s : place[x] = r
  <2> HIDE DEF place
  <2> QED
    BY <1>7 DEF Surjection
<1>9. ASSUME NEW n \in 1..N PROVE q[n] \in s /\ place[q[n]] = n - 1
  <2>1. q[n] = CHOOSE x \in s : Cardinality(before[x]) = n - 1
    BY DEF InOrder
  <2>2. \E x \in s : Cardinality(before[x]) = n - 1
    BY <1>1, <1>8
  <2>3. q[n] \in s /\ Cardinality(before[q[n]]) = n - 1
    <3> HIDE DEF q
    <3> QED
      BY <2>1, <2>2
  <2> QED
    BY <2>3
<1>10. q \in [1..N -> s]
  <2>1. q = [n \in 1..N |-> q[n]]
    BY DEF InOrder
  <2> HIDE DEF q
  <2> QED
    BY <1>9, <2>1
<1> HIDE DEF q
<1>11. ASSUME NEW x \in s PROVE \E n \in 1..N : q[n] = x /\ Cardinality(before[x]) = n - 1
  <2>1. Cardinality(before[x]) + 1 \in 1..N
    BY <1>1, <1>4
  <2>2. PICK n \in 1..N : n = Cardinality(before[x]) + 1
    BY <2>1
  <2>3. q[n] \in s /\ place[q[n]] = place[x]
    BY <1>2, <1>9, <2>2
  <2> QED
    BY <1>2, <1>5, <2>2, <2>3
<1>12. ASSUME NEW m \in 1..N, NEW n \in 1..N, m < n PROVE q[m] \in before[q[n]]
  <2>1. /\ q[m] \in s /\ q[n] \in s
        /\ Cardinality(before[q[m]]) = m - 1 /\ Cardinality(before[q[n]]) = n - 1
    BY <1>9
  <2>2. q[n] \notin before[q[m]] /\ q[m] # q[n]
    <3>1. m - 1 # n - 1 /\ ~(n - 1 < m - 1)
      BY <1>1, <1>12
    <3> QED
      BY <1>3, <2>1, <3>1
  <2> QED
    BY <2>1, <2>2
<1> QED
  BY <1>1, <1>10, <1>11, <1>12 DEF q, Arranged

\* Where the service may sort, and how.
LEMMA Sortings ==
  ASSUME Listed
  PROVE  /\ order \in {"newest", "oldest", "creation"}
         /\ board = "trello" => order = "creation"
         /\ board \in {"github", "clickup", "kaiten"} => order = "newest"
BY DEF Listed, Sorting

\* The cards that are there have ranks of their own.
LEMMA Ranks ==
  ASSUME Listed
  PROVE  /\ \A c \in There : /\ c \in Item /\ c \in Nat /\ Rank(c) \in Int /\ Rank(c) # 0
                             /\ items[c].stamp \in Nat /\ items[c].stamp <= clock
         /\ \A c, d \in There : Rank(c) = Rank(d) => c = d
         /\ clock \in Nat
         /\ There \subseteq Item /\ Visible \subseteq There
         /\ IsFiniteSet(Item) /\ IsFiniteSet(There)
<1>1. IsFiniteSet(Item) /\ There \subseteq Item /\ Visible \subseteq There
  BY ListingAssumption DEF There, Visible
<1>2. IsFiniteSet(There)
  BY <1>1, FS_Subset
<1>3. order \in {"newest", "oldest", "creation"}
  BY Sortings
<1>4. Stamped /\ clock \in Nat
  BY DEF Listed, Stamped
<1>5. ASSUME NEW c \in There
      PROVE  /\ c \in Nat /\ c > 0
             /\ items[c].stamp \in Nat /\ items[c].stamp > 0 /\ items[c].stamp <= clock
  BY <1>1, <1>4, <1>5, ListingAssumption DEF Stamped
<1>6. ASSUME NEW c \in There
      PROVE  \/ order = "newest" /\ Rank(c) = -items[c].stamp
             \/ order = "oldest" /\ Rank(c) = items[c].stamp
             \/ order = "creation" /\ board = "trello" /\ Rank(c) = -c
             \/ order = "creation" /\ board # "trello" /\ Rank(c) = c
  <2>1. CASE order = "newest"
    BY <2>1, Sortings DEF Rank
  <2>2. CASE order = "oldest"
    BY <2>2, Sortings DEF Rank
  <2>3. CASE order = "creation" /\ board = "trello"
    BY <2>3 DEF Rank
  <2>4. CASE order = "creation" /\ board # "trello"
    BY <2>4 DEF Rank
  <2> QED
    BY <1>3, <2>1, <2>2, <2>3, <2>4
<1>7. \A c \in There : Rank(c) \in Int /\ Rank(c) # 0
  BY <1>5, <1>6
<1>8. ASSUME NEW c \in There, NEW d \in There, Rank(c) = Rank(d) PROVE c = d
  <2>1. c = d \/ items[c].stamp = items[d].stamp
    BY <1>5, <1>6, <1>8
  <2> QED
    BY <1>1, <1>4, <1>5, <2>1 DEF Stamped
<1> QED
  BY <1>1, <1>2, <1>4, <1>5, <1>7, <1>8

Ranked ==
  /\ There \subseteq Item /\ Visible \subseteq There /\ IsFiniteSet(There)
  /\ \A c \in There : Rank(c) \in Int

LEMMA RankedNow == Listed => Ranked
BY Ranks DEF Ranked

LEMMA RankedThen == Listed' => Ranked'
BY RankedNow, PTL

\* A part of the board, sorted by rank.
LEMMA SortedFacts ==
  ASSUME Listed, NEW s \in SUBSET There
  PROVE  /\ Cardinality(s) \in Nat
         /\ Sorted(s) \in Seq(s) /\ Len(Sorted(s)) = Cardinality(s)
         /\ \A i, j \in 1..Cardinality(s) : i < j => Rank(Sorted(s)[i]) < Rank(Sorted(s)[j])
         /\ \A c \in s : \E n \in 1..Cardinality(s) :
              Sorted(s)[n] = c /\ Cardinality({d \in s : Rank(d) < Rank(c)}) = n - 1
<1> DEFINE before == [c \in s |-> {d \in s : Rank(d) < Rank(c)}]
<1>1. IsFiniteSet(s)
  BY Ranks, FS_Subset
<1>2. \A c \in s : Rank(c) \in Int
  BY Ranks
<1>3. \A c \in s : before[c] \subseteq s /\ c \notin before[c]
  BY <1>2
<1>4. \A c, d \in s : c # d => c \in before[d] \/ d \in before[c]
  BY <1>2, Ranks
<1>5. \A c, d \in s : c \in before[d] => before[c] \subseteq before[d]
  BY <1>2
<1>6. Sorted(s) = InOrder(s, before)
  BY DEF Sorted, Before
<1>7. \A c \in s : before[c] = {d \in s : Rank(d) < Rank(c)}
  OBVIOUS
<1> HIDE DEF before
<1> DEFINE q == InOrder(s, before)
<1>12. Arranged(s, before, q)
  BY <1>1, <1>3, <1>4, <1>5, Orderly
<1>8. /\ Cardinality(s) \in Nat /\ q \in [1..Cardinality(s) -> s]
      /\ \A x \in s : \E n \in 1..Cardinality(s) : q[n] = x /\ Cardinality(before[x]) = n - 1
      /\ \A m, n \in 1..Cardinality(s) : m < n => q[m] \in before[q[n]]
  BY <1>12 DEF Arranged
<1> HIDE DEF q
<1>9. q \in Seq(s) /\ Len(q) = Cardinality(s)
  BY <1>8
<1>10. \A m, n \in 1..Cardinality(s) : m < n => Rank(q[m]) < Rank(q[n])
  BY <1>7, <1>8
<1>11. \A c \in s : \E n \in 1..Cardinality(s) :
         q[n] = c /\ Cardinality({d \in s : Rank(d) < Rank(c)}) = n - 1
  BY <1>7, <1>8
<1> QED
  BY <1>6, <1>8, <1>9, <1>10, <1>11 DEF q

-----------------------------------------------------------------------------
(* A page.                                                                 *)

\* The rest of the list begins where the reader is.
LEMMA RestFacts ==
  ASSUME Listed
  PROVE  /\ Rest \in Seq(Visible)
         /\ \A i, j \in 1..Len(Rest) : i < j => Rank(Rest[i]) < Rank(Rest[j])
         /\ \A i \in 1..Len(Rest) :
              /\ NotPassed(Rest[i])
              /\ board \notin ByCursor => Position(Rest[i]) = reader.offset + i - 1
         /\ \A c \in Visible : NotPassed(c) => \E i \in 1..Len(Rest) : Rest[i] = c
<1>1. Visible \in SUBSET There
  BY Ranks
<1>2. CASE board \in ByCursor
  <2> DEFINE s == {c \in Visible : NotPassed(c)}
  <2>1. s \in SUBSET There /\ Rest = Sorted(s)
    BY <1>1, <1>2 DEF Rest, NotPassed
  <2>2. \A c \in s : c \in Visible /\ NotPassed(c)
    OBVIOUS
  <2>3. \A c \in Visible : NotPassed(c) => c \in s
    OBVIOUS
  <2>4. s \subseteq Visible
    OBVIOUS
  <2> HIDE DEF s
  <2>5. /\ Cardinality(s) \in Nat
        /\ Rest \in Seq(s) /\ Len(Rest) = Cardinality(s)
        /\ \A i, j \in 1..Cardinality(s) : i < j => Rank(Rest[i]) < Rank(Rest[j])
        /\ \A c \in s : \E n \in 1..Cardinality(s) : Rest[n] = c
    BY <2>1, SortedFacts
  <2>6. Rest \in Seq(Visible)
    BY <2>4, <2>5, SeqMonotonic
  <2>7. \A i \in 1..Len(Rest) : Rest[i] \in s
    BY <2>5, ElementOfSeq
  <2> QED
    BY <1>2, <2>2, <2>3, <2>5, <2>6, <2>7
<1>3. CASE board \notin ByCursor
  <2> DEFINE q == Sorted(Visible)
             n == Len(q)
             o == reader.offset
  <2>1. /\ n \in Nat /\ n = Cardinality(Visible) /\ q \in Seq(Visible)
        /\ \A i, j \in 1..n : i < j => Rank(q[i]) < Rank(q[j])
        /\ \A c \in Visible : \E m \in 1..n : q[m] = c /\ Position(c) = m - 1
    BY <1>1, SortedFacts DEF Position
  <2>2. o \in Nat
    BY DEF Listed, ReaderState
  <2>3. Rest = SubSeq(q, o + 1, n)
    BY <1>3 DEF Rest
  <2> HIDE DEF q, n, o
  <2>4. \A m \in 1..n : q[m] \in Visible
    BY <2>1, ElementOfSeq DEF n
  <2>5. \A m \in 1..n : Position(q[m]) = m - 1
    <3> TAKE m \in 1..n
    <3>1. PICK k \in 1..n : q[k] = q[m] /\ Position(q[m]) = k - 1
      BY <2>1, <2>4
    <3>2. Rank(q[k]) \in Int /\ Rank(q[m]) \in Int
      BY <1>1, <2>4, Ranks
    <3>3. ~(k < m) /\ ~(m < k)
      BY <2>1, <3>1, <3>2
    <3> QED
      BY <2>1, <3>1, <3>3
  <2>6. /\ Rest \in Seq(Visible)
        /\ Len(Rest) = IF o + 1 <= n THEN n - (o + 1) + 1 ELSE 0
        /\ \A i \in 1..(n - (o + 1) + 1) : Rest[i] = q[(o + 1) + i - 1]
    <3>1. \A i \in (o + 1)..n : q[i] \in Visible
      BY <2>1, <2>2, <2>4
    <3>2. o + 1 \in Int /\ n \in Int
      BY <2>1, <2>2
    <3> QED
      BY <2>3, <3>1, <3>2, SubSeqProperties
  <2>7. \A i \in 1..Len(Rest) : o + i \in 1..n /\ Rest[i] = q[o + i]
    <3> TAKE i \in 1..Len(Rest)
    <3>1. i \in 1..(n - (o + 1) + 1) /\ (o + 1) + i - 1 = o + i /\ o + i \in 1..n
      BY <2>1, <2>2, <2>6
    <3> QED
      BY <2>6, <3>1
  <2>8. ASSUME NEW i \in 1..Len(Rest), NEW j \in 1..Len(Rest), i < j
        PROVE  Rank(Rest[i]) < Rank(Rest[j])
    <3>1. o + i < o + j
      BY <2>2, <2>6, <2>8
    <3> QED
      BY <2>1, <2>7, <3>1
  <2>9. \A i \in 1..Len(Rest) : Position(Rest[i]) = o + i - 1
    BY <2>2, <2>5, <2>7
  <2>10. \A i \in 1..Len(Rest) : NotPassed(Rest[i])
    <3> TAKE i \in 1..Len(Rest)
    <3>1. o + i - 1 >= o
      BY <2>1, <2>2, <2>6
    <3> QED
      BY <1>3, <2>9, <3>1 DEF NotPassed, o
  <2>11. ASSUME NEW c \in Visible, NotPassed(c) PROVE \E i \in 1..Len(Rest) : Rest[i] = c
    <3>1. PICK m \in 1..n : q[m] = c /\ Position(c) = m - 1
      BY <2>1
    <3>2. m - 1 >= o
      BY <1>3, <2>11, <3>1 DEF NotPassed, o
    <3>3. m - o \in 1..Len(Rest) /\ o + (m - o) = m
      BY <2>1, <2>2, <2>6, <3>2
    <3> QED
      BY <2>7, <3>1, <3>3
  <2> QED
    BY <1>3, <2>6, <2>8, <2>9, <2>10, <2>11 DEF o
<1> QED
  BY <1>2, <1>3

\* There is more than this page.
Full(page) == Len(page) = PageSize /\ Len(Rest) > PageSize

\* c comes after the page.
AfterPage(page, c) ==
  /\ \A i \in DOMAIN page : Rank(page[i]) < Rank(c)
  /\ board \notin ByCursor => Position(c) >= reader.offset + Len(page)

\* A page has the next cards in their order.
LEMMA PageFacts ==
  ASSUME Listed, NEW page, page = Cut(Rest)
  PROVE  /\ page \in Seq(Visible) /\ Len(page) \in Nat /\ Len(page) <= PageSize
         /\ DOMAIN page = 1..Len(page)
         /\ \A i, j \in DOMAIN page : i < j => Rank(page[i]) < Rank(page[j])
         /\ \A i \in DOMAIN page : page[i] \in Visible /\ NotPassed(page[i])
         /\ \A c \in Visible :
              NotPassed(c) => \/ \E i \in DOMAIN page : page[i] = c
                              \/ Full(page) /\ AfterPage(page, c)
<1> DEFINE r == Rest
           size == IF Len(r) < PageSize THEN Len(r) ELSE PageSize
<1>1. /\ r \in Seq(Visible)
      /\ \A i, j \in 1..Len(r) : i < j => Rank(r[i]) < Rank(r[j])
      /\ \A i \in 1..Len(r) :
           NotPassed(r[i]) /\ (board \notin ByCursor => Position(r[i]) = reader.offset + i - 1)
      /\ \A c \in Visible : NotPassed(c) => \E i \in 1..Len(r) : r[i] = c
  BY RestFacts
<1>2. page = SubSeq(r, 1, size)
  BY DEF Cut
<1>3. PageSize \in Nat /\ PageSize > 0 /\ reader.offset \in Nat
  BY ListingAssumption DEF Listed, ReaderState
<1> HIDE DEF r
<1>4. Len(r) \in Nat /\ \A i \in 1..Len(r) : r[i] \in Visible
  BY <1>1, LenProperties, ElementOfSeq
<1>5. size \in Nat /\ size <= Len(r) /\ size <= PageSize /\ (size = Len(r) \/ size = PageSize)
  BY <1>3, <1>4
<1> HIDE DEF size
<1>6. page \in Seq(Visible) /\ Len(page) = size /\ \A i \in 1..size : page[i] = r[i]
  <2>1. \A i \in 1..size : r[i] \in Visible
    BY <1>4, <1>5
  <2>2. 1 \in Int /\ size \in Int /\ size - 1 + 1 = size
    BY <1>5
  <2>3. /\ SubSeq(r, 1, size) \in Seq(Visible)
        /\ Len(SubSeq(r, 1, size)) = IF 1 <= size THEN size - 1 + 1 ELSE 0
        /\ \A i \in 1..(size - 1 + 1) : SubSeq(r, 1, size)[i] = r[1 + i - 1]
    BY <2>1, <2>2, SubSeqProperties
  <2>4. \A i \in 1..size : 1 + i - 1 = i
    BY <1>5
  <2>5. Len(SubSeq(r, 1, size)) = size
    BY <1>5, <2>3
  <2>6. \A i \in 1..size : SubSeq(r, 1, size)[i] = r[i]
    BY <2>2, <2>3, <2>4
  <2> QED
    BY <1>2, <2>3, <2>5, <2>6
<1>7. DOMAIN page = 1..size
  BY <1>6, LenProperties
<1>8. \A i \in 1..size : i \in 1..Len(r)
  BY <1>4, <1>5
<1>9. ASSUME NEW c \in Visible, NotPassed(c), ~ \E i \in DOMAIN page : page[i] = c
      PROVE  Full(page) /\ AfterPage(page, c)
  <2>1. PICK k \in 1..Len(r) : r[k] = c
    BY <1>1, <1>9
  <2>2. k \notin 1..size
    BY <1>6, <1>7, <1>9, <2>1
  <2>3. k > size /\ size = PageSize /\ Len(r) > PageSize
    BY <1>3, <1>4, <1>5, <2>2
  <2>4. Full(page)
    BY <1>6, <2>3 DEF Full, r
  <2>5. \A i \in DOMAIN page : Rank(page[i]) < Rank(c)
    <3> TAKE i \in DOMAIN page
    <3>1. i \in 1..size /\ i \in 1..Len(r) /\ i < k
      BY <1>5, <1>7, <1>8, <2>3
    <3> QED
      BY <1>1, <1>6, <2>1, <3>1
  <2>6. board \notin ByCursor => Position(c) >= reader.offset + Len(page)
    <3>1. reader.offset + k - 1 >= reader.offset + size
      BY <1>3, <1>4, <1>5, <2>3
    <3> QED
      BY <1>1, <1>6, <2>1, <3>1
  <2> QED
    BY <2>4, <2>5, <2>6 DEF AfterPage
<1> QED
  BY <1>1, <1>4, <1>5, <1>6, <1>7, <1>8, <1>9

\* Numbers, sorted.
LEMMA Ascending ==
  ASSUME NEW K \in SUBSET Nat, IsFiniteSet(K)
  PROVE  LET q == InOrder(K, [i \in K |-> {j \in K : j < i}]) IN
         /\ Cardinality(K) \in Nat /\ q \in [1..Cardinality(K) -> K]
         /\ \A i \in K : \E n \in 1..Cardinality(K) : q[n] = i
         /\ \A m, n \in 1..Cardinality(K) : m < n => q[m] < q[n]
<1> DEFINE before == [i \in K |-> {j \in K : j < i}]
<1>1. \A x \in K : before[x] \subseteq K /\ x \notin before[x]
  OBVIOUS
<1>2. \A x, y \in K : x # y => x \in before[y] \/ y \in before[x]
  <2> TAKE x, y \in K
  <2>1. x \in Nat /\ y \in Nat
    OBVIOUS
  <2> QED
    BY <2>1
<1>3. \A x, y \in K : x \in before[y] => before[x] \subseteq before[y]
  <2> SUFFICES ASSUME NEW x \in K, NEW y \in K, x < y, NEW z \in K, z < x
               PROVE  z < y
    OBVIOUS
  <2> QED
    OBVIOUS
<1>4. \A x, y \in K : x \in before[y] => x < y
  OBVIOUS
<1> HIDE DEF before
<1> DEFINE q == InOrder(K, before)
<1>5. /\ Cardinality(K) \in Nat /\ q \in [1..Cardinality(K) -> K]
      /\ \A x \in K : \E n \in 1..Cardinality(K) : q[n] = x
      /\ \A m, n \in 1..Cardinality(K) : m < n => q[m] \in before[q[n]]
  <2>1. Arranged(K, before, q)
    BY <1>1, <1>2, <1>3, Orderly
  <2> HIDE DEF q
  <2> QED
    BY <2>1 DEF Arranged
<1> HIDE DEF q
<1>6. \A m, n \in 1..Cardinality(K) : m < n => q[m] < q[n]
  BY <1>4, <1>5
<1> QED
  BY <1>5, <1>6 DEF q, before

\* place says where on the page the rows were.
Placed(page, rows, place) ==
  /\ \A n \in 1..Len(rows) : /\ place[n] \in DOMAIN page
                             /\ page[place[n]] \notin Skipped
                             /\ rows[n] = Row(page[place[n]])
  /\ \A m, n \in 1..Len(rows) : m < n => place[m] < place[n]
  /\ \A i \in DOMAIN page : page[i] \notin Skipped => \E n \in 1..Len(rows) : place[n] = i

\* The rows of a page are of its tasks, in their order.
LEMMA RowsFacts ==
  ASSUME Listed, NEW page \in Seq(There), NEW rows, rows = Rows(page)
  PROVE  /\ rows \in Seq([key : Item, timestamp : Nat])
         /\ \E place : Placed(page, rows, place)
<1>1. Len(page) \in Nat /\ DOMAIN page = 1..Len(page) /\ \A i \in DOMAIN page : page[i] \in There
  BY LenProperties, ElementOfSeq
<1>2. PICK kept : kept = {i \in DOMAIN page : page[i] \notin Skipped}
  OBVIOUS
<1>3. IsFiniteSet(kept) /\ kept \in SUBSET Nat
  <2>1. IsFiniteSet(1..Len(page)) /\ kept \in SUBSET (1..Len(page))
    BY <1>1, <1>2, FS_Interval
  <2>2. kept \in SUBSET Nat
    BY <1>1, <2>1
  <2> QED
    BY <2>1, <2>2, FS_Subset
<1>4. PICK q : q = InOrder(kept, [i \in kept |-> {j \in kept : j < i}])
  OBVIOUS
<1>5. rows = [n \in DOMAIN q |-> Row(page[q[n]])]
  BY <1>2, <1>4 DEF Rows
<1>6. PICK N : N = Cardinality(kept)
  OBVIOUS
<1>7. /\ N \in Nat /\ q \in [1..N -> kept]
      /\ \A i \in kept : \E n \in 1..N : q[n] = i
      /\ \A m, n \in 1..N : m < n => q[m] < q[n]
  BY <1>3, <1>4, <1>6, Ascending
<1>8. \A n \in 1..N : q[n] \in DOMAIN page /\ page[q[n]] \notin Skipped
  BY <1>2, <1>7
<1>9. \A n \in 1..N : Row(page[q[n]]) \in [key : Item, timestamp : Nat]
  <2> TAKE n \in 1..N
  <2>1. page[q[n]] \in There
    BY <1>1, <1>8
  <2> QED
    BY <2>1, Ranks DEF Row
<1>10. rows = [n \in 1..N |-> Row(page[q[n]])]
  BY <1>5, <1>7
<1>11. rows \in Seq([key : Item, timestamp : Nat]) /\ Len(rows) = N
  <2> DEFINE e(n) == Row(page[q[n]])
  <2>1. \A n \in 1..N : e(n) \in [key : Item, timestamp : Nat]
    BY <1>9
  <2>2. rows = [n \in 1..N |-> e(n)]
    BY <1>10
  <2> HIDE DEF e
  <2> QED
    BY <1>7, <2>1, <2>2
<1>12. \A n \in 1..N : rows[n] = Row(page[q[n]])
  BY <1>10
<1>13. \A i \in DOMAIN page : page[i] \notin Skipped => \E n \in 1..N : q[n] = i
  BY <1>2, <1>7
<1>14. Placed(page, rows, q)
  BY <1>7, <1>8, <1>11, <1>12, <1>13 DEF Placed
<1> QED
  BY <1>11, <1>14

-----------------------------------------------------------------------------
(* People.                                                                 *)

\* What a change does to a card.
Alters(c, what) ==
  /\ c \in Item
  /\ items'[c].there = (what # "remove")
  /\ items'[c].stamp = (IF what = "remove" THEN items[c].stamp ELSE clock + 1)
  /\ what # "move" /\ items[c].there => items'[c].column = items[c].column
  /\ IF what = "add" THEN c \notin AtFirst /\ ~items[c].there ELSE items[c].there
  /\ what = "move" => board = "yougile"
  /\ \A d \in Item \ {c} : items'[d] = items[d]
  /\ changes' = changes \cup {[what |-> what, item |-> c]}

LEMMA PeopleAlter ==
  ASSUME Listed, NEW c \in Item,
         Edit(c) \/ TakeAway(c) \/ Add(c) \/ \E k \in Column : MoveTo(c, k)
  PROVE  /\ \E what \in {"edit", "move", "remove", "add"} : Alters(c, what)
         /\ reader.pc = "reading" /\ clock' = clock + 1 /\ Stamped'
         /\ UNCHANGED <<board, order, limit, reader, start>>
<1>1. /\ clock \in Nat
      /\ items \in [Item -> [there : BOOLEAN, stamp : 0..clock, column : Column]]
      /\ \A d \in There : items[d].stamp > 0
      /\ \A d, e \in Item : items[d].stamp > 0 /\ items[d].stamp = items[e].stamp => d = e
  BY DEF Listed, Stamped
<1>2. PICK what \in {"edit", "move", "remove", "add"},
           v \in [there : BOOLEAN, stamp : 0..(clock + 1), column : Column] :
        /\ Changed(c, what, v)
        /\ v.there = (what # "remove")
        /\ v.stamp = (IF what = "remove" THEN items[c].stamp ELSE clock + 1)
        /\ what # "move" => v.column = items[c].column
        /\ IF what = "add" THEN c \notin AtFirst /\ ~items[c].there ELSE items[c].there
        /\ what = "move" => board = "yougile"
  <2>0. /\ items[c] \in [there : BOOLEAN, stamp : 0..clock, column : Column]
        /\ items[c].stamp \in 0..(clock + 1) /\ clock + 1 \in 0..(clock + 1)
    BY <1>1
  <2>1. CASE Edit(c)
    <3> DEFINE v == [items[c] EXCEPT !.stamp = clock + 1]
    <3>1. /\ v \in [there : BOOLEAN, stamp : 0..(clock + 1), column : Column]
          /\ v.there = items[c].there /\ v.stamp = clock + 1 /\ v.column = items[c].column
      BY <2>0
    <3>2. Changed(c, "edit", v) /\ items[c].there
      BY <2>1 DEF Edit
    <3> HIDE DEF v
    <3> QED
      BY <2>0, <3>1, <3>2
  <2>2. CASE TakeAway(c)
    <3> DEFINE v == [items[c] EXCEPT !.there = FALSE]
    <3>1. /\ v \in [there : BOOLEAN, stamp : 0..(clock + 1), column : Column]
          /\ v.there = FALSE /\ v.stamp = items[c].stamp /\ v.column = items[c].column
      BY <2>0
    <3>2. Changed(c, "remove", v) /\ items[c].there
      BY <2>2 DEF TakeAway
    <3> HIDE DEF v
    <3> QED
      BY <2>0, <3>1, <3>2
  <2>3. CASE Add(c)
    <3> DEFINE v == [items[c] EXCEPT !.there = TRUE, !.stamp = clock + 1]
    <3>1. /\ v \in [there : BOOLEAN, stamp : 0..(clock + 1), column : Column]
          /\ v.there = TRUE /\ v.stamp = clock + 1 /\ v.column = items[c].column
      BY <2>0
    <3>2. Changed(c, "add", v) /\ c \notin AtFirst /\ ~items[c].there
      BY <2>3 DEF Add
    <3> HIDE DEF v
    <3> QED
      BY <2>0, <3>1, <3>2
  <2>4. CASE \E k \in Column : MoveTo(c, k)
    <3>0. PICK k \in Column : MoveTo(c, k)
      BY <2>4
    <3> DEFINE v == [items[c] EXCEPT !.stamp = clock + 1, !.column = k]
    <3>1. /\ v \in [there : BOOLEAN, stamp : 0..(clock + 1), column : Column]
          /\ v.there = items[c].there /\ v.stamp = clock + 1
      BY <2>0
    <3>2. Changed(c, "move", v) /\ items[c].there /\ board = "yougile"
      BY <3>0 DEF MoveTo
    <3> HIDE DEF v
    <3> QED
      BY <2>0, <3>1, <3>2
  <2> QED
    BY <2>1, <2>2, <2>3, <2>4
<1>3. /\ items' = [items EXCEPT ![c] = v] /\ clock' = clock + 1
      /\ changes' = changes \cup {[what |-> what, item |-> c]}
      /\ reader.pc = "reading" /\ UNCHANGED <<board, order, limit, reader, start>>
  BY <1>2 DEF Changed
<1>4. items'[c] = v /\ \A d \in Item \ {c} : items'[d] = items[d]
  BY <1>1, <1>3
<1>5. Alters(c, what)
  BY <1>2, <1>3, <1>4 DEF Alters
<1>6. Stamped'
  <2>1. items' \in [Item -> [there : BOOLEAN, stamp : 0..(clock + 1), column : Column]]
    BY <1>1, <1>2, <1>3
  <2>2. \A d \in Item : items[d].stamp \in Nat /\ items[d].stamp < clock + 1
    BY <1>1
  <2>3. ASSUME NEW d \in Item, items'[d].there PROVE items'[d].stamp > 0
    <3>1. CASE d = c
      BY <1>1, <1>2, <1>4, <2>3, <3>1
    <3>2. CASE d # c
      BY <1>1, <1>4, <2>3, <3>2 DEF There
    <3> QED
      BY <3>1, <3>2
  <2>4. ASSUME NEW d \in Item, NEW e \in Item,
               items'[d].stamp > 0, items'[d].stamp = items'[e].stamp
        PROVE  d = e
    <3>1. CASE what = "remove"
      <4>1. items'[d].stamp = items[d].stamp /\ items'[e].stamp = items[e].stamp
        BY <1>2, <1>4, <3>1
      <4> QED
        BY <1>1, <2>4, <4>1
    <3>2. CASE what # "remove"
      <4>1. /\ items'[d].stamp = IF d = c THEN clock + 1 ELSE items[d].stamp
            /\ items'[e].stamp = IF e = c THEN clock + 1 ELSE items[e].stamp
        BY <1>2, <1>4, <3>2
      <4>2. CASE d = c \/ e = c
        <5>1. /\ items[d].stamp \in Nat /\ items[d].stamp < clock + 1
              /\ items[e].stamp \in Nat /\ items[e].stamp < clock + 1
          BY <2>2
        <5>2. clock + 1 \in Nat
          BY <1>1
        <5>3. CASE d = c /\ e # c
          <6>1. clock + 1 = items[e].stamp
            BY <2>4, <4>1, <5>3
          <6> QED
            BY <5>1, <5>2, <6>1
        <5>4. CASE d # c /\ e = c
          <6>1. items[d].stamp = clock + 1
            BY <2>4, <4>1, <5>4
          <6> QED
            BY <5>1, <5>2, <6>1
        <5> QED
          BY <4>2, <5>3, <5>4
      <4>3. CASE d # c /\ e # c
        BY <1>1, <2>4, <4>1, <4>3
      <4> QED
        BY <4>2, <4>3
    <3> QED
      BY <3>1, <3>2
  <2>5. clock' \in Nat /\ clock' = clock + 1
    BY <1>1, <1>3
  <2>6. There' = {d \in Item : items'[d].there}
    BY DEF There
  <2> QED
    BY <2>1, <2>3, <2>4, <2>5, <2>6 DEF Stamped
<1> QED
  BY <1>3, <1>5, <1>6

\* What the property is about stays ahead of the reader.
LEMMA StaysAhead ==
  ASSUME Listed, PagesRead, NEW c \in Item, NEW what \in {"edit", "move", "remove", "add"}, Alters(c, what),
         reader.pc = "reading", clock' = clock + 1, Listed',
         UNCHANGED <<board, order, limit, reader, start>>,
         NEW d \in start \cap There', Undisturbed(d)', Ahead(d), d \in There
  PROVE  Ahead(d)'
<1>1. /\ items'[c].there = (what # "remove")
      /\ items'[c].stamp = (IF what = "remove" THEN items[c].stamp ELSE clock + 1)
      /\ what # "move" /\ items[c].there => items'[c].column = items[c].column
      /\ IF what = "add" THEN c \notin AtFirst /\ ~items[c].there ELSE items[c].there
      /\ what = "move" => board = "yougile"
      /\ \A e \in Item \ {c} : items'[e] = items[e]
      /\ changes' = changes \cup {[what |-> what, item |-> c]}
  BY DEF Alters
<1>2. /\ clock \in Nat /\ reader.offset \in Nat /\ reader.cursor \in Int
      /\ order = "oldest" => reader.cursor <= clock
      /\ d \in AtFirst /\ d \in Item
      /\ \A e \in There : items[e].stamp \in Nat /\ items[e].stamp <= clock
  BY Ranks DEF Listed, PagesRead, ReaderState, There
<1>3. [what |-> what, item |-> c] \in changes'
  BY <1>1
<1>4. /\ order = "newest" => ~(d = c /\ what \in {"edit", "move"})
      /\ board \notin ByCursor => what # "remove"
      /\ board \notin ByCursor /\ order = "oldest" => what # "edit"
      /\ board = "yougile" => what # "move"
  BY <1>3 DEF Undisturbed, DidTo, Did
<1>5. what # "move" /\ (d = c => what = "edit")
  BY <1>1, <1>2, <1>4 DEF There
<1>6. order \in {"newest", "oldest", "creation"} /\ (board = "trello" => order = "creation")
  BY Sortings
<1>7. items'[d].column = items[d].column
  BY <1>1, <1>2, <1>5 DEF There
<1>8. There = {e \in Item : items[e].there} /\ There' = {e \in Item : items'[e].there}
  BY DEF There
<1>9. /\ Rank(d) \in Int /\ Rank(d)' \in Int
      /\ \A e \in There : Rank(e) \in Int
      /\ \A e \in There' : Rank(e)' \in Int
      /\ IsFiniteSet(There') /\ Visible' \subseteq There'
  BY Ranks, RankedThen DEF Ranked
<1>10. \A e \in Item \ {c} : Rank(e)' = Rank(e)
  BY <1>1 DEF Rank
<1>11. order = "creation" => Rank(c)' = Rank(c)
  BY DEF Rank
<1>12. order = "oldest" /\ what # "remove" => Rank(c)' = clock + 1
  BY <1>1, <1>6 DEF Rank
<1>13. order = "newest" /\ what # "remove" => Rank(c)' = -(clock + 1)
  BY <1>1, <1>6 DEF Rank
<1>14. order = "newest" => Rank(d) = -items[d].stamp
  BY <1>6 DEF Rank
<1>15. CASE board = "yougile" /\ items[d].column > reader.column
  BY <1>7, <1>15 DEF Ahead
<1>16. CASE d \in Visible /\ NotPassed(d)
  <2>1. d \in Visible'
    BY <1>7, <1>16 DEF Visible
  <2>2. CASE board \in ByCursor
    <3>1. reader.cursor = NoCursor \/ Rank(d) > reader.cursor
      BY <1>16, <2>2 DEF NotPassed
    <3>2. reader.cursor = NoCursor \/ Rank(d)' > reader.cursor
      <4>1. CASE d = c /\ order = "oldest"
        BY <1>2, <1>5, <1>12, <4>1
      <4>2. CASE d # c \/ order = "creation"
        BY <1>2, <1>10, <1>11, <3>1, <4>2
      <4> QED
        BY <1>4, <1>5, <1>6, <4>1, <4>2
    <3> QED
      BY <2>1, <2>2, <3>2 DEF Ahead, NotPassed
  <2>3. CASE board \notin ByCursor
    <3>1. what \in {"edit", "add"} /\ Position(d) >= reader.offset
      BY <1>4, <1>5, <1>16, <2>3 DEF NotPassed
    <3>2. ASSUME NEW e \in Visible, Rank(e) < Rank(d)
          PROVE  e \in Visible' /\ Rank(e)' < Rank(d)'
      <4>0. e \in There /\ e \in Item
        BY <1>8, Ranks
      <4>1. e \in Visible'
        <5>1. e \in There' /\ items'[e].column = items[e].column
          BY <1>1, <1>8, <3>1, <4>0
        <5> QED
          BY <3>2, <5>1 DEF Visible
      <4>2. CASE e # c /\ d # c
        BY <1>2, <1>10, <3>2, <4>0, <4>1, <4>2
      <4>3. CASE order = "creation"
        BY <1>2, <1>10, <1>11, <3>2, <4>0, <4>1, <4>3
      <4>4. CASE order = "newest" /\ e = c /\ d # c
        <5>1. Rank(e)' = -(clock + 1) /\ Rank(d)' = -items[d].stamp
          BY <1>2, <1>10, <1>13, <1>14, <3>1, <4>4
        <5>2. items[d].stamp \in Nat /\ items[d].stamp <= clock
          BY <1>2
        <5> QED
          BY <1>2, <4>1, <5>1, <5>2
      <4>5. order = "oldest" => e # c /\ d # c
        BY <1>1, <1>4, <1>5, <1>8, <2>3, <3>1, <4>0
      <4> QED
        BY <1>4, <1>5, <1>6, <4>1, <4>2, <4>3, <4>4, <4>5
    <3> DEFINE old == {e \in Visible : Rank(e) < Rank(d)}
               new == {e \in Visible' : Rank(e)' < Rank(d)'}
    <3>3. old \subseteq new
      BY <3>2
    <3>4. Position(d) = Cardinality(old) /\ Position(d)' = Cardinality(new)
      BY DEF Position
    <3>5. IsFiniteSet(new)
      <4>1. new \in SUBSET There'
        BY <1>9
      <4> QED
        BY <1>9, <4>1, FS_Subset
    <3> HIDE DEF old, new
    <3>6. Cardinality(new) >= Cardinality(old) /\ Cardinality(new) \in Nat /\ Cardinality(old) \in Nat
      BY <3>3, <3>5, FS_Subset, FS_CardinalityType
    <3>7. Position(d)' >= reader.offset
      BY <1>2, <3>1, <3>4, <3>6
    <3> QED
      BY <2>1, <2>3, <3>7 DEF Ahead, NotPassed
  <2> QED
    BY <2>2, <2>3
<1> QED
  BY <1>15, <1>16 DEF Ahead

LEMMA PeopleStep ==
  ASSUME ListInv, NEW c \in Item,
         Edit(c) \/ TakeAway(c) \/ Add(c) \/ \E k \in Column : MoveTo(c, k)
  PROVE  ListInv'
<1>0. Listed /\ PagesRead
  BY DEF ListInv
<1>1. /\ reader.pc = "reading" /\ clock' = clock + 1 /\ Stamped'
      /\ UNCHANGED <<board, order, limit, reader, start>>
  BY <1>0, PeopleAlter
<1>2. PICK what \in {"edit", "move", "remove", "add"} : Alters(c, what)
  BY <1>0, PeopleAlter
<1>3. changes' # {}
  BY <1>2 DEF Alters
<1>4. Listed'
  BY <1>0, <1>1, <1>3 DEF Listed, Sorting
<1>5. NothingMissed'
  <2> SUFFICES ASSUME NEW d \in start \cap There', IsTask(d), Undisturbed(d)'
               PROVE  d \in Keys(reader.rows) \/ Ahead(d)'
    BY <1>1 DEF NothingMissed, Keys, IsTask
  <2>1. d \in There /\ Undisturbed(d)
    <3>1. changes \subseteq changes'
      BY <1>2 DEF Alters
    <3>2. Undisturbed(d)
      BY <1>1, <3>1 DEF Undisturbed, Did, DidTo
    <3>3. d \in AtFirst /\ d \in Item
      BY <1>0, ListingAssumption DEF Listed
    <3>4. items[d].there
      <4>1. CASE d = c
        BY <1>2, <3>3, <4>1 DEF Alters
      <4>2. CASE d # c
        BY <1>2, <3>3, <4>2 DEF Alters, There
      <4> QED
        BY <4>1, <4>2
    <3> QED
      BY <3>2, <3>3, <3>4 DEF There
  <2>2. d \in Keys(reader.rows) \/ Ahead(d)
    BY <1>0, <1>1, <2>1 DEF PagesRead, NothingMissed
  <2> QED
    BY <1>0, <1>1, <1>2, <1>4, <2>1, <2>2, StaysAhead
<1>6. board = "trello" => ReadOnce(reader.rows, reader.cursor)'
  <2> SUFFICES ASSUME board = "trello" PROVE ReadOnce(reader.rows, reader.cursor)'
    OBVIOUS
  <2>1. order = "creation"
    BY <1>0, Sortings
  <2>2. \A d : Rank(d)' = Rank(d)
    BY <1>1, <2>1 DEF Rank
  <2>3. ReadOnce(reader.rows, reader.cursor)
    BY <1>0, <1>1 DEF PagesRead
  <2> QED
    BY <1>1, <2>2, <2>3 DEF ReadOnce
<1>7. order = "oldest" => reader.cursor <= clock + 1
  <2>1. reader.cursor \in Int /\ clock \in Nat
    BY <1>0 DEF Listed, Stamped, ReaderState
  <2> QED
    BY <1>0, <1>1, <2>1 DEF PagesRead
<1>8. PagesRead'
  BY <1>1, <1>3, <1>5, <1>6, <1>7 DEF PagesRead
<1>9. ListingKeepsItsWord'
  BY <1>1 DEF ListingKeepsItsWord, ListingIsSound, LimitTakesTheFreshest
<1> QED
  BY <1>4, <1>8, <1>9 DEF ListInv

-----------------------------------------------------------------------------
(* The reader.                                                             *)

RowRecord == [key : Item, timestamp : Nat]

\* After a page, what was not read comes after it.
ReadUpTo(page, rows) ==
  \A c \in start \cap There :
    IsTask(c) /\ Undisturbed(c) =>
      \/ c \in Keys(rows)
      \/ board = "yougile" /\ items[c].column > reader.column
      \/ c \in Visible /\ Full(page) /\ AfterPage(page, c)

\* The rows of Trello are of the page or before it, each once.
OnceUpTo(page, rows) ==
  /\ \A i, j \in DOMAIN rows : rows[i].key = rows[j].key => i = j
  /\ page # << >> => \A i \in DOMAIN rows : Rank(rows[i].key) <= Rank(page[Len(page)])
  /\ Rows(page) = << >> => page = << >>

Joined(a, b, rows) ==
  /\ Len(a) \in Nat /\ Len(b) \in Nat
  /\ DOMAIN rows = 1..(Len(a) + Len(b))
  /\ DOMAIN a = 1..Len(a) /\ DOMAIN b = 1..Len(b)
  /\ \A i \in 1..Len(a) : i \in DOMAIN rows /\ rows[i] = a[i]
  /\ \A n \in 1..Len(b) : Len(a) + n \in DOMAIN rows /\ rows[Len(a) + n] = b[n]
  /\ \A i \in DOMAIN rows : i \in 1..Len(a) \/ \E n \in 1..Len(b) : i = Len(a) + n

LEMMA Appended ==
  ASSUME NEW S, NEW a \in Seq(S), NEW b \in Seq(S)
  PROVE  a \o b \in Seq(S) /\ Joined(a, b, a \o b)
<1> DEFINE rows == a \o b
<1>1. /\ Len(a) \in Nat /\ Len(b) \in Nat /\ DOMAIN a = 1..Len(a) /\ DOMAIN b = 1..Len(b)
  BY LenProperties
<1>2. /\ rows \in Seq(S) /\ Len(rows) = Len(a) + Len(b)
      /\ \A i \in 1..Len(a) + Len(b) : rows[i] = IF i <= Len(a) THEN a[i] ELSE b[i - Len(a)]
  BY ConcatProperties
<1> HIDE DEF rows
<1>3. DOMAIN rows = 1..(Len(a) + Len(b))
  BY <1>2, LenProperties
<1>4. \A i \in 1..Len(a) : i \in DOMAIN rows /\ rows[i] = a[i]
  BY <1>1, <1>2, <1>3
<1>5. ASSUME NEW n \in 1..Len(b)
      PROVE  Len(a) + n \in DOMAIN rows /\ rows[Len(a) + n] = b[n]
  <2>1. /\ Len(a) + n \in 1..(Len(a) + Len(b)) /\ ~(Len(a) + n <= Len(a))
        /\ (Len(a) + n) - Len(a) = n
    BY <1>1
  <2> QED
    BY <1>2, <1>3, <2>1
<1>6. ASSUME NEW i \in DOMAIN rows, i \notin 1..Len(a)
      PROVE  \E n \in 1..Len(b) : i = Len(a) + n
  <2>1. i - Len(a) \in 1..Len(b) /\ i = Len(a) + (i - Len(a))
    BY <1>1, <1>3, <1>6
  <2> QED
    BY <2>1
<1>7. Joined(a, b, rows)
  BY <1>1, <1>3, <1>4, <1>5, <1>6 DEF Joined
<1> QED
  BY <1>2, <1>7 DEF rows

LEMMA PageRead ==
  ASSUME ListInv, reader.pc = "reading", NEW page, page = Cut(Rest),
         NEW rows, rows = reader.rows \o Rows(page)
  PROVE  /\ rows \in Seq(RowRecord)
         /\ ReadUpTo(page, rows)
         /\ board = "trello" => OnceUpTo(page, rows)
         /\ board \in FreshestFirst /\ changes = {} =>
              Current(rows) /\ (board # "trello" => FresherFirst(rows))
<1>0. Listed /\ PagesRead
  BY DEF ListInv
<1>15. PICK a : a = reader.rows
  OBVIOUS
<1>16. PICK b : b = Rows(page)
  OBVIOUS
<1>1. /\ page \in Seq(Visible) /\ Len(page) \in Nat /\ DOMAIN page = 1..Len(page)
      /\ \A i, j \in DOMAIN page : i < j => Rank(page[i]) < Rank(page[j])
      /\ \A i \in DOMAIN page : page[i] \in Visible /\ NotPassed(page[i])
      /\ \A c \in Visible : NotPassed(c) =>
           (\E i \in DOMAIN page : page[i] = c) \/ (Full(page) /\ AfterPage(page, c))
  BY <1>0, PageFacts
<1>2. page \in Seq(There) /\ Visible \subseteq There
  BY <1>0, <1>1, Ranks, SeqMonotonic
<1>3. b \in Seq(RowRecord) /\ a \in Seq(RowRecord)
  BY <1>0, <1>2, <1>15, <1>16, RowsFacts DEF RowRecord, Listed, ReaderState
<1>17. PICK place : Placed(page, b, place)
  BY <1>0, <1>2, <1>16, RowsFacts
<1>4. /\ \A n \in 1..Len(b) : /\ place[n] \in DOMAIN page /\ page[place[n]] \notin Skipped
                              /\ b[n] = Row(page[place[n]])
      /\ \A m, n \in 1..Len(b) : m < n => place[m] < place[n]
      /\ \A i \in DOMAIN page :
           page[i] \notin Skipped => \E n \in 1..Len(b) : place[n] = i
  BY <1>17 DEF Placed
<1>5. NothingMissed /\ (board = "trello" => ReadOnce(a, reader.cursor))
      /\ (board \in FreshestFirst /\ changes = {} =>
            Current(a) /\ (board # "trello" => FresherFirst(a)))
  BY <1>0, <1>15 DEF PagesRead
<1>6. rows = a \o b
  BY <1>15, <1>16
<1>18. rows \in Seq(RowRecord) /\ Joined(a, b, rows)
  BY <1>3, <1>6, Appended
<1>7. /\ Len(a) \in Nat /\ Len(b) \in Nat
      /\ rows \in Seq(RowRecord) /\ DOMAIN rows = 1..(Len(a) + Len(b))
      /\ DOMAIN a = 1..Len(a) /\ DOMAIN b = 1..Len(b)
      /\ \A i \in 1..Len(a) : i \in DOMAIN rows /\ rows[i] = a[i]
      /\ \A n \in 1..Len(b) : Len(a) + n \in DOMAIN rows /\ rows[Len(a) + n] = b[n]
      /\ \A i \in DOMAIN rows : i \in 1..Len(a) \/ \E n \in 1..Len(b) : i = Len(a) + n
  BY <1>18 DEF Joined
<1>8. \A n \in 1..Len(b) : b[n].key = page[place[n]] /\ b[n].timestamp = items[b[n].key].stamp
  <2> TAKE n \in 1..Len(b)
  <2>1. b[n] = [key |-> page[place[n]], timestamp |-> items[page[place[n]]].stamp]
    BY <1>4 DEF Row
  <2> QED
    BY <2>1
<1>9. Keys(a) \subseteq Keys(rows)
  BY <1>7 DEF Keys
<1>10. \A i \in DOMAIN page : page[i] \notin Skipped => page[i] \in Keys(rows)
  <2> TAKE i \in DOMAIN page
  <2> HAVE page[i] \notin Skipped
  <2>1. PICK n \in 1..Len(b) : place[n] = i
    BY <1>4
  <2>2. Len(a) + n \in DOMAIN rows /\ rows[Len(a) + n].key = page[i]
    BY <1>7, <1>8, <2>1
  <2> QED
    BY <2>2 DEF Keys
<1>11. \A c \in There : IsTask(c) /\ c \in Skipped => c \in Keys(a)
  BY <1>15 DEF IsTask, Skipped
<1>12. ReadUpTo(page, rows)
  <2> SUFFICES ASSUME NEW c \in start \cap There, IsTask(c), Undisturbed(c), c \notin Keys(rows),
                      ~(board = "yougile" /\ items[c].column > reader.column)
               PROVE  c \in Visible /\ Full(page) /\ AfterPage(page, c)
    BY DEF ReadUpTo
  <2>1. Ahead(c) /\ c \notin Skipped
    BY <1>5, <1>9, <1>11, <1>15 DEF NothingMissed
  <2>2. c \in Visible /\ NotPassed(c)
    BY <2>1 DEF Ahead
  <2>3. ~ \E i \in DOMAIN page : page[i] = c
    BY <1>10, <2>1
  <2> QED
    BY <1>1, <2>2, <2>3
<1>13. ASSUME board = "trello" PROVE OnceUpTo(page, rows)
  <2>1. /\ \A i, j \in DOMAIN a : a[i].key = a[j].key => i = j
        /\ \A i \in DOMAIN a : reader.cursor # NoCursor /\ Rank(a[i].key) <= reader.cursor
    BY <1>5, <1>13 DEF ReadOnce
  <2>2. \A i \in DOMAIN page : reader.cursor = NoCursor \/ Rank(page[i]) > reader.cursor
    BY <1>1, <1>13 DEF NotPassed, ByCursor
  <2>3. reader.cursor \in Int /\ \A i \in DOMAIN page : Rank(page[i]) \in Int /\ page[i] \in Item
    BY <1>0, <1>1, <1>2, Ranks DEF Listed, ReaderState
  <2>4. \A i \in DOMAIN a : Rank(a[i].key) \in Int
    <3> TAKE i \in DOMAIN a
    <3>1. a[i].key \in Nat
      <4>1. a[i] \in RowRecord
        BY <1>3, <1>7, ElementOfSeq
      <4> QED
        BY <4>1, ListingAssumption DEF RowRecord
    <3>2. order = "creation"
      BY <1>0, <1>13, Sortings
    <3>3. Rank(a[i].key) = -a[i].key
      BY <1>13, <3>2 DEF Rank
    <3> QED
      BY <3>1, <3>3
  <2>5. \A i \in DOMAIN page, j \in DOMAIN a : Rank(a[j].key) < Rank(page[i])
    BY <2>1, <2>2, <2>3, <2>4
  <2>6. \A i \in DOMAIN page : page[i] \notin Keys(a)
    BY <2>3, <2>5 DEF Keys
  <2>7. Skipped = Keys(a)
    BY <1>13, <1>15 DEF Skipped
  <2>8. \A m, n \in 1..Len(b) : m # n => Rank(b[m].key) # Rank(b[n].key)
    <3> TAKE m, n \in 1..Len(b)
    <3> HAVE m # n
    <3>1. place[m] < place[n] \/ place[n] < place[m]
      BY <1>4, <1>7
    <3> QED
      BY <1>1, <1>4, <1>8, <2>3, <3>1
  <2>9. ASSUME NEW i \in DOMAIN rows, NEW j \in DOMAIN rows, rows[i].key = rows[j].key
        PROVE  i = j
    <3>1. CASE i \in 1..Len(a) /\ j \in 1..Len(a)
      BY <1>7, <2>1, <2>9, <3>1
    <3>2. CASE i \in 1..Len(a) /\ j \notin 1..Len(a)
      <4>1. PICK n \in 1..Len(b) : j = Len(a) + n
        BY <1>7, <3>2
      <4>2. rows[j] = b[n] /\ rows[i] = a[i]
        BY <1>7, <3>2, <4>1
      <4>3. b[n].key \notin Keys(a)
        BY <1>4, <1>8, <2>6
      <4> QED
        BY <1>7, <2>9, <3>2, <4>2, <4>3 DEF Keys
    <3>3. CASE i \notin 1..Len(a) /\ j \in 1..Len(a)
      <4>1. PICK n \in 1..Len(b) : i = Len(a) + n
        BY <1>7, <3>3
      <4>2. rows[i] = b[n] /\ rows[j] = a[j]
        BY <1>7, <3>3, <4>1
      <4>3. b[n].key \notin Keys(a)
        BY <1>4, <1>8, <2>6
      <4> QED
        BY <1>7, <2>9, <3>3, <4>2, <4>3 DEF Keys
    <3>4. CASE i \notin 1..Len(a) /\ j \notin 1..Len(a)
      <4>1. PICK m \in 1..Len(b), n \in 1..Len(b) : i = Len(a) + m /\ j = Len(a) + n
        BY <1>7, <3>4
      <4>3. rows[i] = b[m] /\ rows[j] = b[n]
        BY <1>7, <4>1
      <4>2. m = n
        BY <2>8, <2>9, <4>3
      <4> QED
        BY <4>1, <4>2
    <3> QED
      BY <3>1, <3>2, <3>3, <3>4
  <2>10. ASSUME page # << >>, NEW i \in DOMAIN rows
         PROVE  Rank(rows[i].key) <= Rank(page[Len(page)])
    <3>1. Len(page) \in DOMAIN page
      BY <1>1, <2>10, EmptySeq
    <3>2. CASE i \in 1..Len(a)
      <4>1. Rank(a[i].key) < Rank(page[Len(page)]) /\ rows[i] = a[i]
        BY <1>7, <2>5, <3>1, <3>2
      <4> QED
        BY <1>7, <2>3, <2>4, <3>1, <3>2, <4>1
    <3>3. CASE i \notin 1..Len(a)
      <4>1. PICK n \in 1..Len(b) : i = Len(a) + n
        BY <1>7, <3>3
      <4>2. rows[i].key = page[place[n]] /\ place[n] \in DOMAIN page
        BY <1>4, <1>7, <1>8, <4>1
      <4>3. place[n] = Len(page) \/ place[n] < Len(page)
        BY <1>1, <4>2
      <4> QED
        BY <1>1, <2>3, <3>1, <4>2, <4>3
    <3> QED
      BY <3>2, <3>3
  <2>11. ASSUME b = << >> PROVE page = << >>
    <3>1. Len(b) = 0
      BY <2>11, EmptySeq
    <3>2. DOMAIN page = {}
      <4> SUFFICES ASSUME NEW i \in DOMAIN page PROVE FALSE
        OBVIOUS
      <4>1. page[i] \notin Skipped
        BY <2>6, <2>7
      <4> QED
        BY <1>4, <3>1, <4>1
    <3> QED
      BY <1>1, <3>2, EmptySeq
  <2> QED
    BY <1>16, <2>9, <2>10, <2>11 DEF OnceUpTo
<1>14. ASSUME board \in FreshestFirst, changes = {}
       PROVE  Current(rows) /\ (board # "trello" => FresherFirst(rows))
  <2>1. Current(a) /\ (board # "trello" => FresherFirst(a))
    BY <1>5, <1>14
  <2>2. Current(rows)
    <3> SUFFICES ASSUME NEW i \in DOMAIN rows PROVE rows[i].timestamp = items[rows[i].key].stamp
      BY DEF Current
    <3>1. CASE i \in 1..Len(a)
      BY <1>7, <2>1, <3>1 DEF Current
    <3>2. CASE i \notin 1..Len(a)
      <4>1. PICK n \in 1..Len(b) : i = Len(a) + n
        BY <1>7, <3>2
      <4>2. rows[i] = b[n]
        BY <1>7, <4>1
      <4> QED
        BY <1>8, <4>2
    <3> QED
      BY <3>1, <3>2
  <2>3. ASSUME board # "trello", NEW i \in DOMAIN rows, NEW c \in There, IsTask(c),
               items[c].stamp > rows[i].timestamp
        PROVE  \E j \in DOMAIN rows : j < i /\ rows[j].key = c
    <3>1. CASE i \in 1..Len(a)
      <4>1. PICK j \in DOMAIN a : j < i /\ a[j].key = c
        BY <1>7, <2>1, <2>3, <3>1 DEF FresherFirst
      <4> QED
        BY <1>7, <4>1
    <3>2. CASE i \notin 1..Len(a)
      <4>1. PICK n \in 1..Len(b) : i = Len(a) + n
        BY <1>7, <3>2
      <4>2. /\ place[n] \in DOMAIN page /\ page[place[n]] \in There
            /\ rows[i].timestamp = items[page[place[n]]].stamp
        BY <1>1, <1>2, <1>4, <1>7, <1>8, <4>1
      <4>3. Rank(c) < Rank(page[place[n]])
        <5>1. order = "newest"
          BY <1>0, <1>14, <2>3, Sortings DEF FreshestFirst
        <5>2. \A d : Rank(d) = -items[d].stamp
          BY <2>3, <5>1 DEF Rank
        <5>3. items[c].stamp \in Nat /\ items[page[place[n]]].stamp \in Nat
          BY <1>0, <4>2, Ranks
        <5>4. items[c].stamp > items[page[place[n]]].stamp
          BY <2>3, <4>2
        <5> QED
          BY <5>2, <5>3, <5>4
      <4>4. c \in start /\ Undisturbed(c)
        BY <1>0, <1>14 DEF Listed, Undisturbed, Did, DidTo
      <4>5. CASE c \in Keys(a)
        <5>1. PICK j \in DOMAIN a : a[j].key = c
          BY <4>5 DEF Keys
        <5>2. j < i
          BY <1>7, <4>1, <5>1
        <5> QED
          BY <1>7, <5>1, <5>2
      <4>6. CASE c \notin Keys(a)
        <5>1. c \in Visible /\ NotPassed(c)
          BY <1>5, <1>14, <1>15, <2>3, <4>4, <4>6 DEF NothingMissed, Ahead, FreshestFirst
        <5>2. ~AfterPage(page, c)
          BY <1>0, <1>2, <4>2, <4>3, <5>1, Ranks DEF AfterPage
        <5>3. PICK k \in DOMAIN page : page[k] = c
          BY <1>1, <5>1, <5>2
        <5>4. k < place[n]
          <6>1. Rank(c) \in Int /\ Rank(page[place[n]]) \in Int
            BY <1>0, <4>2, Ranks
          <6>2. k # place[n] /\ ~(place[n] < k)
            BY <1>1, <4>2, <4>3, <5>3, <6>1
          <6> QED
            BY <1>1, <4>2, <6>2
        <5>5. PICK m \in 1..Len(b) : place[m] = k
          BY <1>4, <1>11, <2>3, <4>6, <5>3
        <5>6. m < n
          BY <1>1, <1>4, <1>7, <5>4, <5>5
        <5>7. Len(a) + m \in DOMAIN rows /\ Len(a) + m < i /\ rows[Len(a) + m].key = c
          <6>1. Len(a) + m \in DOMAIN rows /\ rows[Len(a) + m] = b[m]
            BY <1>7
          <6>2. Len(a) + m < i
            BY <1>7, <4>1, <5>6
          <6> QED
            BY <1>8, <5>3, <5>5, <6>1, <6>2
        <5> QED
          BY <5>7
      <4> QED
        BY <4>5, <4>6
    <3> QED
      BY <3>1, <3>2
  <2> QED
    BY <2>2, <2>3 DEF FresherFirst
<1> QED
  BY <1>7, <1>12, <1>13, <1>14

\* Sorted by freshness and cut, the rows keep the freshest.
LEMMA FreshestFacts ==
  ASSUME NEW rows \in Seq(RowRecord), limit \in Nat,
         \A i, j \in DOMAIN rows : rows[i].key = rows[j].key => i = j
  PROVE  /\ Freshest(rows) \in Seq(RowRecord)
         /\ Len(rows) <= limit => Keys(rows) \subseteq Keys(Freshest(rows))
         /\ \A i \in DOMAIN Freshest(rows), k \in DOMAIN rows :
              rows[k].timestamp > Freshest(rows)[i].timestamp =>
                rows[k].key \in Keys(Freshest(rows))
<1>1. PICK before :
        before = [i \in DOMAIN rows |-> {j \in DOMAIN rows : FresherThan(rows[j], rows[i])}]
  OBVIOUS
<1>2. /\ Len(rows) \in Nat /\ DOMAIN rows = 1..Len(rows)
      /\ IsFiniteSet(DOMAIN rows) /\ Cardinality(DOMAIN rows) = Len(rows)
  <2>1. Len(rows) \in Nat /\ DOMAIN rows = 1..Len(rows)
    BY LenProperties
  <2>2. /\ IsFiniteSet(1..Len(rows))
        /\ Cardinality(1..Len(rows)) = IF 1 > Len(rows) THEN 0 ELSE Len(rows) - 1 + 1
    <3>1. 1 \in Int /\ Len(rows) \in Int
      BY <2>1
    <3> QED
      BY <3>1, FS_Interval
  <2>3. Cardinality(1..Len(rows)) = Len(rows)
    BY <2>1, <2>2
  <2> QED
    BY <2>1, <2>2, <2>3
<1>3. \A i \in DOMAIN rows : rows[i].key \in Nat /\ rows[i].timestamp \in Nat /\ rows[i] \in RowRecord
  <2> TAKE i \in DOMAIN rows
  <2>1. rows[i] \in RowRecord
    BY <1>2, ElementOfSeq
  <2> QED
    BY <2>1, ListingAssumption DEF RowRecord
<1>4. \A i \in DOMAIN rows : before[i] \subseteq DOMAIN rows /\ i \notin before[i]
  BY <1>1, <1>3 DEF FresherThan
<1>5. \A i, j \in DOMAIN rows : i # j => i \in before[j] \/ j \in before[i]
  <2> TAKE i, j \in DOMAIN rows
  <2> HAVE i # j
  <2>1. FresherThan(rows[i], rows[j]) \/ FresherThan(rows[j], rows[i])
    <3>1. rows[i].key # rows[j].key
      OBVIOUS
    <3>2. /\ rows[i].key \in Nat /\ rows[i].timestamp \in Nat
          /\ rows[j].key \in Nat /\ rows[j].timestamp \in Nat
      BY <1>3
    <3> QED
      BY <3>1, <3>2 DEF FresherThan
  <2> QED
    BY <1>1, <2>1
<1>6. \A i, j \in DOMAIN rows : i \in before[j] => before[i] \subseteq before[j]
  <2> SUFFICES ASSUME NEW i \in DOMAIN rows, NEW j \in DOMAIN rows, NEW k \in DOMAIN rows,
                      FresherThan(rows[i], rows[j]), FresherThan(rows[k], rows[i])
               PROVE  FresherThan(rows[k], rows[j])
    BY <1>1
  <2>1. /\ rows[i].key \in Nat /\ rows[i].timestamp \in Nat
        /\ rows[j].key \in Nat /\ rows[j].timestamp \in Nat
        /\ rows[k].key \in Nat /\ rows[k].timestamp \in Nat
    BY <1>3
  <2> QED
    BY <2>1 DEF FresherThan
<1>7. PICK place : place = InOrder(DOMAIN rows, before)
  OBVIOUS
<1>8. /\ place \in [1..Len(rows) -> DOMAIN rows]
      /\ \A k \in DOMAIN rows : \E n \in 1..Len(rows) : place[n] = k
      /\ \A m, n \in 1..Len(rows) : m < n => place[m] \in before[place[n]]
  <2>1. Arranged(DOMAIN rows, before, place)
    BY <1>2, <1>4, <1>5, <1>6, <1>7, Orderly
  <2> QED
    BY <1>2, <2>1 DEF Arranged
<1>9. PICK s : s = [n \in DOMAIN rows |-> rows[place[n]]]
  OBVIOUS
<1>10. s \in Seq(RowRecord) /\ Len(s) = Len(rows) /\ DOMAIN s = 1..Len(rows)
  <2>1. s \in [1..Len(rows) -> RowRecord]
    BY <1>2, <1>3, <1>8, <1>9
  <2> QED
    BY <1>2, <2>1
<1>11. Freshest(rows) = IF Len(s) > limit THEN SubSeq(s, 1, limit) ELSE s
  BY <1>1, <1>7, <1>9 DEF Freshest
<1>12. PICK f : f = Freshest(rows)
  OBVIOUS
<1>18. PICK size : size = IF Len(s) > limit THEN limit ELSE Len(s)
  OBVIOUS
<1>13. /\ size \in Nat /\ size <= Len(rows)
       /\ f \in Seq(RowRecord) /\ DOMAIN f = 1..size
       /\ \A i \in 1..size : f[i] = s[i]
       /\ Len(rows) <= limit => size = Len(rows)
  <2>1. CASE Len(s) > limit
    <3>1. f = SubSeq(s, 1, limit) /\ size = limit
      BY <1>11, <1>12, <1>18, <2>1
    <3>2. \A i \in 1..limit : s[i] \in RowRecord
      BY <1>2, <1>10, <2>1, ElementOfSeq
    <3>3. 1 \in Int /\ limit \in Int /\ limit - 1 + 1 = limit
      OBVIOUS
    <3>4. /\ f \in Seq(RowRecord) /\ Len(f) = IF 1 <= limit THEN limit - 1 + 1 ELSE 0
          /\ \A i \in 1..(limit - 1 + 1) : f[i] = s[1 + i - 1]
      BY <3>1, <3>2, <3>3, SubSeqProperties
    <3>5. Len(f) = limit /\ DOMAIN f = 1..limit
      BY <3>4, LenProperties
    <3>6. \A i \in 1..limit : f[i] = s[i]
      BY <3>3, <3>4
    <3>7. limit < Len(rows) /\ limit <= Len(rows)
      BY <1>2, <1>10, <2>1
    <3> QED
      BY <3>1, <3>4, <3>5, <3>6, <3>7
  <2>2. CASE ~(Len(s) > limit)
    <3>1. f = s /\ size = Len(rows)
      BY <1>10, <1>11, <1>12, <1>18, <2>2
    <3> QED
      BY <1>2, <1>10, <3>1
  <2> QED
    BY <2>1, <2>2
<1>14. \A i \in 1..size : i \in 1..Len(rows) /\ f[i] = rows[place[i]] /\ place[i] \in DOMAIN rows
  <2> TAKE i \in 1..size
  <2>1. i \in 1..Len(rows)
    <3>1. size \in Nat /\ size <= Len(rows) /\ Len(rows) \in Nat
      BY <1>2, <1>13
    <3> QED
      BY <3>1
  <2>2. s[i] = rows[place[i]] /\ place[i] \in DOMAIN rows
    BY <1>2, <1>8, <1>9, <2>1
  <2> QED
    BY <1>13, <2>1, <2>2
<1>15. ASSUME Len(rows) <= limit, NEW k \in DOMAIN rows PROVE rows[k].key \in Keys(f)
  <2>1. PICK n \in 1..Len(rows) : place[n] = k
    BY <1>8
  <2>2. n \in DOMAIN f /\ f[n].key = rows[k].key
    BY <1>13, <1>14, <1>15, <2>1
  <2> QED
    BY <2>2 DEF Keys
<1>16. ASSUME NEW i \in DOMAIN f, NEW k \in DOMAIN rows, rows[k].timestamp > f[i].timestamp
       PROVE  rows[k].key \in Keys(f)
  <2>1. PICK n \in 1..Len(rows) : place[n] = k
    BY <1>8
  <2>2. i \in 1..Len(rows) /\ i \in 1..size /\ f[i] = rows[place[i]] /\ place[i] \in DOMAIN rows
    BY <1>13, <1>14
  <2>3. FresherThan(rows[k], rows[place[i]]) /\ ~FresherThan(rows[place[i]], rows[k])
    <3>1. rows[k].timestamp > rows[place[i]].timestamp
      BY <1>16, <2>2
    <3>2. rows[k].timestamp \in Nat /\ rows[place[i]].timestamp \in Nat
      BY <1>3, <2>2
    <3> QED
      BY <3>1, <3>2 DEF FresherThan
  <2>4. n # i /\ ~(i < n)
    <3>1. place[n] # place[i]
      BY <1>3, <2>1, <2>2, <2>3 DEF FresherThan
    <3>2. place[i] \notin before[place[n]]
      BY <1>1, <2>1, <2>3
    <3> QED
      BY <1>8, <2>2, <3>1, <3>2
  <2>5. n \in 1..size
    BY <1>13, <2>2, <2>4
  <2>6. n \in DOMAIN f /\ f[n].key = rows[k].key
    BY <1>13, <1>14, <2>1, <2>5
  <2> QED
    BY <2>6 DEF Keys
<1>17. Keys(f) = {f[i].key : i \in DOMAIN f} /\ Keys(rows) = {rows[i].key : i \in DOMAIN rows}
  BY DEF Keys
<1> QED
  BY <1>12, <1>13, <1>15, <1>16, <1>17

\* What is cut off at the limit is the end.
LEMMA CappedFacts ==
  ASSUME NEW rows \in Seq(RowRecord), limit \in Nat
  PROVE  /\ Capped(rows) \in Seq(RowRecord) /\ Len(Capped(rows)) \in Nat
         /\ board = "trello" \/ Len(Capped(rows)) < limit => Capped(rows) = rows
         /\ Current(rows) => Current(Capped(rows))
         /\ FresherFirst(rows) => FresherFirst(Capped(rows))
<1>1. Len(rows) \in Nat /\ DOMAIN rows = 1..Len(rows)
  BY LenProperties
<1>2. CASE board # "trello" /\ Len(rows) > limit
  <2>1. PICK f : f = Capped(rows)
    OBVIOUS
  <2>2. f = SubSeq(rows, 1, limit)
    BY <1>2, <2>1 DEF Capped
  <2>3. \A i \in 1..limit : rows[i] \in RowRecord
    BY <1>1, <1>2, ElementOfSeq
  <2>4. 1 \in Int /\ limit \in Int /\ limit - 1 + 1 = limit
    OBVIOUS
  <2>5. /\ f \in Seq(RowRecord) /\ Len(f) = IF 1 <= limit THEN limit - 1 + 1 ELSE 0
        /\ \A i \in 1..(limit - 1 + 1) : f[i] = rows[1 + i - 1]
    BY <2>2, <2>3, <2>4, SubSeqProperties
  <2>6. Len(f) = limit /\ DOMAIN f = 1..limit
    BY <2>5, LenProperties
  <2>7. \A i \in 1..limit : f[i] = rows[i] /\ i \in DOMAIN rows
    BY <1>1, <1>2, <2>4, <2>5
  <2>8. Current(rows) => Current(f)
    BY <2>6, <2>7 DEF Current
  <2>9. ASSUME FresherFirst(rows), NEW i \in DOMAIN f, NEW c \in There, IsTask(c),
               items[c].stamp > f[i].timestamp
        PROVE  \E j \in DOMAIN f : j < i /\ f[j].key = c
    <3>1. PICK j \in DOMAIN rows : j < i /\ rows[j].key = c
      BY <2>6, <2>7, <2>9 DEF FresherFirst
    <3>2. j \in 1..limit
      BY <1>1, <2>6, <3>1
    <3> QED
      BY <2>6, <2>7, <3>1, <3>2
  <2>10. FresherFirst(rows) => FresherFirst(f)
    BY <2>9 DEF FresherFirst
  <2>11. ~(board = "trello" \/ Len(f) < limit)
    BY <1>2, <2>6
  <2> QED
    BY <2>1, <2>5, <2>6, <2>8, <2>10, <2>11
<1>3. CASE ~(board # "trello" /\ Len(rows) > limit)
  <2>1. Capped(rows) = rows
    BY <1>3 DEF Capped
  <2> QED
    BY <1>1, <2>1
<1> QED
  BY <1>2, <1>3

\* After the last page nothing is left.
LEMMA LastIsLast ==
  ASSUME Listed, NEW page, page = Cut(Rest), LastPage(page),
         board = "trello" => (Rows(page) = << >> => page = << >>)
  PROVE  ~Full(page)
<1>1. /\ Len(page) \in Nat /\ Len(Rest) \in Nat
      /\ PageSize \in Nat /\ PageSize > 0
      /\ page = << >> => Len(page) = 0
  BY PageFacts, RestFacts, LenProperties, EmptySeq, ListingAssumption
<1>2. Len(Rest) <= PageSize \/ Len(page) < PageSize \/ page = << >>
  <2>1. CASE board \in {"weeek", "jira", "asana", "linear", "clickup"}
    BY <2>1 DEF LastPage
  <2>2. CASE board = "trello"
    BY <2>2 DEF LastPage
  <2>3. CASE board \notin {"weeek", "jira", "asana", "linear", "clickup", "trello"}
    BY <2>3 DEF LastPage
  <2> QED
    BY <2>1, <2>2, <2>3
<1> QED
  BY <1>1, <1>2 DEF Full

\* The reader after a page, before it is decided how to go on.
NextReader(page, rows) ==
  LET read == [reader EXCEPT !.pages = IF board \in Counting THEN @ + 1 ELSE @,
                             !.rows = Capped(rows)]
  IN IF page = << >> THEN read
     ELSE IF board \in ByCursor
     THEN [read EXCEPT !.cursor = CursorAfter(page)]
     ELSE [read EXCEPT !.offset = @ + (IF board \in ByPage THEN PageSize ELSE Len(page))]

LEMMA NextFacts ==
  ASSUME ListInv, reader.pc = "reading", NEW page, page = Cut(Rest),
         NEW rows \in Seq(RowRecord), NEW r, r = NextReader(page, rows)
  PROVE  /\ r \in ReaderState /\ r.pc = "reading" /\ r.column = reader.column
         /\ r.rows = Capped(rows)
         /\ page # << >> /\ board \in ByCursor => r.cursor = Rank(page[Len(page)])
         /\ page = << >> \/ board \notin ByCursor => r.cursor = reader.cursor
         /\ Full(page) /\ board \notin ByCursor => r.offset = reader.offset + Len(page)
<1>0. Listed
  BY DEF ListInv
<1>1. reader \in ReaderState /\ limit \in Nat
  BY <1>0, ListingAssumption DEF Listed
<1>2. PICK capped : capped = Capped(rows)
  OBVIOUS
<1>3. capped \in Seq(RowRecord)
  BY <1>1, <1>2, CappedFacts
<1>4. /\ page \in Seq(Visible) /\ Len(page) \in Nat /\ DOMAIN page = 1..Len(page)
      /\ \A i \in DOMAIN page : page[i] \in There /\ Rank(page[i]) \in Int
  BY <1>0, PageFacts, Ranks
<1>5. PICK pages : pages = IF board \in Counting THEN reader.pages + 1 ELSE reader.pages
  OBVIOUS
<1>6. PICK read : read = [reader EXCEPT !.pages = pages, !.rows = capped]
  OBVIOUS
<1>7. pages \in Nat
  BY <1>1, <1>5 DEF ReaderState
<1>8. /\ read \in ReaderState /\ read.pc = "reading" /\ read.column = reader.column
      /\ read.rows = capped /\ read.cursor = reader.cursor /\ read.offset = reader.offset
  BY <1>1, <1>3, <1>6, <1>7 DEF ReaderState, RowRecord
<1>9. r = IF page = << >> THEN read
          ELSE IF board \in ByCursor
          THEN [read EXCEPT !.cursor = CursorAfter(page)]
          ELSE [read EXCEPT !.offset = @ + (IF board \in ByPage THEN PageSize ELSE Len(page))]
  BY <1>2, <1>5, <1>6 DEF NextReader
<1>10. PageSize \in Nat /\ PageSize > 0
  BY ListingAssumption
<1>11. CASE page = << >>
  <2>1. ~Full(page)
    BY <1>10, <1>11, EmptySeq DEF Full
  <2> QED
    BY <1>2, <1>8, <1>9, <1>11, <2>1
<1>12. CASE page # << >> /\ board \in ByCursor
  <2>1. Len(page) \in DOMAIN page
    BY <1>4, <1>12, EmptySeq
  <2>2. CursorAfter(page) = Rank(page[Len(page)]) /\ CursorAfter(page) \in Int
    BY <1>4, <2>1 DEF CursorAfter
  <2>3. r = [read EXCEPT !.cursor = CursorAfter(page)]
    BY <1>9, <1>12
  <2>4. /\ r \in ReaderState /\ r.pc = "reading" /\ r.column = reader.column
        /\ r.rows = capped /\ r.cursor = CursorAfter(page)
    BY <1>8, <2>2, <2>3 DEF ReaderState
  <2> QED
    BY <1>2, <1>12, <2>2, <2>4
<1>13. CASE page # << >> /\ board \notin ByCursor
  <2>1. PICK size \in Nat : size = IF board \in ByPage THEN PageSize ELSE Len(page)
    BY <1>4, <1>10
  <2>2. r = [read EXCEPT !.offset = @ + size]
    BY <1>9, <1>13, <2>1
  <2>3. /\ r \in ReaderState /\ r.pc = "reading" /\ r.column = reader.column
        /\ r.rows = capped /\ r.cursor = reader.cursor /\ r.offset = reader.offset + size
    <3>1. PICK offset \in Nat : offset = read.offset + size
      BY <1>8 DEF ReaderState
    <3>2. r = [read EXCEPT !.offset = offset]
      BY <2>2, <3>1
    <3> QED
      BY <1>8, <3>1, <3>2 DEF ReaderState
  <2>4. Full(page) => size = Len(page)
    BY <2>1 DEF Full
  <2> QED
    BY <1>2, <1>13, <2>3, <2>4
<1> QED
  BY <1>11, <1>12, <1>13

\* The invariant does not depend on the reader where nothing is read.
LEMMA ListedOn ==
  ASSUME Listed, reader.pc = "reading", reader' \in ReaderState, reader'.pc # "idle",
         UNCHANGED <<board, order, items, clock, limit, start, changes>>
  PROVE  Listed'
BY DEF Listed, Stamped, Sorting, There

\* The reader goes on with the next page.
LEMMA GoesOn ==
  ASSUME ListInv, reader.pc = "reading", NEW page, page = Cut(Rest), ~LastPage(page),
         NEW rows, rows = reader.rows \o Rows(page),
         reader' = NextReader(page, rows), board = "trello" \/ Len(reader'.rows) < limit,
         UNCHANGED <<board, order, items, clock, limit, start, changes>>
  PROVE  ListInv'
<1>0. Listed /\ PagesRead
  BY DEF ListInv
<1>1. /\ rows \in Seq(RowRecord) /\ ReadUpTo(page, rows)
      /\ board = "trello" => OnceUpTo(page, rows)
      /\ board \in FreshestFirst /\ changes = {} =>
           Current(rows) /\ (board # "trello" => FresherFirst(rows))
  BY PageRead
<1>2. /\ reader' \in ReaderState /\ reader'.pc = "reading" /\ reader'.column = reader.column
      /\ reader'.rows = Capped(rows)
      /\ page # << >> /\ board \in ByCursor => reader'.cursor = Rank(page[Len(page)])
      /\ page = << >> \/ board \notin ByCursor => reader'.cursor = reader.cursor
      /\ Full(page) /\ board \notin ByCursor => reader'.offset = reader.offset + Len(page)
  BY <1>1, NextFacts
<1>3. reader'.rows = rows
  <2>1. limit \in Nat
    BY <1>0, ListingAssumption DEF Listed
  <2> QED
    BY <1>1, <1>2, <2>1, CappedFacts
<1>4. Listed'
  BY <1>0, <1>2, ListedOn
<1>5. \A c : Rank(c)' = Rank(c)
  BY DEF Rank
<1>6. Visible' = Visible /\ There' = There
  BY <1>2 DEF Visible, There
<1>7. \A c : Position(c)' = Position(c)
  BY <1>5, <1>6 DEF Position
<1>8. /\ Len(page) \in Nat /\ DOMAIN page = 1..Len(page) /\ page \in Seq(Visible)
      /\ \A i \in DOMAIN page : page[i] \in There
      /\ \A c \in There : Rank(c) \in Int /\ Rank(c) # 0
  BY <1>0, PageFacts, Ranks
<1>9. ASSUME Full(page) PROVE page # << >> /\ Len(page) \in DOMAIN page
  <2>1. Len(page) > 0
    BY <1>9, ListingAssumption DEF Full
  <2> QED
    BY <1>8, <2>1, EmptySeq
<1>10. NothingMissed'
  <2> SUFFICES ASSUME NEW c \in start \cap There, IsTask(c), Undisturbed(c), c \notin Keys(rows)
               PROVE  Ahead(c)'
    BY <1>3, <1>6 DEF NothingMissed, Keys, IsTask, Undisturbed, Did, DidTo
  <2>1. CASE board = "yougile" /\ items[c].column > reader.column
    BY <1>2, <2>1 DEF Ahead
  <2>2. CASE c \in Visible /\ Full(page) /\ AfterPage(page, c)
    <3>1. CASE board \in ByCursor
      <4>1. reader'.cursor = Rank(page[Len(page)]) /\ Rank(page[Len(page)]) < Rank(c)
        BY <1>2, <1>9, <2>2, <3>1 DEF AfterPage
      <4>2. Rank(c) > reader'.cursor
        BY <1>8, <1>9, <2>2, <4>1
      <4> QED
        BY <1>5, <1>6, <2>2, <3>1, <4>2 DEF Ahead, NotPassed
    <3>2. CASE board \notin ByCursor
      <4>1. Position(c) >= reader'.offset
        BY <1>2, <2>2, <3>2 DEF AfterPage
      <4> QED
        BY <1>6, <1>7, <2>2, <3>2, <4>1 DEF Ahead, NotPassed
    <3> QED
      BY <3>1, <3>2
  <2> QED
    BY <1>1, <2>1, <2>2 DEF ReadUpTo
<1>11. board = "trello" => ReadOnce(reader.rows, reader.cursor)'
  <2> SUFFICES ASSUME board = "trello" PROVE ReadOnce(reader.rows, reader.cursor)'
    OBVIOUS
  <2>1. page # << >>
    <3>1. ~(Len(page) < PageSize)
      BY DEF LastPage
    <3> QED
      BY <1>8, <3>1, EmptySeq, ListingAssumption
  <2>2. /\ \A i, j \in DOMAIN rows : rows[i].key = rows[j].key => i = j
        /\ \A i \in DOMAIN rows : Rank(rows[i].key) <= Rank(page[Len(page)])
    BY <1>1, <2>1 DEF OnceUpTo
  <2>3. reader'.cursor = Rank(page[Len(page)]) /\ reader'.cursor # NoCursor
    <3>1. Len(page) \in DOMAIN page
      BY <1>8, <2>1, EmptySeq
    <3> QED
      BY <1>2, <1>8, <2>1, <3>1 DEF ByCursor, NoCursor
  <2> QED
    BY <1>3, <1>5, <2>2, <2>3 DEF ReadOnce
<1>12. order = "oldest" => reader'.cursor <= clock
  <2>1. CASE page = << >> \/ board \notin ByCursor
    BY <1>0, <1>2, <2>1 DEF PagesRead
  <2>2. CASE page # << >> /\ board \in ByCursor /\ order = "oldest"
    <3>1. Len(page) \in DOMAIN page
      BY <1>8, <2>2, EmptySeq
    <3>2. Rank(page[Len(page)]) = items[page[Len(page)]].stamp
      <4>1. board # "trello"
        BY <1>0, <2>2, Sortings
      <4> QED
        BY <2>2, <4>1 DEF Rank
    <3> QED
      BY <1>0, <1>2, <1>8, <2>2, <3>1, <3>2, Ranks
  <2> QED
    BY <2>1, <2>2
<1>13. board \in FreshestFirst /\ changes = {} =>
         Current(reader.rows)' /\ (board # "trello" => FresherFirst(reader.rows)')
  <2>1. Current(reader.rows)' <=> Current(rows)
    BY <1>3 DEF Current
  <2>2. FresherFirst(reader.rows)' <=> FresherFirst(rows)
    BY <1>3, <1>6 DEF FresherFirst, IsTask
  <2> QED
    BY <1>1, <2>1, <2>2
<1>14. PagesRead'
  BY <1>10, <1>11, <1>12, <1>13 DEF PagesRead, FreshestFirst
<1>15. ListingKeepsItsWord'
  BY <1>2 DEF ListingKeepsItsWord, ListingIsSound, LimitTakesTheFreshest
<1> QED
  BY <1>4, <1>14, <1>15 DEF ListInv

\* Every task that was there from the begin is among the rows.
Sound(rows) ==
  \A c \in start \cap There : IsTask(c) /\ Undisturbed(c) => c \in Keys(rows)

\* The rows are the freshest tasks.
TheFreshest(rows) ==
  board \in FreshestFirst /\ changes = {} =>
    \A i \in DOMAIN rows, c \in There :
      IsTask(c) /\ items[c].stamp > rows[i].timestamp => c \in Keys(rows)

\* The reader ends.
LEMMA Ends ==
  ASSUME Listed, reader.pc = "reading", NEW r \in ReaderState, reader' = r,
         r.pc \in {"cut", "complete"}, TheFreshest(r.rows), r.pc = "complete" => Sound(r.rows),
         UNCHANGED <<board, order, items, clock, limit, start, changes>>
  PROVE  ListInv'
<1>1. Listed'
  BY ListedOn
<1>2. PagesRead'
  BY DEF PagesRead
<1>3. There' = There
  BY DEF There
<1>4. ListingIsSound'
  BY <1>3 DEF ListingIsSound, Sound, IsTask, Undisturbed, Did, DidTo, Keys
<1>5. LimitTakesTheFreshest'
  BY <1>3 DEF LimitTakesTheFreshest, TheFreshest, IsTask, Keys, FreshestFirst
<1> QED
  BY <1>1, <1>2, <1>4, <1>5 DEF ListInv, ListingKeepsItsWord

\* Rows that come after all that are fresher are the freshest.
LEMMA FirstAreFresh ==
  ASSUME NEW rows, board \in FreshestFirst /\ changes = {} => FresherFirst(rows)
  PROVE  TheFreshest(rows)
BY DEF TheFreshest, FresherFirst, Keys

\* After the last page of the last column every task was read.
LEMMA NothingLeft ==
  ASSUME ListInv, reader.pc = "reading", NEW page, page = Cut(Rest), LastPage(page),
         NEW rows, rows = reader.rows \o Rows(page)
  PROVE  /\ ~Full(page) /\ ReadUpTo(page, rows)
         /\ (board = "yougile" => reader.column + 1 \notin Column) => Sound(rows)
<1>0. Listed
  BY DEF ListInv
<1>1. ReadUpTo(page, rows) /\ (board = "trello" => OnceUpTo(page, rows))
  BY PageRead
<1>2. ~Full(page)
  BY <1>0, <1>1, LastIsLast DEF OnceUpTo
<1>3. ASSUME board = "yougile" => reader.column + 1 \notin Column,
             NEW c \in start \cap There, IsTask(c), Undisturbed(c)
      PROVE  c \in Keys(rows)
  <2>1. ~(board = "yougile" /\ items[c].column > reader.column)
    <3> SUFFICES ASSUME board = "yougile", items[c].column > reader.column PROVE FALSE
      OBVIOUS
    <3>1. c \in Item /\ items[c].column \in Column /\ reader.column \in Column
      BY <1>0, <1>3 DEF Listed, Stamped, ReaderState, There
    <3>2. Cardinality(Column) \in Nat /\ Column = 1..Cardinality(Column)
      BY ListingAssumption, FS_CardinalityType
    <3>3. PICK n \in Nat : Column = 1..n
      BY <3>2
    <3>4. reader.column + 1 \notin 1..n
      BY <1>3, <3>3
    <3> QED
      BY <3>1, <3>3, <3>4
  <2> QED
    BY <1>1, <1>2, <1>3, <2>1 DEF ReadUpTo
<1> QED
  BY <1>1, <1>2, <1>3 DEF Sound

\* The rows of Trello, sorted when all were read.
LEMMA SortedAtTheEnd ==
  ASSUME ListInv, reader.pc = "reading", board = "trello", NEW page, page = Cut(Rest),
         NEW rows, rows = reader.rows \o Rows(page), Sound(rows)
  PROVE  /\ Freshest(rows) \in Seq(RowRecord)
         /\ TheFreshest(Freshest(rows))
         /\ Len(rows) <= limit => Sound(Freshest(rows))
<1>0. Listed /\ limit \in Nat
  BY ListingAssumption DEF ListInv, Listed
<1>1. /\ rows \in Seq(RowRecord) /\ OnceUpTo(page, rows)
      /\ changes = {} => Current(rows)
  BY PageRead DEF FreshestFirst
<1>2. PICK f : f = Freshest(rows)
  OBVIOUS
<1>3. /\ f \in Seq(RowRecord)
      /\ Len(rows) <= limit => Keys(rows) \subseteq Keys(f)
      /\ \A i \in DOMAIN f, k \in DOMAIN rows :
           rows[k].timestamp > f[i].timestamp => rows[k].key \in Keys(f)
  BY <1>0, <1>1, <1>2, FreshestFacts DEF OnceUpTo
<1>4. ASSUME changes = {}, NEW i \in DOMAIN f, NEW c \in There, IsTask(c),
             items[c].stamp > f[i].timestamp
      PROVE  c \in Keys(f)
  <2>1. c \in start /\ Undisturbed(c)
    BY <1>0, <1>4 DEF Listed, Undisturbed, Did, DidTo
  <2>2. PICK k \in DOMAIN rows : rows[k].key = c
    BY <1>4, <2>1 DEF Sound, Keys
  <2>3. rows[k].timestamp = items[c].stamp
    BY <1>1, <1>4, <2>2 DEF Current
  <2> QED
    BY <1>3, <1>4, <2>2, <2>3
<1>5. TheFreshest(f)
  BY <1>4 DEF TheFreshest
<1>6. Len(rows) <= limit => Sound(f)
  BY <1>3 DEF Sound
<1> QED
  BY <1>2, <1>3, <1>5, <1>6

\* Before a card there are finitely many.
Counted == \A c : Position(c) \in Nat

LEMMA CountedNow == Listed => Counted
<1> SUFFICES ASSUME Listed, NEW c PROVE Position(c) \in Nat
  BY DEF Counted
<1>1. Visible \subseteq There /\ IsFiniteSet(There)
  BY Ranks
<1>2. {d \in Visible : Rank(d) < Rank(c)} \subseteq There
  BY <1>1
<1> QED
  BY <1>1, <1>2, FS_Subset, FS_CardinalityType DEF Position

LEMMA CountedThen == Listed' => Counted'
BY CountedNow, PTL

\* At YouGile the next column is read from its begin.
LEMMA NextColumn ==
  ASSUME ListInv, reader.pc = "reading", board = "yougile", NEW page, page = Cut(Rest),
         LastPage(page), NEW rows, rows = reader.rows \o Rows(page),
         NEW r \in ReaderState, r.pc = "reading", r.column = reader.column + 1,
         r.offset = 0, r.rows = rows, r.cursor = reader.cursor, reader' = r,
         UNCHANGED <<board, order, items, clock, limit, start, changes>>
  PROVE  ListInv'
<1>0. Listed /\ PagesRead
  BY DEF ListInv
<1>1. Listed'
  BY <1>0, ListedOn
<1>2. There' = There
  BY DEF There
<1>3. ReadUpTo(page, rows) /\ ~Full(page)
  BY NothingLeft
<1>4. ASSUME NEW c \in start \cap There, IsTask(c), Undisturbed(c), c \notin Keys(rows)
      PROVE  Ahead(c)'
  <2>1. items[c].column > reader.column
    BY <1>3, <1>4 DEF ReadUpTo
  <2>2. items[c].column \in Int /\ reader.column \in Int
    <3>1. Column = 1..Cardinality(Column) /\ Cardinality(Column) \in Nat
      BY ListingAssumption, FS_CardinalityType
    <3>2. items[c].column \in Column /\ reader.column \in Column
      BY <1>0, <1>4 DEF Listed, Stamped, ReaderState, There
    <3>3. \A k \in Column : k \in Int
      <4>1. PICK n \in Nat : Column = 1..n
        BY <3>1
      <4> QED
        BY <4>1
    <3> QED
      BY <3>2, <3>3
  <2>3. CASE items[c].column = reader.column + 1
    <3>1. c \in Visible'
      BY <1>2, <1>4, <2>3 DEF Visible
    <3>2. Position(c)' \in Nat
      BY <1>1, CountedThen DEF Counted
    <3> QED
      BY <3>1, <3>2 DEF Ahead, NotPassed, ByCursor
  <2>4. CASE items[c].column > reader.column + 1
    BY <2>4 DEF Ahead
  <2> QED
    BY <2>1, <2>2, <2>3, <2>4
<1>5. NothingMissed'
  BY <1>2, <1>4 DEF NothingMissed, Keys, IsTask, Undisturbed, Did, DidTo
<1>6. PagesRead'
  BY <1>0, <1>5 DEF PagesRead, FreshestFirst
<1>7. ListingKeepsItsWord'
  BY DEF ListingKeepsItsWord, ListingIsSound, LimitTakesTheFreshest
<1> QED
  BY <1>1, <1>6, <1>7 DEF ListInv

\* A listing that raises promises nothing.
LEMMA Breaks ==
  ASSUME ListInv, reader.pc = "reading", NEW r \in ReaderState, r.pc = "broken", reader' = r,
         UNCHANGED <<board, order, items, clock, limit, start, changes>>
  PROVE  ListInv'
<1>1. Listed'
  BY ListedOn DEF ListInv
<1>2. PagesRead' /\ ListingKeepsItsWord'
  BY DEF PagesRead, ListingKeepsItsWord, ListingIsSound, LimitTakesTheFreshest
<1> QED
  BY <1>1, <1>2 DEF ListInv

LEMMA ReadPageStep ==
  ASSUME ListInv, ReadPage
  PROVE  ListInv'
<1>0. Listed /\ PagesRead /\ limit \in Nat
  BY ListingAssumption DEF ListInv, Listed
<1>1. PICK page : page = Cut(Rest)
  OBVIOUS
<1>2. PICK rows : rows = reader.rows \o Rows(page)
  OBVIOUS
<1>3. PICK r : r = NextReader(page, rows)
  OBVIOUS
<1>4. /\ reader.pc = "reading" /\ reader' = Outcome(r, LastPage(page))
      /\ UNCHANGED <<board, order, items, clock, limit, start, changes>>
  BY <1>1, <1>2, <1>3 DEF ReadPage, NextReader
<1>5. /\ rows \in Seq(RowRecord)
      /\ board \in FreshestFirst /\ changes = {} =>
           Current(rows) /\ (board # "trello" => FresherFirst(rows))
  BY <1>1, <1>2, <1>4, PageRead
<1>6. /\ r \in ReaderState /\ r.pc = "reading" /\ r.column = reader.column
      /\ r.rows = Capped(rows)
      /\ board \notin ByCursor => r.cursor = reader.cursor
  BY <1>1, <1>3, <1>4, <1>5, NextFacts
<1>7. /\ Capped(rows) \in Seq(RowRecord)
      /\ board = "trello" \/ Len(Capped(rows)) < limit => Capped(rows) = rows
      /\ FresherFirst(rows) => FresherFirst(Capped(rows))
      /\ Len(Capped(rows)) \in Nat
  BY <1>0, <1>5, CappedFacts
<1>8. CASE board # "trello" /\ Len(r.rows) >= limit
  <2>1. PICK q : q = [r EXCEPT !.pc = "cut"]
    OBVIOUS
  <2>2. q \in ReaderState /\ q.pc = "cut" /\ q.rows = Capped(rows)
    BY <1>6, <2>1 DEF ReaderState
  <2>3. reader' = q
    BY <1>4, <1>8, <2>1 DEF Outcome
  <2>4. TheFreshest(q.rows)
    BY <1>5, <1>7, <1>8, <2>2, FirstAreFresh
  <2> QED
    BY <1>0, <1>4, <2>2, <2>3, <2>4, Ends
<1>9. CASE ~(board # "trello" /\ Len(r.rows) >= limit)
  <2>1. r.rows = rows /\ (board = "trello" \/ Len(rows) < limit)
    BY <1>0, <1>6, <1>7, <1>9
  <2>2. CASE LastPage(page) /\ board = "trello"
    <3>1. Sound(rows)
      BY <1>1, <1>2, <1>4, <2>2, NothingLeft
    <3>2. PICK f : f = Freshest(rows)
      OBVIOUS
    <3>3. f \in Seq(RowRecord) /\ TheFreshest(f) /\ (Len(rows) <= limit => Sound(f))
      BY <1>1, <1>2, <1>4, <2>2, <3>1, <3>2, SortedAtTheEnd
    <3>4. PICK pc \in {"cut", "complete"} :
            pc = IF Len(rows) > limit THEN "cut" ELSE "complete"
      OBVIOUS
    <3>5. PICK q : q = [r EXCEPT !.rows = f, !.pc = pc]
      OBVIOUS
    <3>6. q \in ReaderState /\ q.pc = pc /\ q.rows = f
      BY <1>6, <3>3, <3>4, <3>5 DEF ReaderState, RowRecord
    <3>7. reader' = q
      BY <1>4, <2>1, <2>2, <3>2, <3>4, <3>5 DEF Outcome
    <3>8. pc = "complete" => Sound(f)
      <4>1. Len(rows) \in Nat
        BY <1>5, LenProperties
      <4> QED
        BY <1>0, <3>3, <3>4, <4>1
    <3> QED
      BY <1>0, <1>4, <3>3, <3>4, <3>6, <3>7, <3>8, Ends
  <2>3. CASE LastPage(page) /\ board = "yougile" /\ r.column + 1 \in Column
    <3>1. PICK q : q = [r EXCEPT !.column = @ + 1, !.offset = 0]
      OBVIOUS
    <3>2. /\ q \in ReaderState /\ q.pc = "reading" /\ q.column = reader.column + 1
          /\ q.offset = 0 /\ q.rows = rows /\ q.cursor = reader.cursor
      <4>1. board \notin ByCursor
        BY <2>3 DEF ByCursor
      <4> QED
        BY <1>6, <2>1, <2>3, <3>1, <4>1 DEF ReaderState
    <3>3. reader' = q
      BY <1>4, <1>9, <2>3, <3>1 DEF Outcome
    <3> QED
      BY <1>1, <1>2, <1>4, <2>3, <3>2, <3>3, NextColumn
  <2>4. CASE /\ LastPage(page) /\ board # "trello"
             /\ ~(board = "yougile" /\ r.column + 1 \in Column)
    <3>1. PICK q : q = [r EXCEPT !.pc = "complete"]
      OBVIOUS
    <3>2. q \in ReaderState /\ q.pc = "complete" /\ q.rows = rows
      BY <1>6, <2>1, <3>1 DEF ReaderState
    <3>3. reader' = q
      BY <1>4, <1>9, <2>4, <3>1 DEF Outcome
    <3>4. Sound(rows)
      BY <1>1, <1>2, <1>4, <1>6, <2>4, NothingLeft
    <3>5. TheFreshest(rows)
      BY <1>5, <2>4, FirstAreFresh
    <3> QED
      BY <1>0, <1>4, <3>2, <3>3, <3>4, <3>5, Ends
  <2>5. CASE ~LastPage(page) /\ board \in Counting /\ r.pages >= MaxPages
    <3>1. PICK q : q = [r EXCEPT !.pc = "broken"]
      OBVIOUS
    <3>2. q \in ReaderState /\ q.pc = "broken"
      BY <1>6, <3>1 DEF ReaderState
    <3>3. reader' = q
      BY <1>4, <1>9, <2>5, <3>1 DEF Outcome
    <3> QED
      BY <1>4, <3>2, <3>3, Breaks
  <2>6. CASE ~LastPage(page) /\ ~(board \in Counting /\ r.pages >= MaxPages)
    <3>1. reader' = NextReader(page, rows)
      BY <1>3, <1>4, <1>9, <2>6 DEF Outcome
    <3>2. board = "trello" \/ Len(reader'.rows) < limit
      BY <1>3, <2>1, <3>1
    <3> QED
      BY <1>1, <1>2, <1>4, <2>6, <3>1, <3>2, GoesOn
  <2> QED
    BY <2>2, <2>3, <2>4, <2>5, <2>6
<1> QED
  BY <1>8, <1>9

LEMMA ListingBegins ==
  ASSUME ListInv, iter_raw
  PROVE  ListInv'
<1>0. Listed
  BY DEF ListInv
<1>1. /\ reader.pc = "idle" /\ start' = There
      /\ UNCHANGED <<board, order, items, clock, limit, changes>>
  BY DEF iter_raw
<1>2. reader = Idle /\ changes = {} /\ There \subseteq AtFirst
  BY <1>0, <1>1 DEF Listed
<1>3. 1 \in Column /\ \A k \in Column : k \in Nat /\ k >= 1
  <2>1. Column = 1..Cardinality(Column) /\ Cardinality(Column) \in Nat /\ Column # {}
    BY ListingAssumption, FS_CardinalityType
  <2>2. PICK n \in Nat : Column = 1..n
    BY <2>1
  <2> QED
    BY <2>1, <2>2
<1>4. PICK pc \in {"cut", "reading"} : pc = IF limit = 0 THEN "cut" ELSE "reading"
  OBVIOUS
<1>5. /\ reader' \in ReaderState /\ reader'.pc = pc
      /\ reader'.offset = 0 /\ reader'.cursor = NoCursor /\ reader'.column = 1
      /\ reader'.rows = << >>
  <2>1. << >> \in Seq([key : Item, timestamp : Nat])
    BY EmptySeq
  <2>2. reader' = [pc |-> pc, offset |-> 0, cursor |-> NoCursor, pages |-> 0,
                   column |-> 1, rows |-> << >>]
    BY <1>4 DEF iter_raw, Idle
  <2>3. /\ pc \in {"idle", "reading", "complete", "cut", "broken"}
        /\ 0 \in Nat /\ NoCursor \in Int
    BY <1>4 DEF NoCursor
  <2> HIDE DEF NoCursor
  <2> QED
    BY <1>3, <2>1, <2>2, <2>3 DEF ReaderState
<1>6. There' = There
  BY <1>1 DEF There
<1>7. Listed'
  BY <1>0, <1>1, <1>2, <1>4, <1>5, <1>6 DEF Listed, Stamped, Sorting
<1>8. ASSUME NEW c \in There PROVE Ahead(c)'
  <2>1. Position(c)' \in Nat
    BY <1>7, CountedThen DEF Counted
  <2>2. NotPassed(c)'
    BY <1>5, <2>1 DEF NotPassed
  <2>3. items[c].column \in Column
    BY <1>0, <1>8 DEF Listed, Stamped, There
  <2>4. CASE board # "yougile" \/ items[c].column = 1
    <3>1. c \in Visible'
      BY <1>1, <1>5, <1>6, <1>8, <2>4 DEF Visible
    <3> QED
      BY <2>2, <3>1 DEF Ahead
  <2>5. CASE board = "yougile" /\ items[c].column # 1
    <3>1. items[c].column > 1
      BY <1>3, <2>3, <2>5
    <3> QED
      BY <1>1, <1>5, <2>5, <3>1 DEF Ahead
  <2> QED
    BY <2>4, <2>5
<1>9. NothingMissed'
  BY <1>1, <1>6, <1>8 DEF NothingMissed
<1>10. DOMAIN reader'.rows = {}
  BY <1>5
<1>11. PagesRead'
  <2>1. clock' \in Nat
    BY <1>0, <1>1 DEF Listed, Stamped
  <2>2. order' = "oldest" => reader'.cursor <= clock'
    BY <1>5, <2>1 DEF NoCursor
  <2>3. ReadOnce(reader.rows, reader.cursor)'
    BY <1>10 DEF ReadOnce
  <2>4. Current(reader.rows)' /\ FresherFirst(reader.rows)'
    BY <1>10 DEF Current, FresherFirst
  <2> QED
    BY <1>9, <2>2, <2>3, <2>4 DEF PagesRead
<1>12. ListingKeepsItsWord'
  BY <1>4, <1>5, <1>10 DEF ListingKeepsItsWord, ListingIsSound, LimitTakesTheFreshest
<1> QED
  BY <1>7, <1>11, <1>12 DEF ListInv

LEMMA ListingStart == ListingInit => ListInv
<1> SUFFICES ASSUME ListingInit PROVE ListInv
  OBVIOUS
<1>1. PICK stamps \in [AtFirst -> 1..Cardinality(AtFirst)], columns \in [AtFirst -> Column] :
        /\ \A c, d \in AtFirst : stamps[c] = stamps[d] => c = d
        /\ items = [c \in Item |->
             IF c \in AtFirst
             THEN [there |-> TRUE, stamp |-> stamps[c], column |-> columns[c]]
             ELSE [there |-> FALSE, stamp |-> 0, column |-> 1]]
  BY DEF ListingInit
<1>2. /\ board \in Board /\ order \in Sorting(board) /\ limit \in Limit
      /\ clock = Cardinality(AtFirst) /\ reader = Idle /\ start = {} /\ changes = {}
  BY DEF ListingInit
<1>3. clock \in Nat
  BY <1>2, ListingAssumption, FS_Subset, FS_CardinalityType
<1>4. 1 \in Column
  <2>1. Column = 1..Cardinality(Column) /\ Cardinality(Column) \in Nat /\ Column # {}
    BY ListingAssumption, FS_CardinalityType
  <2>2. PICK n \in Nat : Column = 1..n
    BY <2>1
  <2> QED
    BY <2>1, <2>2
<1>5. ASSUME NEW c \in Item
      PROVE  /\ items[c] \in [there : BOOLEAN, stamp : 0..clock, column : Column]
             /\ items[c].there <=> c \in AtFirst
             /\ c \in AtFirst => items[c].stamp = stamps[c] /\ stamps[c] \in Nat /\ stamps[c] > 0
             /\ c \notin AtFirst => items[c].stamp = 0
  <2>1. CASE c \in AtFirst
    <3>1. items[c] = [there |-> TRUE, stamp |-> stamps[c], column |-> columns[c]]
      BY <1>1, <2>1
    <3>2. stamps[c] \in 1..clock /\ columns[c] \in Column
      BY <1>1, <1>2, <2>1
    <3>3. stamps[c] \in 0..clock /\ stamps[c] \in Nat /\ stamps[c] > 0
      BY <1>3, <3>2
    <3> QED
      BY <2>1, <3>1, <3>2, <3>3
  <2>2. CASE c \notin AtFirst
    <3>1. items[c] = [there |-> FALSE, stamp |-> 0, column |-> 1]
      BY <1>1, <2>2
    <3>2. 0 \in 0..clock
      BY <1>3
    <3> QED
      BY <1>4, <2>2, <3>1, <3>2
  <2> QED
    BY <2>1, <2>2
<1>6. items \in [Item -> [there : BOOLEAN, stamp : 0..clock, column : Column]]
  <2>1. items = [c \in Item |-> items[c]]
    BY <1>1
  <2> QED
    BY <1>5, <2>1
<1>7. There \subseteq AtFirst
  BY <1>5 DEF There
<1>8. \A c \in There : items[c].stamp > 0
  BY <1>5, <1>7 DEF There
<1>9. ASSUME NEW c \in Item, NEW d \in Item, items[c].stamp > 0,
             items[c].stamp = items[d].stamp
      PROVE  c = d
  <2>1. c \in AtFirst /\ d \in AtFirst
    BY <1>5, <1>9
  <2> QED
    BY <1>1, <1>5, <1>9, <2>1
<1>10. Listed
  <2>1. Stamped
    BY <1>3, <1>6, <1>8, <1>9 DEF Stamped
  <2>2. reader \in ReaderState /\ reader.pc = "idle"
    <3>1. << >> \in Seq([key : Item, timestamp : Nat])
      BY EmptySeq
    <3> QED
      BY <1>2, <1>4, <3>1 DEF Idle, ReaderState, NoCursor
  <2> QED
    BY <1>2, <1>7, <2>1, <2>2 DEF Listed
<1>11. PagesRead /\ ListingKeepsItsWord
  BY <1>2 DEF Idle, PagesRead, ListingKeepsItsWord, ListingIsSound, LimitTakesTheFreshest
<1> QED
  BY <1>10, <1>11 DEF ListInv

LEMMA ListingStep == ListInv /\ [ListingNext]_listing => ListInv'
<1> SUFFICES ASSUME ListInv, [ListingNext]_listing PROVE ListInv'
  OBVIOUS
<1>1. CASE iter_raw
  BY <1>1, ListingBegins
<1>2. CASE ReadPage
  BY <1>2, ReadPageStep
<1>3. CASE ReadFails
  <2>1. PICK q : q = [reader EXCEPT !.pc = "broken"]
    OBVIOUS
  <2>2. q \in ReaderState /\ q.pc = "broken"
    BY <2>1 DEF ListInv, Listed, ReaderState
  <2> QED
    BY <1>3, <2>1, <2>2, Breaks DEF ReadFails
<1>4. CASE \E c \in Item : Edit(c) \/ TakeAway(c) \/ Add(c) \/ \E k \in Column : MoveTo(c, k)
  BY <1>4, PeopleStep
<1>5. CASE UNCHANGED listing
  <2>1. UNCHANGED <<board, order, items, clock, limit, reader, start, changes>>
    BY <1>5 DEF listing
  <2>2. There' = There /\ Visible' = Visible /\ (\A c : Rank(c)' = Rank(c))
    BY <2>1 DEF There, Visible, Rank
  <2>3. \A c : Position(c)' = Position(c)
    BY <2>2 DEF Position
  <2>4. Listed'
    BY <2>1, <2>2 DEF ListInv, Listed, Stamped, Sorting
  <2>5. NothingMissed' <=> NothingMissed
    BY <2>1, <2>2, <2>3 DEF NothingMissed, Ahead, NotPassed, IsTask, Undisturbed, Did, DidTo, Keys
  <2>6. PagesRead'
    BY <2>1, <2>2, <2>5 DEF ListInv, PagesRead, ReadOnce, Current, FresherFirst, IsTask
  <2>7. ListingKeepsItsWord'
    BY <2>1, <2>2
       DEF ListInv, ListingKeepsItsWord, ListingIsSound, LimitTakesTheFreshest, IsTask,
           Undisturbed, Did, DidTo, Keys
  <2> QED
    BY <2>4, <2>6, <2>7 DEF ListInv
<1> QED
  BY <1>1, <1>2, <1>3, <1>4, <1>5 DEF ListingNext

\* A listing that says it is complete has every task that was there from its
\* begin to its end, unless people did what its pages cannot follow: what the
\* purge of the sync relies on (iter_raw of the adapters, pagination.py).  And
\* the boards that are read freshest first give, under a limit, the freshest.
\* For every number of cards, pages and changes, and at every board.
THEOREM ListingKept == ListingSpec => []ListingKeepsItsWord
<1>1. ListInv => ListingKeepsItsWord
  BY DEF ListInv
<1> QED
  BY ListingStart, ListingStep, <1>1, PTL DEF ListingSpec

=============================================================================
