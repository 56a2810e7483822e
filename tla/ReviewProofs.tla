---------------------------- MODULE ReviewProofs ----------------------------
(***************************************************************************)
(* Proofs about ReviewSessions, for any number of processes, pull requests *)
(* and commits, any TTL and any budget of failures, and about              *)
(* ReviewPublish, for any file, diff, findings and deployment; and about   *)
(* Retrieval, for any index, graph, scores and anything that is asked.     *)
(*                                                                         *)
(* The argument for the sessions.  A row is there before the overlay is    *)
(* (Reserve), so while a PR has never lapsed an overlay has a living row   *)
(* (RowFirst), and what a garbage collection finds orphaned has lapsed     *)
(* (Orphans).  Between Reserve and Save the row holds the empty payload,   *)
(* so that a cut off preparation leaves nothing that can be resumed        *)
(* (Working).  While a review is active the row was touched no earlier     *)
(* than the session in memory (Guarded), and a garbage collection that     *)
(* reaches its end has taken every overlay without a living row, so that   *)
(* expiring the rows parts no overlay from its row (Complete).             *)
(*                                                                         *)
(* The argument for the publication.  Deduplication is a run of steps,     *)
(* each of which drops one of two findings that are alike and keeps a fix  *)
(* if one of them has any (Iterates, OneFuzzyStep), so what is left covers *)
(* what was there and is apart (DedupFacts).  What is left and not listed  *)
(* is planned as a comment or for the body, by turns, each of which leaves *)
(* comments where they may stand (Turns, PlacedFacts).  Until its request  *)
(* a comment is in the work, after it on the PR (WorkOK), and on GitLab    *)
(* what is in the work is not on the PR (OnceInv).                         *)
(*                                                                         *)
(* The argument for the searches.  A search is one step, so that the       *)
(* invariant says that what was asked was answered (SearchOK), and the     *)
(* work is in what the pipeline returns.  Keeping, taking, joining and     *)
(* sorting are lists of places (KeepFacts, TakeFacts, JoinFacts,           *)
(* SortedFacts).  Deduplication leaves something that covers each chunk    *)
(* (DedupeFacts), the degraded answer has all hits or is full and has one  *)
(* of the graph at most (DegradedFacts), and what the cliff leaves out     *)
(* scores too low or finds no place (CliffFacts).  For several queries     *)
(* diversification keeps one chunk of each file up to the limit            *)
(* (DiversifyFacts); each source brings in all that it could or its quota, *)
(* whatever the sources before it brought (OneSource), and more files      *)
(* never make it less (BringsMore).                                        *)
(***************************************************************************)
EXTENDS ReviewSessions, ReviewPublish, Retrieval, FiniteSetTheorems, FunctionTheorems,
        WellFoundedInduction, TLAPS


(* Each pull request is reviewed from one client.  Two clients that        *)
(* prepare the same one mix their chunks: nothing in the code locks the    *)
(* overlay.                                                                *)
OneReviewer == \A p, q \in Process : p # q => Reviews[p] \cap Reviews[q] = {}

(* The process does not die between the two statements of _cleanup.        *)
NoTornCleanup == "torn_cleanup" \notin Trouble

-----------------------------------------------------------------------------
(* The inductive invariant, in named parts.                                *)

BuildStep == PrepareStep \ {"reserve"}
LiveRow(entry, t) == entry.there /\ entry.seen + Ttl > t
Excused == lapsed \cup failed

\* a process serves calls on the PRs that it reviews
Home(p, c) ==
  /\ c.pr \in Reviews[p] \cup {NoPR}
  /\ c.pc \notin GcStep \cup {"idle"} => c.pr \in Reviews[p]
  /\ c.pc = "idle" => c = Idle

Owned ==
  /\ \A p \in Process : Home(p, loc[p])
  /\ \A p \in Process, k \in PR : mem[p][k].there => k \in Reviews[p]

Clock ==
  /\ \A k \in PR : sessions[k].seen <= now
  /\ \A p \in Process, k \in PR : mem[p][k].seen <= now /\ mem[p][k].touched <= now

\* a row that was never idle for a TTL is alive
Vouched(k) == sessions[k].there /\ k \notin lapsed => LiveRow(sessions[k], now)

\* the row is there before the overlay is
RowFirst(k) == chunks[k] # {} /\ k \notin Excused => sessions[k].there

\* what can be resumed has its overlay
Resumable(k) ==
  (/\ sessions[k].there /\ sessions[k].payload # 0 /\ k \notin Excused
   /\ \A p \in Process : loc[p].pr = k => loc[p].pc # "clean_row")
    => chunks[k] = {sessions[k].payload}

\* where a call on PR c.pr is: the process's call c and memory m
Working(c, m) ==
  /\ c.pc \in BuildStep /\ c.pr \notin failed =>
       /\ sessions[c.pr].there /\ sessions[c.pr].payload = 0
       /\ LiveRow(sessions[c.pr], now)
  /\ c.pc \in {"fetch", "embed", "upsert"} => chunks[c.pr] = {}
  /\ c.pc = "upsert" => c.seen = {}
  /\ c.pc \in {"embed", "upsert", "units", "save"} => c.head \in Commit
  /\ c.pc \in {"units", "save"} /\ c.pr \notin Excused => chunks[c.pr] = {c.head}
  /\ c.pc \in {"undo_row", "clean_row"} /\ c.pr \notin failed => chunks[c.pr] = {}
  /\ c.pc = "clean_row" => ~m[c.pr].there
  /\ c.pc = "touch" => m[c.pr].touched = -1
  /\ c.pc = "touch" /\ c.pr \notin failed => LiveRow(sessions[c.pr], now)

\* a garbage collection takes what has lapsed, and not its own sessions
Orphans(c, m) ==
  /\ c.pc = "live" => \A k \in c.todo : k \in Excused \/ LiveRow(sessions[k], now)
  /\ c.pc = "purge" => \A k \in c.todo :
       k \in Excused /\ ~(m[k].there /\ m[k].seen + Ttl > now)

\* and misses nothing
Complete(c) ==
  /\ c.pc \in {"live", "purge"} => \A k \in PR \ failed :
       chunks[k] # {} => LiveRow(sessions[k], now) \/ k \in c.todo
  /\ c.pc = "expire" => \A k \in PR \ failed : chunks[k] # {} => LiveRow(sessions[k], now)

\* the row keeps up with the session in memory
Guarded(c, m, k) ==
  (m[k].there /\ chunks[k] # {} /\ k \notin failed /\ ~(c.pr = k /\ c.pc \notin GcStep)) =>
    sessions[k].there /\ m[k].seen <= sessions[k].seen /\ m[k].touched <= sessions[k].seen

RowInv(k) == Vouched(k) /\ RowFirst(k)
CallInv(p) ==
  /\ Working(loc[p], mem[p]) /\ Orphans(loc[p], mem[p]) /\ Complete(loc[p])
  /\ \A k \in PR : Guarded(loc[p], mem[p], k)

IInv ==
  /\ TypeOK /\ Owned /\ Clock
  /\ \A k \in PR : RowInv(k)
  /\ \A p \in Process : CallInv(p)

AllKept == \A k \in PR : Resumable(k)

-----------------------------------------------------------------------------
(* What one process does to the others.                                    *)

\* the process p moves: to the PRs that it does not review it does nothing,
\* but that it may expire their dead rows and collect what has lapsed
Turn(p) ==
  /\ \A q \in Process \ {p} : loc'[q] = loc[q] /\ mem'[q] = mem[q]
  /\ now' = now /\ lapsed \subseteq lapsed' /\ failed \subseteq failed'
  /\ \A k \in PR \ Reviews[p] :
       /\ k \in lapsed' => k \in lapsed
       /\ \/ sessions'[k] = sessions[k]
          \/ /\ sessions'[k] = NoRow /\ ~LiveRow(sessions[k], now)
             /\ chunks[k] = {} \/ k \in failed'
       /\ chunks'[k] = chunks[k] \/ (chunks'[k] = {} /\ k \in Excused)
  /\ \A k \in PR :
       /\ chunks'[k] # {} /\ k \notin failed' =>
            LiveRow(sessions'[k], now) \/ (chunks[k] # {} /\ ~LiveRow(sessions[k], now))
       /\ LiveRow(sessions[k], now) => LiveRow(sessions'[k], now) \/ k \in lapsed'

\* what is left to show of p and of its own PRs
OwnInv(p) ==
  /\ TypeOK /\ Home(p, loc[p])
  /\ \A k \in PR : mem[p][k].there => k \in Reviews[p]
  /\ \A k \in PR : mem[p][k].seen <= now /\ mem[p][k].touched <= now
  /\ \A k \in Reviews[p] : sessions[k].seen <= now /\ RowInv(k)
  /\ CallInv(p)

\* A process that serves a call on a PR, or has its session, reviews it.
LEMMA OwnPRs ==
  ASSUME IInv, NEW p \in Process
  PROVE  /\ Reviews[p] \subseteq PR
         /\ loc[p] \in Call
         /\ mem[p] \in [PR -> Session]
         /\ loc[p].pc \notin GcStep \cup {"idle"} => loc[p].pr \in Reviews[p]
BY ReviewsAssumption DEF IInv, TypeOK, Owned, Home

\* The rest of the invariant survives the turn of another process.
LEMMA TurnSparesOthers ==
  ASSUME IInv, OneReviewer, NEW p \in Process, Turn(p), OwnInv(p)'
  PROVE  IInv'
<1>1. \A q \in Process : Reviews[q] \subseteq PR
  BY ReviewsAssumption
<1>2. ASSUME NEW k \in PR \ Reviews[p]
      PROVE  RowInv(k)' /\ sessions'[k].seen <= now'
  <2>1. sessions[k].seen <= now /\ RowInv(k) /\ now \in Time
    BY DEF IInv, Clock, TypeOK
  <2>2. NoRow.seen = 0 /\ NoRow.there = FALSE
    BY DEF NoRow
  <2>3. QED
    BY <2>1, <2>2 DEF Turn, RowInv, Vouched, RowFirst, Excused, LiveRow, Time
<1>3. \A k \in PR : RowInv(k)' /\ sessions'[k].seen <= now'
  BY <1>2 DEF OwnInv
<1>4. ASSUME NEW q \in Process, q # p PROVE CallInv(q)'
  <2> DEFINE c == loc[q]
             m == mem[q]
  <2>1. loc'[q] = c /\ mem'[q] = m /\ now' = now
    BY <1>4 DEF Turn
  <2>2. CallInv(q)
    BY DEF IInv
  <2>3. \A k \in Reviews[q] : k \in PR \ Reviews[p]
    BY <1>1, <1>4 DEF OneReviewer
  <2>4. c.pc \notin GcStep \cup {"idle"} => c.pr \in PR \ Reviews[p]
    BY <2>3, OwnPRs
  <2>5. \A k \in PR : m[k].there => k \in PR \ Reviews[p]
    BY <2>3 DEF IInv, Owned
  <2>6. c \in Call /\ m \in [PR -> Session]
    BY OwnPRs
  <2> HIDE DEF c, m
  <2>7. Working(c, m)'
    <3>1. Working(loc[q], mem[q])
      BY <2>2 DEF CallInv
    <3>2. \A s \in {"fetch", "embed", "upsert", "units", "save", "undo_row", "clean_row",
                    "touch"} \cup BuildStep : s \notin GcStep \cup {"idle"}
      BY DEF BuildStep, PrepareStep, GcStep
    <3>3. CASE c.pc \in GcStep \cup {"idle"}
      BY <3>2, <3>3, <2>1 DEF Working, c, m
    <3>4. CASE c.pc \notin GcStep \cup {"idle"}
      BY <3>1, <3>4, <2>1, <2>4 DEF Working, Turn, Excused, c, m
    <3> QED BY <3>3, <3>4
  <2>8. Orphans(c, m)'
    BY <2>1, <2>2, <2>6 DEF CallInv, Orphans, Turn, Excused, Call, c, m
  <2>9. Complete(c)'
    BY <2>1, <2>2 DEF CallInv, Complete, Turn, c
  <2>10. ASSUME NEW k \in PR PROVE Guarded(c, m, k)'
    BY <2>1, <2>2, <2>5 DEF CallInv, Guarded, Turn, c, m
  <2> QED
    BY <2>1, <2>7, <2>8, <2>9, <2>10 DEF CallInv, c, m
<1>5. Owned' /\ Clock'
  BY <1>3 DEF OwnInv, IInv, Owned, Clock, Turn
<1> QED
  BY <1>3, <1>4, <1>5 DEF OwnInv, IInv

-----------------------------------------------------------------------------
(* Moves of a call.                                                        *)

Pc == {"idle", "touch", "clean_overlay", "clean_row"} \cup GcStep \cup PrepareStep

LEMMA IdleType ==
  Idle \in Call /\ Idle.pc = "idle" /\ Idle.pr = NoPR /\ NoRow \in Row /\ NoSession \in Session
BY NumberAssumption DEF Idle, Call, NoRow, Row, NoSession, Session, Time

\* The call of p is replaced.
LEMMA CallMoves ==
  ASSUME TypeOK, NEW p \in Process, NEW c \in Call, loc' = [loc EXCEPT ![p] = c]
  PROVE  /\ loc' \in [Process -> Call] /\ loc'[p] = c
         /\ \A q \in Process \ {p} : loc'[q] = loc[q]
BY DEF TypeOK

\* Goto changes the place in the call only.
LEMMA GotoMoves ==
  ASSUME TypeOK, NEW p \in Process, NEW s \in Pc, Goto(p, s)
  PROVE  /\ loc' \in [Process -> Call]
         /\ \A q \in Process \ {p} : loc'[q] = loc[q]
         /\ loc'[p].pc = s /\ loc'[p].pr = loc[p].pr /\ loc'[p].todo = loc[p].todo
         /\ loc'[p].head = loc[p].head /\ loc'[p].seen = loc[p].seen
BY DEF TypeOK, Goto, Call, Pc

\* A step that changes nothing but the place in the call.
LEMMA Quiet ==
  ASSUME IInv, NEW p \in Process, UNCHANGED <<rows, chunks, mem, head, now, lapsed>>,
         loc' \in [Process -> Call], \A q \in Process \ {p} : loc'[q] = loc[q],
         Home(p, loc'[p]),
         Working(loc'[p], mem[p]), Orphans(loc'[p], mem[p]), Complete(loc'[p]),
         \A k \in PR : Guarded(loc'[p], mem[p], k)
  PROVE  Turn(p) /\ OwnInv(p)'
<1>1. TypeOK'
  BY DEF IInv, TypeOK, rows
<1>2. Turn(p)
  BY DEF Turn, rows
<1>3. \A k \in Reviews[p] : (sessions[k].seen <= now /\ RowInv(k))'
  BY OwnPRs DEF IInv, Clock, RowInv, Vouched, RowFirst, Excused, rows
<1>4. CallInv(p)'
  BY DEF CallInv, Working, Orphans, Complete, Guarded, Excused, rows
<1>5. \A k \in PR : (/\ mem[p][k].there => k \in Reviews[p]
                     /\ mem[p][k].seen <= now /\ mem[p][k].touched <= now)'
  BY DEF IInv, Owned, Clock
<1> QED
  BY <1>1, <1>2, <1>3, <1>4, <1>5 DEF OwnInv, Home

\* While p serves no call on a PR, its rows keep up with all of its sessions.
LEMMA GuardedStays ==
  ASSUME IInv, NEW p \in Process, loc[p].pc \in GcStep \cup {"idle"}
  PROVE  \A k \in PR : /\ mem[p][k].there /\ chunks[k] # {} /\ k \notin failed =>
                               /\ sessions[k].there /\ mem[p][k].seen <= sessions[k].seen
                               /\ mem[p][k].touched <= sessions[k].seen
<1>1. \A k \in PR : ~(loc[p].pr = k /\ loc[p].pc \notin GcStep)
  BY IdleType, NoPRAssumption DEF IInv, Owned, Home
<1> QED
  BY <1>1 DEF IInv, CallInv, Guarded

-----------------------------------------------------------------------------
(* The garbage collection.                                                 *)

LEMMA StartGcTurn ==
  ASSUME IInv, NEW p \in Process, NEW k \in Reviews[p] \cup {NoPR}, StartGc(p, k)
  PROVE  Turn(p) /\ OwnInv(p)'
<1> DEFINE c == [Idle EXCEPT !.pc = "overlays", !.pr = k]
<1>1. c \in Call /\ c.pc = "overlays" /\ c.pr = k
  BY IdleType, OwnPRs DEF Call, GcStep
<1> HIDE DEF c
<1>2. loc' \in [Process -> Call] /\ loc'[p] = c /\ \A q \in Process \ {p} : loc'[q] = loc[q]
  BY <1>1, CallMoves DEF StartGc, IInv, c
<1>3. Working(c, mem[p]) /\ Orphans(c, mem[p]) /\ Complete(c) /\ Home(p, c)
  BY <1>1 DEF Working, Orphans, Complete, BuildStep, PrepareStep, Home, GcStep
<1>4. \A j \in PR : Guarded(c, mem[p], j)
  BY GuardedStays DEF Guarded, StartGc, At
<1> QED
  BY <1>2, <1>3, <1>4, Quiet DEF StartGc

\* At the end of a collection nothing is promised yet.
LEMMA EndGcMoves ==
  ASSUME IInv, NEW p \in Process, EndGc(p), loc[p].pc \in GcStep
  PROVE  /\ loc' \in [Process -> Call]
         /\ \A q \in Process \ {p} : loc'[q] = loc[q]
         /\ Home(p, loc'[p]) /\ loc'[p].pc \in {"idle", "reserve"}
<1> DEFINE c == IF loc[p].pr = NoPR THEN Idle
                ELSE [Idle EXCEPT !.pc = "reserve", !.pr = loc[p].pr]
<1>1. loc[p].pr \in Reviews[p] \cup {NoPR} /\ Reviews[p] \subseteq PR
  BY OwnPRs DEF IInv, Owned, Home
<1>2. c \in Call /\ Home(p, c) /\ c.pc \in {"idle", "reserve"}
  BY <1>1, IdleType DEF Call, PrepareStep, Home, Idle
<1> HIDE DEF c
<1>3. loc' = [loc EXCEPT ![p] = c]
  BY DEF EndGc, c
<1> QED
  BY <1>2, <1>3, CallMoves DEF IInv

LEMMA EndGcTurn ==
  ASSUME IInv, NEW p \in Process, EndGc(p), loc[p].pc \in GcStep,
         UNCHANGED <<rows, chunks, mem, head, now, lapsed>>
  PROVE  Turn(p) /\ OwnInv(p)'
<1>1. /\ loc' \in [Process -> Call]
      /\ \A q \in Process \ {p} : loc'[q] = loc[q]
      /\ Home(p, loc'[p]) /\ loc'[p].pc \in {"idle", "reserve"}
  BY EndGcMoves
<1>2. Working(loc'[p], mem[p]) /\ Orphans(loc'[p], mem[p]) /\ Complete(loc'[p])
  BY <1>1 DEF Working, Orphans, Complete, BuildStep, PrepareStep
<1>3. \A k \in PR : Guarded(loc'[p], mem[p], k)
  BY GuardedStays DEF Guarded
<1> QED
  BY <1>1, <1>2, <1>3, Quiet

\* Rows that are dead go, when every overlay has a living one.
LEMMA ExpiryTurn ==
  ASSUME IInv, NEW p \in Process, DeleteExpired, EndGc(p), loc[p].pc \in GcStep,
         UNCHANGED <<chunks, mem, head, now, lapsed>>,
         failed \subseteq failed', failed' \subseteq PR,
         \A k \in PR \ failed' : chunks[k] # {} => LiveRow(sessions[k], now)
  PROVE  Turn(p) /\ OwnInv(p)'
<1>1. /\ loc' \in [Process -> Call]
      /\ \A q \in Process \ {p} : loc'[q] = loc[q]
      /\ Home(p, loc'[p]) /\ loc'[p].pc \in {"idle", "reserve"}
  BY EndGcMoves
<1>2. sessions \in [PR -> Row] /\ NoRow \in Row /\ NoRow.there = FALSE /\ NoRow.seen = 0
  BY IdleType DEF IInv, TypeOK, NoRow
<1>3. \A k \in PR : \/ sessions'[k] = sessions[k]
                    \/ sessions'[k] = NoRow /\ ~LiveRow(sessions[k], now)
  BY DEF DeleteExpired, Live, LiveRow, Recent
<1>4. sessions' \in [PR -> Row]
  BY <1>2 DEF DeleteExpired
<1>5. TypeOK'
  BY <1>1, <1>4 DEF IInv, TypeOK
<1>6. Turn(p)
  BY <1>1, <1>3 DEF Turn
<1>7. \A k \in Reviews[p] : (sessions[k].seen <= now /\ RowInv(k))'
  <2> SUFFICES ASSUME NEW k \in Reviews[p] PROVE (sessions[k].seen <= now /\ RowInv(k))'
    OBVIOUS
  <2>1. k \in PR /\ sessions[k].seen <= now /\ RowInv(k) /\ 0 <= now
    BY OwnPRs DEF IInv, Clock, TypeOK, Time
  <2> QED
    BY <1>2, <1>3, <2>1 DEF RowInv, Vouched, RowFirst, Excused, LiveRow
<1>8. Working(loc[p], mem[p])' /\ Orphans(loc[p], mem[p])' /\ Complete(loc[p])'
  BY <1>1 DEF Working, Orphans, Complete, BuildStep, PrepareStep
<1>9. \A k \in PR : Guarded(loc[p], mem[p], k)'
  BY <1>3, GuardedStays DEF Guarded, LiveRow
<1>10. \A k \in PR : (/\ mem[p][k].there => k \in Reviews[p]
                      /\ mem[p][k].seen <= now /\ mem[p][k].touched <= now)'
  BY DEF IInv, Owned, Clock
<1>11. CallInv(p)'
  BY <1>8, <1>9 DEF CallInv
<1> QED
  BY <1>1, <1>5, <1>6, <1>7, <1>10, <1>11 DEF OwnInv, Home

LEMMA ListOverlaysTurn ==
  ASSUME IInv, NEW p \in Process, ListOverlays(p)
  PROVE  Turn(p) /\ OwnInv(p)'
<1> DEFINE listed == {k \in PR : chunks[k] # {}}
           c == [loc[p] EXCEPT !.pc = "live", !.todo = listed]
<1>1. loc[p] \in Call /\ loc[p].pc = "overlays"
  BY OwnPRs DEF ListOverlays, At
<1>2. CASE loc' = [loc EXCEPT ![p].pc = "live", ![p].todo = listed] /\ UNCHANGED rows
  <2>1. c \in Call /\ c.pc = "live" /\ c.todo = listed /\ c.pr = loc[p].pr
    BY <1>1 DEF Call, GcStep
  <2>2. loc' \in [Process -> Call] /\ loc'[p] = c /\ \A q \in Process \ {p} : loc'[q] = loc[q]
    <3>1. loc' = [loc EXCEPT ![p] = c]
      BY <1>2
    <3> QED
      BY <2>1, <3>1, CallMoves DEF IInv
  <2>3. Home(p, c)
    BY <2>1, <1>1 DEF IInv, Owned, Home, GcStep
  <2>4. Working(c, mem[p]) /\ Complete(c)
    BY <2>1 DEF Working, Complete, BuildStep, PrepareStep
  <2>5. Orphans(c, mem[p])
    BY <2>1 DEF Orphans, IInv, RowInv, RowFirst, Vouched, Excused
  <2>6. \A k \in PR : Guarded(c, mem[p], k)
    BY <1>1, GuardedStays DEF Guarded, GcStep
  <2> HIDE DEF c
  <2> QED
    BY <1>2, <2>2, <2>3, <2>4, <2>5, <2>6, Quiet DEF ListOverlays
<1>3. CASE DbMayFail /\ DeleteExpired /\ EndGc(p) /\ failed' = failed \cup listed
  BY <1>1, <1>3, ExpiryTurn DEF ListOverlays, GcStep, IInv, TypeOK
<1> QED
  BY <1>2, <1>3 DEF ListOverlays

LEMMA LiveKeysTurn ==
  ASSUME IInv, OneReviewer, NEW p \in Process, LiveKeys(p)
  PROVE  Turn(p) /\ OwnInv(p)'
<1> DEFINE orphaned == {k \in loc[p].todo : ~Live(k) /\ ~Active(p, k)}
           c == [loc[p] EXCEPT !.pc = "purge", !.todo = orphaned]
<1>1. loc[p] \in Call /\ loc[p].pc = "live" /\ loc[p].todo \subseteq PR
  BY OwnPRs DEF LiveKeys, At, Call
<1>2. CASE loc' = [loc EXCEPT ![p].pc = "purge",
                              ![p].todo = {k \in @ : ~Live(k) /\ ~Active(p, k)}]
  <2>1. c \in Call /\ c.pc = "purge" /\ c.todo = orphaned /\ c.pr = loc[p].pr
    BY <1>1 DEF Call, GcStep
  <2>2. loc' \in [Process -> Call] /\ loc'[p] = c /\ \A q \in Process \ {p} : loc'[q] = loc[q]
    <3>1. loc' = [loc EXCEPT ![p] = c]
      BY <1>2
    <3> QED
      BY <2>1, <3>1, CallMoves DEF IInv
  <2>3. Home(p, c)
    BY <2>1, <1>1 DEF IInv, Owned, Home, GcStep
  <2>4. \A k \in PR \ failed : Active(p, k) /\ chunks[k] # {} => LiveRow(sessions[k], now)
    <3> SUFFICES ASSUME NEW k \in PR \ failed, Active(p, k), chunks[k] # {}
                 PROVE  LiveRow(sessions[k], now)
      OBVIOUS
    <3>1. sessions[k].there /\ mem[p][k].seen <= sessions[k].seen
      BY <1>1, GuardedStays DEF Active, GcStep
    <3>2. mem[p][k].seen \in Int /\ sessions[k].seen \in Int /\ now \in Int
      BY OwnPRs DEF IInv, TypeOK, Session, Row, Time
    <3> QED
      BY <3>1, <3>2, NumberAssumption DEF Active, Recent, LiveRow
  <2>5. Working(c, mem[p])
    BY <2>1 DEF Working, BuildStep, PrepareStep
  <2>6. Complete(c)
    BY <1>1, <2>1, <2>4 DEF Complete, IInv, CallInv, Live, LiveRow, Recent
  <2>7. Orphans(c, mem[p])
    BY <1>1, <2>1 DEF Orphans, IInv, CallInv, Live, LiveRow, Active, Recent
  <2>8. \A k \in PR : Guarded(c, mem[p], k)
    BY <1>1, GuardedStays DEF Guarded, GcStep
  <2> HIDE DEF c
  <2> QED
    BY <2>2, <2>3, <2>5, <2>6, <2>7, <2>8, Quiet DEF LiveKeys
<1>3. CASE DbMayFail /\ EndGc(p)
  BY <1>1, <1>3, EndGcTurn DEF LiveKeys, GcStep
<1> QED
  BY <1>2, <1>3 DEF LiveKeys

LEMMA ExpireTurn ==
  ASSUME IInv, NEW p \in Process, Expire(p)
  PROVE  Turn(p) /\ OwnInv(p)'
<1>1. loc[p].pc = "expire"
  BY DEF Expire, At
<1>2. \A k \in PR \ failed : chunks[k] # {} => LiveRow(sessions[k], now)
  BY <1>1 DEF IInv, CallInv, Complete
<1> QED
  BY <1>1, <1>2, ExpiryTurn DEF Expire, GcStep, IInv, TypeOK

\* A collection takes the overlay of k.
LEMMA PurgeOneTurn ==
  ASSUME IInv, NEW p \in Process, At(p, "purge"), NEW k \in loc[p].todo,
         chunks' = [chunks EXCEPT ![k] = {}], loc' = [loc EXCEPT ![p].todo = @ \ {k}],
         UNCHANGED <<rows, mem, head, now, lapsed>>
  PROVE  Turn(p) /\ OwnInv(p)'
<1> DEFINE c == [loc[p] EXCEPT !.todo = @ \ {k}]
<1>1. loc[p] \in Call /\ loc[p].pc = "purge" /\ loc[p].todo \subseteq PR
  BY OwnPRs DEF At, Call
<1>2. c \in Call /\ c.pc = "purge" /\ c.todo = loc[p].todo \ {k} /\ c.pr = loc[p].pr
  BY <1>1 DEF Call
<1>3. loc' = [loc EXCEPT ![p] = c]
  OBVIOUS
<1> HIDE DEF c
<1>4. loc' \in [Process -> Call] /\ loc'[p] = c /\ \A q \in Process \ {p} : loc'[q] = loc[q]
  BY <1>2, <1>3, CallMoves DEF IInv
<1>5. k \in PR /\ k \in Excused /\ \A j \in PR : chunks'[j] = IF j = k THEN {} ELSE chunks[j]
  BY <1>1 DEF IInv, CallInv, Orphans, TypeOK
<1>6. TypeOK'
  BY <1>4, <1>5 DEF IInv, TypeOK, rows
<1>7. Turn(p)
  BY <1>4, <1>5 DEF Turn, rows
<1>8. \A j \in Reviews[p] : (sessions[j].seen <= now /\ RowInv(j))'
  BY <1>5, OwnPRs DEF IInv, Clock, RowInv, Vouched, RowFirst, Excused, rows
<1>9. Working(loc[p], mem[p])'
  BY <1>2, <1>4 DEF Working, BuildStep, PrepareStep
<1>10. Orphans(loc[p], mem[p])'
  BY <1>1, <1>2, <1>4 DEF IInv, CallInv, Orphans, Excused, rows
<1>11. Complete(loc[p])'
  BY <1>1, <1>2, <1>4, <1>5 DEF IInv, CallInv, Complete, rows
<1>12. \A j \in PR : Guarded(loc[p], mem[p], j)'
  BY <1>1, <1>5, GuardedStays DEF Guarded, GcStep, rows
<1>13. \A j \in PR : (/\ mem[p][j].there => j \in Reviews[p]
                      /\ mem[p][j].seen <= now /\ mem[p][j].touched <= now)'
  BY DEF IInv, Owned, Clock
<1>14. Home(p, loc'[p])
  BY <1>1, <1>2, <1>4 DEF IInv, Owned, Home, GcStep
<1> QED
  BY <1>6, <1>7, <1>8, <1>9, <1>10, <1>11, <1>12, <1>13, <1>14 DEF OwnInv, CallInv, Home

LEMMA PurgeTurn ==
  ASSUME IInv, NEW p \in Process, Purge(p)
  PROVE  Turn(p) /\ OwnInv(p)'
<1>1. loc[p] \in Call /\ loc[p].pc = "purge" /\ loc[p].pc \in GcStep
  BY OwnPRs DEF Purge, At, GcStep
<1>2. CASE \E k \in loc[p].todo : /\ chunks' = [chunks EXCEPT ![k] = {}]
                                  /\ loc' = [loc EXCEPT ![p].todo = @ \ {k}]
  BY <1>2, PurgeOneTurn DEF Purge
<1>3. CASE loc[p].todo = {} /\ Goto(p, "expire") /\ UNCHANGED chunks
  <2>1. /\ loc' \in [Process -> Call]
        /\ \A q \in Process \ {p} : loc'[q] = loc[q]
        /\ loc'[p].pc = "expire" /\ loc'[p].pr = loc[p].pr
    BY <1>3, GotoMoves DEF IInv, Pc, GcStep
  <2>2. Home(p, loc'[p])
    BY <1>1, <2>1 DEF IInv, Owned, Home, GcStep
  <2>3. Working(loc'[p], mem[p]) /\ Orphans(loc'[p], mem[p])
    BY <2>1 DEF Working, Orphans, BuildStep, PrepareStep
  <2>4. Complete(loc'[p])
    BY <1>1, <1>3, <2>1 DEF IInv, CallInv, Complete
  <2>5. \A k \in PR : Guarded(loc'[p], mem[p], k)
    BY <1>1, GuardedStays DEF Guarded
  <2> QED
    BY <1>3, <2>1, <2>2, <2>3, <2>4, <2>5, Quiet DEF Purge
<1>4. CASE DbMayFail /\ loc[p].todo # {} /\ EndGc(p) /\ UNCHANGED chunks
  BY <1>1, <1>4, EndGcTurn DEF Purge
<1> QED
  BY <1>2, <1>3, <1>4 DEF Purge

-----------------------------------------------------------------------------
(* The calls on one PR.                                                    *)

\* A step of p on its PR k is a turn, if it leaves k in order.
LEMMA OwnTurn ==
  ASSUME IInv, NEW p \in Process, NEW k \in Reviews[p],
         loc[p].pr = k \/ loc[p].pc \in GcStep \cup {"idle"},
         loc' \in [Process -> Call], \A q \in Process \ {p} : loc'[q] = loc[q],
         Home(p, loc'[p]), loc'[p].pc \notin GcStep,
         mem' \in [Process -> [PR -> Session]], \A q \in Process \ {p} : mem'[q] = mem[q],
         \A j \in PR : j # k => mem'[p][j] = mem[p][j],
         mem'[p][k].seen <= now, mem'[p][k].touched <= now,
         sessions' \in [PR -> Row], \A j \in PR : j # k => sessions'[j] = sessions[j],
         chunks' \in [PR -> SUBSET Commit], \A j \in PR : j # k => chunks'[j] = chunks[j],
         failed \subseteq failed', failed' \subseteq failed \cup {k},
         lapsed \subseteq lapsed', lapsed' \subseteq lapsed \cup {k},
         UNCHANGED <<head, now>>,
         sessions'[k].seen <= now, RowInv(k)',
         chunks'[k] # {} /\ k \notin failed' =>
           LiveRow(sessions'[k], now) \/ (chunks[k] # {} /\ ~LiveRow(sessions[k], now)),
         LiveRow(sessions[k], now) => LiveRow(sessions'[k], now) \/ k \in lapsed',
         Working(loc[p], mem[p])', Guarded(loc[p], mem[p], k)'
  PROVE  Turn(p) /\ OwnInv(p)'
<1>1. k \in PR /\ Reviews[p] \subseteq PR
  BY OwnPRs
<1>2. TypeOK'
  BY <1>1 DEF IInv, TypeOK
<1>3. Turn(p)
  <2>1. \A j \in PR : j # k =>
          /\ chunks'[j] # {} /\ j \notin failed' =>
               LiveRow(sessions'[j], now) \/ (chunks[j] # {} /\ ~LiveRow(sessions[j], now))
          /\ LiveRow(sessions[j], now) => LiveRow(sessions'[j], now) \/ j \in lapsed'
    OBVIOUS
  <2> QED
    BY <1>1, <2>1 DEF Turn
<1>4. ASSUME NEW j \in Reviews[p] PROVE (sessions[j].seen <= now /\ RowInv(j))'
  <2>1. CASE j = k
    BY <2>1
  <2>2. CASE j # k
    BY <1>1, <2>2 DEF IInv, Clock, RowInv, Vouched, RowFirst, Excused
  <2> QED
    BY <2>1, <2>2
<1>5. Orphans(loc[p], mem[p])' /\ Complete(loc[p])'
  BY DEF Orphans, Complete, GcStep
<1>6. ASSUME NEW j \in PR PROVE Guarded(loc[p], mem[p], j)'
  <2>1. CASE j = k
    BY <2>1
  <2>2. CASE j # k
    <3>1. Guarded(loc[p], mem[p], j)
      BY DEF IInv, CallInv
    <3>2. ~(loc[p].pr = j /\ loc[p].pc \notin GcStep)
      BY <2>2, IdleType, NoPRAssumption DEF IInv, Owned, Home
    <3> QED
      BY <2>2, <3>1, <3>2 DEF Guarded
  <2> QED
    BY <2>1, <2>2
<1>7. \A j \in PR : (/\ mem[p][j].there => j \in Reviews[p]
                     /\ mem[p][j].seen <= now /\ mem[p][j].touched <= now)'
  BY DEF IInv, Owned, Clock
<1> QED
  BY <1>2, <1>3, <1>4, <1>5, <1>6, <1>7 DEF OwnInv, CallInv, Home

\* While a call is at work on its PR.
LEMMA AtWork ==
  ASSUME IInv, NEW p \in Process, loc[p].pc \notin GcStep \cup {"idle"}
  PROVE  /\ loc[p].pr \in Reviews[p] /\ loc[p].pr \in PR /\ loc[p].pr # NoPR
         /\ loc[p] \in Call /\ now \in Time /\ now \in Nat /\ Ttl \in Nat \ {0}
         /\ sessions \in [PR -> Row] /\ chunks \in [PR -> SUBSET Commit]
         /\ sessions[loc[p].pr].seen <= now /\ RowInv(loc[p].pr)
         /\ mem[p][loc[p].pr].seen <= now /\ mem[p][loc[p].pr].touched <= now
         /\ Working(loc[p], mem[p])
         /\ mem \in [Process -> [PR -> Session]] /\ mem[p] \in [PR -> Session]
BY OwnPRs, NoPRAssumption, NumberAssumption
   DEF IInv, CallInv, Owned, Home, Clock, TypeOK, Time

\* SetRow: the row of k is the new one, or the statement failed.
LEMMA SetRowEffect ==
  ASSUME TypeOK, NEW k \in PR, NEW entry \in Row, SetRow(k, entry)
  PROVE  /\ sessions' \in [PR -> Row] /\ \A j \in PR : j # k => sessions'[j] = sessions[j]
         /\ \/ sessions'[k] = entry /\ failed' = failed
            \/ sessions' = sessions /\ failed' = failed \cup {k}
BY DEF SetRow, Fails, TypeOK

LEMMA DropOverlayEffect ==
  ASSUME TypeOK, NEW k \in PR, DropOverlay(k)
  PROVE  /\ chunks' \in [PR -> SUBSET Commit] /\ \A j \in PR : j # k => chunks'[j] = chunks[j]
         /\ \/ chunks'[k] = {} /\ failed' = failed
            \/ chunks' = chunks /\ failed' = failed \cup {k}
BY DEF DropOverlay, Fails, TypeOK

\* Reserve: the row is there from now on, and empty.
LEMMA ReserveTurn ==
  ASSUME IInv, NEW p \in Process, Reserve(p)
  PROVE  Turn(p) /\ OwnInv(p)'
<1>0. PICK k : k = loc[p].pr
  OBVIOUS
<1> DEFINE entry == [there |-> TRUE, payload |-> 0, seen |-> now]
<1>1. loc[p].pc = "reserve" /\ loc[p].pc \notin GcStep \cup {"idle"}
  BY DEF Reserve, At, GcStep
<1>2. /\ k \in Reviews[p] /\ k \in PR /\ RowInv(k) /\ now \in Time /\ now \in Nat
      /\ sessions[k].seen <= now /\ Ttl \in Nat \ {0}
  BY <1>0, <1>1, AtWork
<1>3. entry \in Row /\ LiveRow(entry, now)
  BY <1>0, <1>2, NumberAssumption DEF Row, LiveRow
<1>4. /\ loc' \in [Process -> Call] /\ \A q \in Process \ {p} : loc'[q] = loc[q]
      /\ loc'[p].pc = "heal" /\ loc'[p].pr = k
  BY <1>0, GotoMoves DEF Reserve, IInv, Pc, PrepareStep
<1>5. /\ sessions' \in [PR -> Row] /\ \A j \in PR : j # k => sessions'[j] = sessions[j]
      /\ \/ sessions'[k] = entry /\ failed' = failed
         \/ sessions' = sessions /\ failed' = failed \cup {k}
  BY <1>0, <1>2, <1>3, SetRowEffect DEF Reserve, SaveRow, IInv
<1>6. RowInv(k)' /\ sessions'[k].seen <= now
  BY <1>0, <1>2, <1>3, <1>5 DEF Reserve, RowInv, Vouched, RowFirst, Excused
<1>7. Working(loc[p], mem[p])'
  BY <1>0, <1>3, <1>4, <1>5 DEF Reserve, Working
<1>8. Guarded(loc[p], mem[p], k)' /\ Home(p, loc'[p])
  BY <1>0, <1>2, <1>4 DEF Guarded, Home, GcStep
<1>9. LiveRow(sessions'[k], now) \/ k \in failed'
  BY <1>0, <1>3, <1>5
<1>10. LiveRow(sessions[k], now) => LiveRow(sessions'[k], now)
  BY <1>0, <1>3, <1>5
<1> HIDE DEF entry
<1> QED
  BY <1>0, <1>1, <1>2, <1>4, <1>5, <1>6, <1>7, <1>8, <1>9, <1>10, AtWork, OwnTurn DEF Reserve, GcStep

LEMMA SelfHealTurn ==
  ASSUME IInv, NEW p \in Process, SelfHeal(p)
  PROVE  Turn(p) /\ OwnInv(p)'
<1>0. PICK k : k = loc[p].pr
  OBVIOUS
<1>1. loc[p].pc = "heal" /\ loc[p].pc \notin GcStep \cup {"idle"}
  BY DEF SelfHeal, At, GcStep
<1>2. /\ k \in Reviews[p] /\ k \in PR /\ RowInv(k) /\ sessions[k].seen <= now
      /\ Working(loc[p], mem[p]) /\ chunks \in [PR -> SUBSET Commit]
  BY <1>0, <1>1, AtWork
<1>3. /\ loc' \in [Process -> Call] /\ \A q \in Process \ {p} : loc'[q] = loc[q]
      /\ loc'[p].pr = k
      /\ \/ loc'[p].pc = "fetch" /\ chunks' = [chunks EXCEPT ![k] = {}] /\ failed' = failed
         \/ loc'[p].pc = "undo_row" /\ chunks' = chunks /\ failed' = failed \cup {k}
  BY <1>0, GotoMoves DEF SelfHeal, Fails, IInv, Pc, PrepareStep
<1>4. /\ chunks' \in [PR -> SUBSET Commit] /\ \A j \in PR : j # k => chunks'[j] = chunks[j]
      /\ chunks'[k] = {} \/ (chunks'[k] = chunks[k] /\ k \in failed')
  BY <1>0, <1>2, <1>3
<1>5. RowInv(k)'
  BY <1>0, <1>2, <1>3, <1>4 DEF SelfHeal, RowInv, Vouched, RowFirst, Excused
<1>6. Working(loc[p], mem[p])'
  BY <1>0, <1>1, <1>2, <1>3, <1>4 DEF SelfHeal, Working, BuildStep, PrepareStep
<1>7. Guarded(loc[p], mem[p], k)' /\ Home(p, loc'[p])
  BY <1>0, <1>2, <1>3 DEF Guarded, Home, GcStep
<1>8. loc'[p].pc \notin GcStep
  BY <1>0, <1>3 DEF GcStep
<1> QED
  BY <1>0, <1>1, <1>2, <1>3, <1>4, <1>5, <1>6, <1>7, <1>8, AtWork, OwnTurn DEF SelfHeal

\* The preparation goes on, or fails, without a statement.
LEMMA PrepareMoves ==
  ASSUME IInv, NEW p \in Process, PrepareFails(p) \/ Fetch(p) \/ Embed(p)
  PROVE  Turn(p) /\ OwnInv(p)'
<1>0. PICK k : k = loc[p].pr
  OBVIOUS
<1>1. /\ loc[p].pc \in {"fetch", "embed", "upsert", "units"}
      /\ loc[p].pc \notin GcStep \cup {"idle"}
      /\ UNCHANGED <<rows, chunks, mem, head, now, lapsed>>
  BY DEF PrepareFails, Fetch, Embed, At, GcStep
<1>2. /\ k \in Reviews[p] /\ k \in PR /\ k # NoPR /\ Working(loc[p], mem[p]) /\ loc[p] \in Call
      /\ chunks[k] \in SUBSET Commit /\ head[k] \in Commit /\ Commit \subseteq 0..MaxHead
  BY <1>0, <1>1, AtWork DEF IInv, TypeOK, Commit
<1>3. /\ loc' \in [Process -> Call] /\ \A q \in Process \ {p} : loc'[q] = loc[q]
      /\ loc'[p].pr = k /\ loc'[p].pc \in {"embed", "upsert", "undo_overlay"}
      /\ loc'[p].pc = "embed" =>
           loc[p].pc = "fetch" /\ loc'[p].head \in Commit
      /\ loc'[p].pc = "upsert" =>
           loc[p].pc = "embed" /\ loc'[p].head = loc[p].head /\ loc'[p].seen = chunks[k]
  <2>1. CASE PrepareFails(p)
    BY <1>0, <2>1, GotoMoves DEF PrepareFails, IInv, Pc, PrepareStep
  <2>2. CASE Fetch(p)
    <3> DEFINE c == [loc[p] EXCEPT !.pc = "embed", !.head = head[k]]
    <3>1. /\ c \in Call /\ c.pr = k /\ c.pc = "embed" /\ c.head \in Commit
          /\ loc' = [loc EXCEPT ![p] = c] /\ loc[p].pc = "fetch"
      BY <1>0, <1>2, <2>2 DEF Fetch, Call, PrepareStep, At
    <3> HIDE DEF c
    <3> QED
      BY <1>0, <3>1, CallMoves DEF IInv
  <2>3. CASE Embed(p)
    <3> DEFINE c == [loc[p] EXCEPT !.pc = "upsert", !.seen = chunks[k]]
    <3>1. /\ c \in Call /\ c.pr = k /\ c.pc = "upsert" /\ c.head = loc[p].head
          /\ c.seen = chunks[k]
          /\ loc' = [loc EXCEPT ![p] = c] /\ loc[p].pc = "embed"
      BY <1>0, <1>2, <2>3 DEF Embed, Call, PrepareStep, At
    <3> HIDE DEF c
    <3> QED
      BY <1>0, <3>1, CallMoves DEF IInv
  <2> QED
    BY <1>0, <2>1, <2>2, <2>3
<1>4. Home(p, loc'[p])
  BY <1>0, <1>2, <1>3 DEF Home
<1>5. Working(loc'[p], mem[p])
  BY <1>0, <1>1, <1>2, <1>3 DEF Working, BuildStep, PrepareStep
<1>6. Orphans(loc'[p], mem[p]) /\ Complete(loc'[p])
  BY <1>0, <1>3 DEF Orphans, Complete
<1>7. \A j \in PR : Guarded(loc'[p], mem[p], j)
  BY <1>0, <1>1, <1>3 DEF Guarded, IInv, CallInv, GcStep
<1> QED
  BY <1>0, <1>1, <1>3, <1>4, <1>5, <1>6, <1>7, Quiet

LEMMA UpsertTurn ==
  ASSUME IInv, NEW p \in Process, Upsert(p)
  PROVE  Turn(p) /\ OwnInv(p)'
<1>0. PICK k : k = loc[p].pr
  OBVIOUS
<1> DEFINE h == loc[p].head
<1>1. loc[p].pc = "upsert" /\ loc[p].pc \notin GcStep \cup {"idle"}
  BY DEF Upsert, At, GcStep
<1>2. /\ k \in Reviews[p] /\ k \in PR /\ RowInv(k) /\ sessions[k].seen <= now
      /\ Working(loc[p], mem[p]) /\ chunks \in [PR -> SUBSET Commit]
  BY <1>0, <1>1, AtWork
<1>3. chunks[k] = {} /\ loc[p].seen = {} /\ h \in Commit
  BY <1>0, <1>1, <1>2 DEF Working
<1>4. k \notin failed => /\ sessions[k].there /\ sessions[k].payload = 0
                         /\ LiveRow(sessions[k], now)
  BY <1>0, <1>1, <1>2 DEF Working, BuildStep, PrepareStep
<1>5. /\ loc' \in [Process -> Call] /\ \A q \in Process \ {p} : loc'[q] = loc[q]
      /\ loc'[p].pr = k /\ loc'[p].pc = "units" /\ loc'[p].head = h
  BY <1>0, GotoMoves DEF Upsert, IInv, Pc, PrepareStep
<1>6. /\ chunks' \in [PR -> SUBSET Commit] /\ \A j \in PR : j # k => chunks'[j] = chunks[j]
      /\ chunks'[k] = {h}
  BY <1>0, <1>2, <1>3 DEF Upsert
<1>7. RowInv(k)'
  BY <1>0, <1>2, <1>4, <1>6 DEF Upsert, rows, RowInv, Vouched, RowFirst, Excused
<1>8. Working(loc[p], mem[p])'
  BY <1>0, <1>3, <1>4, <1>5, <1>6 DEF Upsert, rows, Working
<1>9. Guarded(loc[p], mem[p], k)' /\ Home(p, loc'[p]) /\ loc'[p].pc \notin GcStep
  BY <1>0, <1>2, <1>5 DEF Guarded, Home, GcStep
<1> HIDE DEF h
<1> QED
  BY <1>0, <1>1, <1>2, <1>4, <1>5, <1>6, <1>7, <1>8, <1>9, AtWork, OwnTurn DEF Upsert, rows

LEMMA PreparedTurn ==
  ASSUME IInv, NEW p \in Process, Prepared(p)
  PROVE  Turn(p) /\ OwnInv(p)'
<1>0. PICK k : k = loc[p].pr
  OBVIOUS
<1> DEFINE new == [there |-> TRUE, head |-> loc[p].head, seen |-> now, touched |-> -1]
<1>1. loc[p].pc = "units" /\ loc[p].pc \notin GcStep \cup {"idle"}
  BY DEF Prepared, At, GcStep
<1>2. /\ k \in Reviews[p] /\ k \in PR /\ RowInv(k) /\ sessions[k].seen <= now
      /\ Working(loc[p], mem[p]) /\ now \in Time /\ now \in Nat /\ loc[p] \in Call
      /\ mem \in [Process -> [PR -> Session]]
  BY <1>0, <1>1, AtWork
<1>3. new \in Session
  BY <1>2 DEF Session, Call
<1>4. /\ loc' \in [Process -> Call] /\ \A q \in Process \ {p} : loc'[q] = loc[q]
      /\ loc'[p].pr = k /\ loc'[p].pc = "save" /\ loc'[p].head = loc[p].head
  BY <1>0, GotoMoves DEF Prepared, IInv, Pc, PrepareStep
<1>5. mem' = [mem EXCEPT ![p][k] = new]
  BY <1>0 DEF Prepared
<1> HIDE DEF new
<1>6. /\ mem' \in [Process -> [PR -> Session]] /\ mem'[p][k] = new
      /\ \A q \in Process \ {p} : mem'[q] = mem[q]
      /\ \A j \in PR : j # k => mem'[p][j] = mem[p][j]
  BY <1>2, <1>3, <1>5
<1>7. new.seen <= now /\ new.touched <= now
  BY <1>2 DEF new
<1>8. RowInv(k)'
  BY <1>2 DEF Prepared, rows, RowInv, Vouched, RowFirst, Excused
<1>9. Working(loc[p], mem[p])'
  BY <1>0, <1>1, <1>2, <1>4 DEF Prepared, rows, Working, BuildStep, PrepareStep, Excused
<1>10. Guarded(loc[p], mem[p], k)' /\ Home(p, loc'[p]) /\ loc'[p].pc \notin GcStep
  BY <1>2, <1>4 DEF Guarded, Home, GcStep
<1>11. k \notin failed => LiveRow(sessions[k], now)
  BY <1>0, <1>1, <1>2 DEF Working, BuildStep, PrepareStep
<1> QED
  BY <1>0, <1>2, <1>4, <1>6, <1>7, <1>8, <1>9, <1>10, <1>11, AtWork, OwnTurn
     DEF Prepared, rows, IInv, TypeOK

LEMMA ReturnMoves ==
  ASSUME TypeOK, NEW p \in Process, Return(p)
  PROVE  /\ loc' \in [Process -> Call] /\ \A q \in Process \ {p} : loc'[q] = loc[q]
         /\ loc'[p] = Idle /\ Home(p, loc'[p]) /\ loc'[p].pc \notin GcStep
         /\ loc'[p].pc = "idle" /\ loc'[p].pr = NoPR
BY IdleType, CallMoves DEF Return, Home, GcStep

LEMMA IdleWorks ==
  ASSUME NEW p, loc'[p] = Idle
  PROVE  Working(loc[p], mem[p])'
BY IdleType DEF Working, BuildStep, PrepareStep

LEMMA SaveTurn ==
  ASSUME IInv, NEW p \in Process, Save(p)
  PROVE  Turn(p) /\ OwnInv(p)'
<1>0. PICK k : k = loc[p].pr
  OBVIOUS
<1> DEFINE entry == [there |-> TRUE, payload |-> loc[p].head, seen |-> now]
<1>1. loc[p].pc = "save" /\ loc[p].pc \notin GcStep \cup {"idle"}
  BY DEF Save, At, GcStep
<1>2. /\ k \in Reviews[p] /\ k \in PR /\ RowInv(k) /\ now \in Time /\ now \in Nat
      /\ sessions[k].seen <= now /\ Ttl \in Nat \ {0} /\ loc[p] \in Call
      /\ mem \in [Process -> [PR -> Session]]
      /\ mem[p][k].seen <= now /\ mem[p][k].touched <= now
  BY <1>0, <1>1, AtWork
<1>3. entry \in Row /\ LiveRow(entry, now) /\ entry.there /\ entry.seen = now
  BY <1>2, NumberAssumption DEF Row, LiveRow, Call
<1>4. /\ loc' \in [Process -> Call] /\ \A q \in Process \ {p} : loc'[q] = loc[q]
      /\ loc'[p] = Idle /\ Home(p, loc'[p]) /\ loc'[p].pc \notin GcStep
      /\ loc'[p].pc = "idle" /\ loc'[p].pr = NoPR
  BY ReturnMoves DEF Save, IInv
<1>5. SaveRow(k, loc[p].head)
  BY <1>0 DEF Save
<1>6. /\ sessions' \in [PR -> Row] /\ \A j \in PR : j # k => sessions'[j] = sessions[j]
      /\ \/ sessions'[k] = entry /\ failed' = failed
         \/ sessions' = sessions /\ failed' = failed \cup {k}
  BY <1>2, <1>3, <1>5, SetRowEffect DEF SaveRow, IInv
<1> HIDE DEF entry
<1>7. RowInv(k)' /\ sessions'[k].seen <= now
  BY <1>2, <1>3, <1>6 DEF Save, RowInv, Vouched, RowFirst, Excused
<1>8. Working(loc[p], mem[p])'
  BY <1>4, IdleWorks
<1>9. Guarded(loc[p], mem[p], k)'
  BY <1>2, <1>3, <1>6 DEF Save, Guarded
<1>10. LiveRow(sessions'[k], now) \/ k \in failed'
  BY <1>3, <1>6
<1>11. LiveRow(sessions[k], now) => LiveRow(sessions'[k], now)
  BY <1>3, <1>6
<1> QED
  BY <1>0, <1>2, <1>4, <1>6, <1>7, <1>8, <1>9, <1>10, <1>11, OwnTurn DEF Save, IInv, TypeOK

LEMMA UndoOverlayTurn ==
  ASSUME IInv, NEW p \in Process, UndoOverlay(p)
  PROVE  Turn(p) /\ OwnInv(p)'
<1>0. PICK k : k = loc[p].pr
  OBVIOUS
<1>1. loc[p].pc = "undo_overlay" /\ loc[p].pc \notin GcStep \cup {"idle"}
  BY DEF UndoOverlay, At, GcStep
<1>2. /\ k \in Reviews[p] /\ k \in PR /\ RowInv(k) /\ sessions[k].seen <= now
      /\ Working(loc[p], mem[p]) /\ mem \in [Process -> [PR -> Session]]
      /\ mem[p][k].seen <= now /\ mem[p][k].touched <= now
  BY <1>0, <1>1, AtWork
<1>3. /\ loc' \in [Process -> Call] /\ \A q \in Process \ {p} : loc'[q] = loc[q]
      /\ loc'[p].pr = k /\ loc'[p].pc = "undo_row"
  BY <1>0, GotoMoves DEF UndoOverlay, IInv, Pc, PrepareStep
<1>4. /\ chunks' \in [PR -> SUBSET Commit] /\ \A j \in PR : j # k => chunks'[j] = chunks[j]
      /\ \/ chunks'[k] = {} /\ failed' = failed
         \/ chunks' = chunks /\ failed' = failed \cup {k}
  BY <1>0, <1>2, DropOverlayEffect DEF UndoOverlay, IInv
<1>5. RowInv(k)'
  BY <1>2, <1>4 DEF UndoOverlay, RowInv, Vouched, RowFirst, Excused
<1>6. Working(loc[p], mem[p])'
  BY <1>0, <1>1, <1>2, <1>3, <1>4 DEF UndoOverlay, Working, BuildStep, PrepareStep
<1>7. Guarded(loc[p], mem[p], k)' /\ Home(p, loc'[p]) /\ loc'[p].pc \notin GcStep
  BY <1>2, <1>3 DEF Guarded, Home, GcStep
<1> QED
  BY <1>0, <1>2, <1>3, <1>4, <1>5, <1>6, <1>7, OwnTurn DEF UndoOverlay, IInv, TypeOK

\* The row of k goes after its overlay went.
LEMMA DeleteRowTurn ==
  ASSUME IInv, NEW p \in Process, loc[p].pc \in {"undo_row", "clean_row"},
         DeleteRow(loc[p].pr), Return(p), UNCHANGED <<chunks, mem, head, now>>, NoteLapsed
  PROVE  Turn(p) /\ OwnInv(p)'
<1>0. PICK k : k = loc[p].pr
  OBVIOUS
<1>1. loc[p].pc \notin GcStep \cup {"idle"}
  BY DEF GcStep
<1>2. /\ k \in Reviews[p] /\ k \in PR /\ RowInv(k) /\ sessions[k].seen <= now /\ now \in Nat
      /\ Working(loc[p], mem[p]) /\ mem \in [Process -> [PR -> Session]]
      /\ mem[p][k].seen <= now /\ mem[p][k].touched <= now
  BY <1>0, <1>1, AtWork
<1>3. /\ loc' \in [Process -> Call] /\ \A q \in Process \ {p} : loc'[q] = loc[q]
      /\ loc'[p] = Idle /\ Home(p, loc'[p]) /\ loc'[p].pc \notin GcStep
  BY ReturnMoves DEF IInv
<1>4. /\ sessions' \in [PR -> Row] /\ \A j \in PR : j # k => sessions'[j] = sessions[j]
      /\ \/ sessions'[k] = NoRow /\ failed' = failed
         \/ sessions' = sessions /\ failed' = failed \cup {k}
  BY <1>0, <1>2, IdleType, SetRowEffect DEF DeleteRow, IInv
<1>5. chunks[k] = {} \/ k \in failed
  BY <1>0, <1>2 DEF Working
<1>6. /\ lapsed \subseteq lapsed' /\ lapsed' \subseteq lapsed \cup {k}
      /\ LiveRow(sessions[k], now) => LiveRow(sessions'[k], now) \/ k \in lapsed'
  <2>1. \A j \in PR : sessions[j].there /\ ~LiveRow(sessions[j], now) => j \in lapsed
    BY DEF IInv, RowInv, Vouched
  <2>2. lapsed' = lapsed \cup {j \in PR : sessions[j].there /\ ~LiveRow(sessions'[j], now)}
    BY DEF NoteLapsed, LiveRow
  <2> QED
    BY <1>2, <1>4, <2>1, <2>2 DEF LiveRow
<1>7. RowInv(k)' /\ sessions'[k].seen <= now
  BY <1>2, <1>4, <1>5, <1>6 DEF RowInv, Vouched, RowFirst, Excused, NoRow
<1>8. Working(loc[p], mem[p])'
  BY <1>3, IdleWorks
<1>9. Guarded(loc[p], mem[p], k)'
  BY <1>4, <1>5 DEF Guarded
<1> QED
  BY <1>0, <1>2, <1>3, <1>4, <1>5, <1>6, <1>7, <1>8, <1>9, OwnTurn DEF IInv, TypeOK

\* _touch_session: what the tools do to a session and to its row.
LEMMA TouchEffect ==
  ASSUME TypeOK, NEW p \in Process, NEW k \in PR, TouchSession(p, k)
  PROVE  /\ mem' \in [Process -> [PR -> Session]]
         /\ \A q \in Process \ {p} : mem'[q] = mem[q]
         /\ \A j \in PR : j # k => mem'[p][j] = mem[p][j]
         /\ mem'[p][k].there = mem[p][k].there
         /\ mem'[p][k].seen = now /\ mem'[p][k].touched = now
         /\ sessions' \in [PR -> Row] /\ \A j \in PR : j # k => sessions'[j] = sessions[j]
         /\ failed \subseteq failed' /\ failed' \subseteq failed \cup {k}
         /\ \/ /\ sessions' = sessions
               /\ mem[p][k].touched = now \/ ~sessions[k].there \/ k \in failed'
            \/ /\ sessions[k].there /\ sessions'[k].there
               /\ sessions'[k].payload = sessions[k].payload /\ sessions'[k].seen = now
<1>0. mem[p][k] \in Session /\ now \in Time /\ sessions[k] \in Row
  BY DEF TypeOK
<1>1. \A m \in Session :
        /\ [m EXCEPT !.seen = now] \in Session
        /\ [m EXCEPT !.seen = now, !.touched = now] \in Session
  BY <1>0 DEF Session
<1>2. CASE mem[p][k].touched = now /\ mem' = [mem EXCEPT ![p][k].seen = now] /\ UNCHANGED rows
  <2> DEFINE new == [mem[p][k] EXCEPT !.seen = now]
  <2>1. /\ new \in Session /\ new.there = mem[p][k].there /\ new.seen = now
        /\ new.touched = mem[p][k].touched
    BY <1>0, <1>1 DEF Session
  <2>2. mem' = [mem EXCEPT ![p][k] = new]
    BY <1>2
  <2> HIDE DEF new
  <2>3. /\ mem' \in [Process -> [PR -> Session]] /\ mem'[p][k] = new
        /\ \A q \in Process \ {p} : mem'[q] = mem[q]
        /\ \A j \in PR : j # k => mem'[p][j] = mem[p][j]
    BY <2>1, <2>2 DEF TypeOK
  <2> QED
    BY <1>2, <2>1, <2>3 DEF rows, TypeOK
<1>3. CASE mem' = [mem EXCEPT ![p][k].seen = now, ![p][k].touched = now] /\ TouchRow(k)
  <2> DEFINE new == [mem[p][k] EXCEPT !.seen = now, !.touched = now]
             entry == [sessions[k] EXCEPT !.seen = now]
  <2>1. /\ new \in Session /\ new.there = mem[p][k].there /\ new.seen = now /\ new.touched = now
    BY <1>0, <1>1 DEF Session
  <2>2. mem' = [mem EXCEPT ![p][k] = new]
    BY <1>3, <1>0 DEF TypeOK, Session
  <2>3. /\ entry \in Row /\ entry.there = sessions[k].there /\ entry.payload = sessions[k].payload
        /\ entry.seen = now
    BY <1>0 DEF Row
  <2>4. \/ ~sessions[k].there /\ UNCHANGED rows
        \/ sessions[k].there /\ SetRow(k, entry)
    BY <1>3 DEF TouchRow
  <2> HIDE DEF new, entry
  <2>5. /\ sessions' \in [PR -> Row] /\ \A j \in PR : j # k => sessions'[j] = sessions[j]
        /\ \/ sessions' = sessions /\ failed' = failed /\ ~sessions[k].there
           \/ sessions[k].there /\ sessions'[k] = entry /\ failed' = failed
           \/ sessions' = sessions /\ failed' = failed \cup {k}
    BY <2>3, <2>4, SetRowEffect DEF rows, TypeOK
  <2>6. /\ mem' \in [Process -> [PR -> Session]] /\ mem'[p][k] = new
        /\ \A q \in Process \ {p} : mem'[q] = mem[q]
        /\ \A j \in PR : j # k => mem'[p][j] = mem[p][j]
    BY <2>1, <2>2 DEF TypeOK
  <2> QED
    BY <2>1, <2>3, <2>5, <2>6
<1> QED
  BY <1>2, <1>3 DEF TouchSession

\* A call that keeps the review of k alive.
LEMMA KeepaliveTurn ==
  ASSUME IInv, NEW p \in Process, NEW k \in Reviews[p], TouchSession(p, k),
         loc[p].pr = k \/ loc[p].pc \in GcStep \cup {"idle"},
         loc' \in [Process -> Call], \A q \in Process \ {p} : loc'[q] = loc[q],
         Home(p, loc'[p]), loc'[p].pc \in {"idle", "clean_overlay"},
         UNCHANGED <<chunks, head, now, lapsed>>,
         mem[p][k].there /\ chunks[k] # {} /\ k \notin failed =>
           sessions[k].there /\ (mem[p][k].touched = now => sessions[k].seen = now)
  PROVE  Turn(p) /\ OwnInv(p)'
<1>1. /\ k \in PR /\ RowInv(k) /\ sessions[k].seen <= now /\ now \in Nat /\ Ttl \in Nat \ {0}
      /\ TypeOK
  BY OwnPRs, NumberAssumption DEF IInv, Clock, TypeOK, Time
<1>2. /\ mem' \in [Process -> [PR -> Session]]
      /\ \A q \in Process \ {p} : mem'[q] = mem[q]
      /\ \A j \in PR : j # k => mem'[p][j] = mem[p][j]
      /\ mem'[p][k].there = mem[p][k].there
      /\ mem'[p][k].seen = now /\ mem'[p][k].touched = now
      /\ sessions' \in [PR -> Row] /\ \A j \in PR : j # k => sessions'[j] = sessions[j]
      /\ failed \subseteq failed' /\ failed' \subseteq failed \cup {k}
      /\ \/ /\ sessions' = sessions
            /\ mem[p][k].touched = now \/ ~sessions[k].there \/ k \in failed'
         \/ /\ sessions[k].there /\ sessions'[k].there
            /\ sessions'[k].payload = sessions[k].payload /\ sessions'[k].seen = now
  BY <1>1, TouchEffect
<1>3. RowInv(k)' /\ sessions'[k].seen <= now
  BY <1>1, <1>2 DEF RowInv, Vouched, RowFirst, Excused, LiveRow
<1>4. LiveRow(sessions[k], now) => LiveRow(sessions'[k], now)
  BY <1>1, <1>2 DEF LiveRow
<1>5. Working(loc[p], mem[p])'
  BY DEF Working, BuildStep, PrepareStep
<1>6. Guarded(loc[p], mem[p], k)'
  BY <1>1, <1>2 DEF Guarded
<1>7. loc'[p].pc \notin GcStep
  BY DEF GcStep
<1>8. chunks' \in [PR -> SUBSET Commit]
  BY <1>1 DEF TypeOK
<1>9. mem'[p][k].seen <= now /\ mem'[p][k].touched <= now
  BY <1>1, <1>2
<1> QED
  BY <1>2, <1>3, <1>4, <1>5, <1>6, <1>7, <1>8, <1>9, OwnTurn

LEMMA ToolTurn ==
  ASSUME IInv, NEW p \in Process, NEW k \in PR, Tool(p, k) \/ Publish(p, k)
  PROVE  Turn(p) /\ OwnInv(p)'
<1>1. /\ loc[p].pc = "idle" /\ mem[p][k].there /\ TouchSession(p, k)
      /\ UNCHANGED <<chunks, head, now, lapsed>>
  BY DEF Tool, Publish, At
<1>2. k \in Reviews[p] /\ k # NoPR /\ now \in Int /\ sessions[k].seen \in Int
  BY <1>1, NoPRAssumption DEF IInv, Owned, TypeOK, Row, Time
<1>3. /\ loc' \in [Process -> Call] /\ \A q \in Process \ {p} : loc'[q] = loc[q]
      /\ Home(p, loc'[p]) /\ loc'[p].pc \in {"idle", "clean_overlay"}
  <2>1. CASE Tool(p, k)
    BY <1>1, <2>1 DEF Tool, IInv, Owned, TypeOK
  <2>2. CASE Publish(p, k)
    <3> DEFINE c == [Idle EXCEPT !.pc = "clean_overlay", !.pr = k]
    <3>1. c \in Call /\ Home(p, c) /\ c.pc = "clean_overlay"
      BY <1>2, IdleType DEF Call, Home, Idle
    <3>2. loc' = [loc EXCEPT ![p] = c]
      BY <2>2 DEF Publish
    <3> HIDE DEF c
    <3> QED
      BY <3>1, <3>2, CallMoves DEF IInv
  <2> QED
    BY <2>1, <2>2
<1>4. chunks[k] # {} /\ k \notin failed =>
        sessions[k].there /\ (mem[p][k].touched = now => sessions[k].seen = now)
  BY <1>1, <1>2, GuardedStays DEF IInv, Clock
<1> QED
  BY <1>1, <1>2, <1>3, <1>4, KeepaliveTurn

LEMMA RehydrateTurn ==
  ASSUME IInv, NEW p \in Process, NEW k \in PR, Rehydrate(p, k)
  PROVE  Turn(p) /\ OwnInv(p)'
<1> DEFINE new == [there |-> TRUE, head |-> sessions[k].payload, seen |-> now, touched |-> -1]
           c == [Idle EXCEPT !.pc = "touch", !.pr = k]
<1>1. /\ loc[p].pc = "idle" /\ k \in Reviews[p] /\ LiveRow(sessions[k], now) /\ RowInv(k)
      /\ sessions[k].seen <= now /\ now \in Nat /\ now \in Time /\ sessions[k] \in Row /\ k # NoPR
  BY NoPRAssumption
     DEF Rehydrate, At, Live, LiveRow, Recent, IInv, Clock, TypeOK, Time
<1>2. new \in Session /\ new.seen = now /\ new.touched = -1
  BY <1>1 DEF Session, Row
<1>3. c \in Call /\ Home(p, c) /\ c.pc = "touch" /\ c.pr = k
  BY <1>1, IdleType DEF Call, Home, Idle
<1>4. mem' = [mem EXCEPT ![p][k] = new] /\ loc' = [loc EXCEPT ![p] = c]
  BY DEF Rehydrate
<1> HIDE DEF new, c
<1>5. loc' \in [Process -> Call] /\ loc'[p] = c /\ \A q \in Process \ {p} : loc'[q] = loc[q]
  BY <1>3, <1>4, CallMoves DEF IInv
<1>6. /\ mem' \in [Process -> [PR -> Session]] /\ mem'[p][k] = new
      /\ \A q \in Process \ {p} : mem'[q] = mem[q]
      /\ \A j \in PR : j # k => mem'[p][j] = mem[p][j]
  BY <1>2, <1>4 DEF IInv, TypeOK
<1>7. RowInv(k)'
  BY <1>1 DEF Rehydrate, rows, RowInv, Vouched, RowFirst, Excused
<1>8. Working(loc[p], mem[p])'
  BY <1>1, <1>2, <1>3, <1>5, <1>6 DEF Rehydrate, rows, Working, BuildStep, PrepareStep
<1>9. Guarded(loc[p], mem[p], k)' /\ c.pc \notin GcStep
  BY <1>3, <1>5 DEF Guarded, GcStep
<1>10. mem'[p][k].seen <= now /\ mem'[p][k].touched <= now
  BY <1>1, <1>2, <1>6
<1>11. /\ sessions' = sessions /\ failed' = failed /\ chunks' = chunks
       /\ UNCHANGED <<head, now>> /\ lapsed' = lapsed
       /\ sessions \in [PR -> Row] /\ chunks \in [PR -> SUBSET Commit]
  BY DEF Rehydrate, rows, IInv, TypeOK
<1> QED
  BY <1>1, <1>3, <1>5, <1>6, <1>7, <1>8, <1>9, <1>10, <1>11, OwnTurn

LEMMA TouchRehydratedTurn ==
  ASSUME IInv, NEW p \in Process, TouchRehydrated(p)
  PROVE  Turn(p) /\ OwnInv(p)'
<1>0. PICK k : k = loc[p].pr
  OBVIOUS
<1>1. loc[p].pc = "touch" /\ loc[p].pc \notin GcStep \cup {"idle"}
  BY DEF TouchRehydrated, At, GcStep
<1>2. k \in Reviews[p] /\ Working(loc[p], mem[p]) /\ now \in Nat
  BY <1>0, <1>1, AtWork
<1>3. mem[p][k].touched = -1 /\ (k \notin failed => sessions[k].there)
  BY <1>0, <1>1, <1>2 DEF Working, LiveRow
<1>4. /\ loc' \in [Process -> Call] /\ \A q \in Process \ {p} : loc'[q] = loc[q]
      /\ Home(p, loc'[p]) /\ loc'[p].pc = "idle"
  BY ReturnMoves DEF TouchRehydrated, IInv
<1> QED
  BY <1>0, <1>2, <1>3, <1>4, KeepaliveTurn DEF TouchRehydrated

LEMMA CleanOverlayTurn ==
  ASSUME IInv, NEW p \in Process, CleanOverlay(p)
  PROVE  Turn(p) /\ OwnInv(p)'
<1>0. PICK k : k = loc[p].pr
  OBVIOUS
<1>1. loc[p].pc = "clean_overlay" /\ loc[p].pc \notin GcStep \cup {"idle"}
  BY DEF CleanOverlay, At, GcStep
<1>2. /\ k \in Reviews[p] /\ k \in PR /\ RowInv(k) /\ sessions[k].seen <= now
      /\ sessions \in [PR -> Row] /\ now \in Nat
  BY <1>0, <1>1, AtWork
<1>3. /\ loc' \in [Process -> Call] /\ \A q \in Process \ {p} : loc'[q] = loc[q]
      /\ loc'[p].pr = k /\ loc'[p].pc = "clean_row"
  BY <1>0, GotoMoves DEF CleanOverlay, IInv, Pc
<1>4. /\ chunks' \in [PR -> SUBSET Commit] /\ \A j \in PR : j # k => chunks'[j] = chunks[j]
      /\ \/ chunks'[k] = {} /\ failed' = failed
         \/ chunks' = chunks /\ failed' = failed \cup {k}
  BY <1>0, <1>2, DropOverlayEffect DEF CleanOverlay, IInv
<1>5. /\ mem' \in [Process -> [PR -> Session]] /\ mem'[p][k] = NoSession
      /\ \A q \in Process \ {p} : mem'[q] = mem[q]
      /\ \A j \in PR : j # k => mem'[p][j] = mem[p][j]
  BY <1>0, <1>2, IdleType DEF CleanOverlay, IInv, TypeOK
<1>6. NoSession.seen <= now /\ NoSession.touched <= now /\ ~NoSession.there
  BY <1>2 DEF NoSession
<1>7. RowInv(k)'
  BY <1>2, <1>4 DEF CleanOverlay, RowInv, Vouched, RowFirst, Excused
<1>8. Working(loc[p], mem[p])'
  BY <1>3, <1>4, <1>5, <1>6 DEF Working, BuildStep, PrepareStep
<1>9. Guarded(loc[p], mem[p], k)' /\ Home(p, loc'[p]) /\ loc'[p].pc \notin GcStep
  BY <1>2, <1>3 DEF Guarded, Home, GcStep
<1>10. sessions' = sessions /\ UNCHANGED <<head, now>> /\ lapsed' = lapsed
  BY DEF CleanOverlay
<1> QED
  BY <1>0, <1>2, <1>3, <1>4, <1>5, <1>6, <1>7, <1>8, <1>9, <1>10, OwnTurn

\* The process dies and forgets its call and its sessions.
LEMMA CrashTurn ==
  ASSUME IInv, NEW p \in Process, Crash(p)
  PROVE  Turn(p) /\ OwnInv(p)'
<1>1. /\ loc' \in [Process -> Call] /\ \A q \in Process \ {p} : loc'[q] = loc[q]
      /\ loc'[p] = Idle /\ Home(p, loc'[p]) /\ loc'[p].pc = "idle"
  BY ReturnMoves DEF Crash, IInv
<1>2. /\ mem' \in [Process -> [PR -> Session]]
      /\ \A q \in Process \ {p} : mem'[q] = mem[q]
      /\ \A k \in PR : mem'[p][k] = NoSession
  BY IdleType DEF Crash, IInv, TypeOK
<1>3. /\ sessions' = sessions /\ failed' = failed /\ chunks' = chunks /\ head' = head
      /\ now' = now /\ lapsed' = lapsed
  BY DEF Crash, rows
<1>4. now \in Nat /\ NoSession.seen <= now /\ NoSession.touched <= now /\ ~NoSession.there
  BY NumberAssumption DEF IInv, TypeOK, Time, NoSession
<1>5. TypeOK'
  BY <1>1, <1>2, <1>3 DEF IInv, TypeOK
<1>6. Turn(p)
  BY <1>1, <1>2, <1>3 DEF Turn
<1>7. \A k \in Reviews[p] : (sessions[k].seen <= now /\ RowInv(k))'
  BY <1>3, OwnPRs DEF IInv, Clock, RowInv, Vouched, RowFirst, Excused
<1>8. Working(loc[p], mem[p])' /\ Orphans(loc[p], mem[p])' /\ Complete(loc[p])'
  BY <1>1 DEF Working, Orphans, Complete, BuildStep, PrepareStep
<1>9. \A k \in PR : Guarded(loc[p], mem[p], k)'
  BY <1>2, <1>4 DEF Guarded
<1>10. \A k \in PR : (/\ mem[p][k].there => k \in Reviews[p]
                      /\ mem[p][k].seen <= now /\ mem[p][k].touched <= now)'
  BY <1>2, <1>3, <1>4
<1> QED
  BY <1>1, <1>5, <1>6, <1>7, <1>8, <1>9, <1>10 DEF OwnInv, CallInv, Home

-----------------------------------------------------------------------------
(* The world, and the whole.                                               *)

LEMMA PushStep ==
  ASSUME IInv, NEW k \in PR, Push(k)
  PROVE  IInv'
<1>1. /\ sessions' = sessions /\ failed' = failed /\ chunks' = chunks /\ mem' = mem
      /\ loc' = loc /\ now' = now /\ lapsed' = lapsed
  BY DEF Push, rows
<1>2. head' \in [PR -> Commit]
  BY NumberAssumption DEF Push, IInv, TypeOK, Commit
<1>3. TypeOK'
  BY <1>1, <1>2 DEF IInv, TypeOK
<1>4. Owned' /\ Clock' /\ \A j \in PR : RowInv(j)'
  BY <1>1 DEF IInv, Owned, Clock, RowInv, Vouched, RowFirst, Excused
<1>5. \A p \in Process : CallInv(p)'
  BY <1>1 DEF IInv, CallInv, Working, Orphans, Complete, Guarded, Excused
<1> QED
  BY <1>3, <1>4, <1>5 DEF IInv

\* Time passes between calls only.
LEMMA TickStep ==
  ASSUME IInv, Tick
  PROVE  IInv'
<1>1. /\ sessions' = sessions /\ failed' = failed /\ chunks' = chunks /\ mem' = mem
      /\ loc' = loc /\ head' = head /\ now' = now + 1 /\ now < MaxTime
      /\ \A p \in Process : loc[p].pc = "idle"
  BY DEF Tick, rows, At
<1>2. lapsed' = lapsed \cup {k \in PR : sessions[k].there /\ ~LiveRow(sessions[k], now')}
  BY <1>1 DEF Tick, NoteLapsed, LiveRow
<1>3. TypeOK'
  BY <1>1, <1>2, NumberAssumption DEF IInv, TypeOK, Time
<1>4. Owned' /\ Clock'
  <2>1. \A k \in PR : sessions[k].seen \in Int
    BY DEF IInv, TypeOK, Row, Time
  <2>2. \A p \in Process, k \in PR : mem[p][k] \in Session
    BY DEF IInv, TypeOK
  <2>3. now \in Int
    BY DEF IInv, TypeOK, Time
  <2> QED
    BY <1>1, <2>1, <2>2, <2>3 DEF IInv, Owned, Clock, Session, Time
<1>5. \A k \in PR : RowInv(k)'
  BY <1>1, <1>2 DEF IInv, RowInv, Vouched, RowFirst, Excused
<1>6. \A p \in Process : CallInv(p)'
  BY <1>1 DEF IInv, CallInv, Working, Orphans, Complete, Guarded, BuildStep, PrepareStep
<1> QED
  BY <1>3, <1>4, <1>5, <1>6 DEF IInv

LEMMA InitHolds == Init => IInv
<1> SUFFICES ASSUME Init PROVE IInv
  OBVIOUS
<1>1. /\ \A k \in PR : sessions[k] = NoRow /\ chunks[k] = {} /\ head[k] = 1
      /\ \A p \in Process : loc[p] = Idle /\ \A k \in PR : mem[p][k] = NoSession
      /\ now = 0 /\ lapsed = {} /\ failed = {}
  BY DEF Init
<1>2. TypeOK
  BY IdleType, NumberAssumption DEF Init, TypeOK, Commit, Time
<1>3. Owned
  BY <1>1, IdleType DEF Owned, Home, NoSession
<1>4. Clock
  BY <1>1 DEF Clock, NoSession, NoRow
<1>5. \A k \in PR : RowInv(k)
  BY <1>1 DEF RowInv, Vouched, RowFirst, NoRow
<1>6. \A p \in Process : CallInv(p)
  BY <1>1, IdleType
     DEF CallInv, Working, Orphans, Complete, Guarded, BuildStep, PrepareStep, NoSession
<1> QED
  BY <1>2, <1>3, <1>4, <1>5, <1>6 DEF IInv

\* Whatever a process does is a turn that leaves its own PRs in order.
LEMMA EveryTurn ==
  ASSUME IInv, OneReviewer, NEW p \in Process, Gc(p) \/ Prepare(p) \/ Use(p) \/ Crash(p)
  PROVE  Turn(p) /\ OwnInv(p)'
<1>1. CASE Gc(p)
  BY <1>1, StartGcTurn, ListOverlaysTurn, LiveKeysTurn, PurgeTurn, ExpireTurn
     DEF Gc, CliGc, Survey
<1>2. CASE Prepare(p)
  <2>1. CASE StartPrepare(p)
    BY <2>1, StartGcTurn DEF StartPrepare
  <2>2. CASE UndoRow(p)
    BY <2>2, DeleteRowTurn DEF UndoRow, At
  <2> QED
    BY <1>2, <2>1, <2>2, ReserveTurn, SelfHealTurn, PrepareMoves, UpsertTurn, PreparedTurn,
       SaveTurn, UndoOverlayTurn DEF Prepare
<1>3. CASE Use(p)
  <2>1. CASE CleanRow(p)
    BY <2>1, DeleteRowTurn DEF CleanRow, At
  <2> QED
    BY <1>3, <2>1, ToolTurn, RehydrateTurn, TouchRehydratedTurn, CleanOverlayTurn DEF Use
<1> QED
  BY <1>1, <1>2, <1>3, CrashTurn

LEMMA NextKeeps ==
  ASSUME IInv, OneReviewer, [Next]_vars
  PROVE  IInv'
<1>1. ASSUME NEW p \in Process, Gc(p) \/ Prepare(p) \/ Use(p) \/ Crash(p) PROVE IInv'
  BY <1>1, EveryTurn, TurnSparesOthers
<1>2. CASE UNCHANGED vars
  <2>1. /\ sessions' = sessions /\ failed' = failed /\ chunks' = chunks /\ mem' = mem
        /\ loc' = loc /\ head' = head /\ now' = now /\ lapsed' = lapsed
    BY <1>2 DEF vars
  <2>2. TypeOK' /\ Owned' /\ Clock'
    BY <2>1 DEF IInv, TypeOK, Owned, Clock
  <2>3. \A k \in PR : RowInv(k)'
    BY <2>1 DEF IInv, RowInv, Vouched, RowFirst, Excused
  <2>4. ASSUME NEW p \in Process PROVE CallInv(p)'
    <3>1. Working(loc[p], mem[p])' /\ Orphans(loc[p], mem[p])'
      BY <2>1 DEF IInv, CallInv, Working, Orphans, Excused
    <3>2. Complete(loc[p])' /\ \A k \in PR : Guarded(loc[p], mem[p], k)'
      BY <2>1 DEF IInv, CallInv, Complete, Guarded
    <3> QED
      BY <3>1, <3>2 DEF CallInv
  <2> QED
    BY <2>2, <2>3, <2>4 DEF IInv
<1> QED
  BY <1>1, <1>2, PushStep, TickStep DEF Next

\* The strengthened invariant: rows come before overlays, what lapsed is
\* noted, a preparation is under an empty row, a collection misses nothing.
THEOREM SessionInvariant ==
  ASSUME OneReviewer
  PROVE  Spec => []IInv
<1>1. IInv /\ [Next]_vars => IInv'
  BY NextKeeps
<1> QED
  BY InitHolds, <1>1, PTL DEF Spec

\* While a review goes on in a process, its overlay has a row that is alive:
\* _touch_session keeps the row up with the memory, and no other process's
\* garbage collection, expiry or failure comes between.
THEOREM ActiveGuarded ==
  ASSUME OneReviewer
  PROVE  Spec => []ActiveOverlayIsGuarded
<1>1. IInv => ActiveOverlayIsGuarded
  <2> SUFFICES ASSUME IInv, NEW p \in Process, NEW k \in PR, Active(p, k), chunks[k] # {},
                      k \notin failed, ~Handled(k)
               PROVE  Live(k)
    BY DEF ActiveOverlayIsGuarded
  <2>1. sessions[k].there /\ mem[p][k].seen <= sessions[k].seen
    BY DEF IInv, CallInv, Guarded, Handled, Active
  <2>2. mem[p][k].seen \in Int /\ sessions[k].seen \in Int /\ now \in Int
    BY DEF IInv, TypeOK, Session, Row, Time
  <2> QED
    BY <2>1, <2>2, NumberAssumption DEF Active, Live, Recent
<1> QED
  BY <1>1, SessionInvariant, PTL

-----------------------------------------------------------------------------
(* What can be resumed has its overlay.                                    *)

\* Resumable(k) survives, if row and overlay stay, or the row holds nothing,
\* or k is excused, or the overlay is that of the row.
LEMMA KeptStays ==
  ASSUME AllKept, NEW k \in PR, lapsed \subseteq lapsed', failed \subseteq failed',
         \/ ~sessions'[k].there \/ sessions'[k].payload = 0
         \/ k \in lapsed' \/ k \in failed'
         \/ chunks'[k] = {sessions'[k].payload}
         \/ \E q \in Process : loc'[q].pr = k /\ loc'[q].pc = "clean_row"
         \/ /\ sessions[k].there /\ sessions'[k].payload = sessions[k].payload
            /\ chunks'[k] = chunks[k]
            /\ \A q \in Process : loc[q].pr = k /\ loc[q].pc = "clean_row" =>
                 loc'[q].pr = k /\ loc'[q].pc = "clean_row"
  PROVE  Resumable(k)'
BY DEF AllKept, Resumable, Excused

LEMMA KeptByOthers ==
  ASSUME IInv, AllKept, NEW p \in Process, Turn(p), NEW k \in PR \ Reviews[p]
  PROVE  Resumable(k)'
<1>1. loc[p].pc = "clean_row" => loc[p].pr # k
  BY OwnPRs DEF GcStep
<1>2. k \in PR /\ lapsed \subseteq lapsed' /\ failed \subseteq failed' /\ NoRow.there = FALSE
  BY DEF Turn, NoRow
<1>3. \A q \in Process : loc[q].pr = k /\ loc[q].pc = "clean_row" => loc'[q] = loc[q]
  BY <1>1 DEF Turn
<1>4. \/ ~sessions'[k].there
      \/ k \in lapsed' \/ k \in failed'
      \/ sessions'[k] = sessions[k] /\ chunks'[k] = chunks[k]
  BY <1>2 DEF Turn, Excused
<1> QED
  BY <1>2, <1>3, <1>4, KeptStays

\* the row and the overlay of k stay, or the row is empty or excused
Spared(k) ==
  \/ ~sessions'[k].there \/ sessions'[k].payload = 0 \/ k \in lapsed' \/ k \in failed'
  \/ /\ sessions[k].there /\ sessions'[k].payload = sessions[k].payload
     /\ chunks'[k] = chunks[k]

\* A step of p outside of the end of _cleanup that spares a PR keeps it.
LEMMA KeptWhenSpared ==
  ASSUME IInv, AllKept, NEW p \in Process, Turn(p), loc[p].pc # "clean_row",
         NEW k \in PR, Spared(k)
  PROVE  Resumable(k)'
<1>1. lapsed \subseteq lapsed' /\ failed \subseteq failed'
  BY DEF Turn
<1>2. \A q \in Process : loc[q].pr = k /\ loc[q].pc = "clean_row" =>
                           loc'[q].pr = k /\ loc'[q].pc = "clean_row"
  BY DEF Turn
<1> QED
  BY <1>1, <1>2, KeptStays DEF Spared

LEMMA KeptByGc ==
  ASSUME IInv, AllKept, NEW p \in Process, Turn(p), Gc(p), NEW k \in PR
  PROVE  Resumable(k)'
<1>1. loc[p] \in Call /\ loc[p].pc # "clean_row"
  BY OwnPRs DEF Gc, CliGc, StartGc, Survey, ListOverlays, LiveKeys, Purge, Expire, At
<1>2. /\ sessions' = sessions
      /\ chunks'[k] = chunks[k] \/ k \in Excused
      => Spared(k)
  BY DEF Spared, Excused, Turn
<1>3. chunks' = chunks /\ DeleteExpired => Spared(k)
  BY DEF DeleteExpired, Spared, NoRow
<1>4. CASE \E j \in loc[p].todo : At(p, "purge") /\ chunks' = [chunks EXCEPT ![j] = {}]
                                  /\ UNCHANGED rows
  <2>1. PICK j \in loc[p].todo : At(p, "purge") /\ chunks' = [chunks EXCEPT ![j] = {}]
    BY <1>4
  <2>2. j \in PR /\ j \in Excused
    BY <1>1, <2>1 DEF IInv, CallInv, Orphans, At, Call
  <2>3. chunks'[k] = chunks[k] \/ k \in Excused
    BY <2>1, <2>2 DEF IInv, TypeOK
  <2> QED
    BY <1>1, <1>2, <1>4, <2>3, KeptWhenSpared DEF rows
<1>5. CASE UNCHANGED <<rows, chunks>>
  BY <1>1, <1>2, <1>5, KeptWhenSpared DEF rows
<1>6. CASE chunks' = chunks /\ DeleteExpired
  BY <1>1, <1>3, <1>6, KeptWhenSpared
<1> QED
  BY <1>4, <1>5, <1>6 DEF Gc, CliGc, StartGc, Survey, ListOverlays, LiveKeys, Purge, Expire, rows

LEMMA KeptByPrepare ==
  ASSUME IInv, AllKept, NEW p \in Process, Turn(p), Prepare(p), NEW k \in Reviews[p]
  PROVE  Resumable(k)'
<1>0. /\ k \in PR /\ sessions \in [PR -> Row] /\ chunks \in [PR -> SUBSET Commit]
      /\ lapsed \subseteq lapsed' /\ failed \subseteq failed'
      /\ NoRow.there = FALSE
  BY OwnPRs DEF IInv, TypeOK, Turn, NoRow
<1>1. loc[p].pc # "clean_row"
  BY DEF Prepare, StartPrepare, StartGc, Reserve, SelfHeal, Fetch, Embed, Upsert, Prepared,
         Save, PrepareFails, UndoOverlay, UndoRow, At
<1>2. loc[p].pr # k /\ (sessions'[k] = sessions[k]) /\ (chunks'[k] = chunks[k]) => Spared(k)
  BY DEF Spared
<1>3. CASE Reserve(p)
  <2>1. Spared(k)
    BY <1>0, <1>3, OwnPRs DEF Reserve, SaveRow, SetRow, Fails, Spared
  <2> QED
    BY <1>0, <1>1, <2>1, KeptWhenSpared
<1>4. CASE SelfHeal(p) \/ Upsert(p) \/ UndoOverlay(p)
  <2>1. loc[p].pc \in BuildStep /\ Working(loc[p], mem[p])
    BY <1>4, AtWork DEF SelfHeal, Upsert, UndoOverlay, At, BuildStep, PrepareStep, GcStep
  <2>2. loc[p].pr = k => sessions[k].payload = 0 \/ k \in failed
    BY <2>1 DEF Working
  <2>3. sessions' = sessions /\ (loc[p].pr = k \/ chunks'[k] = chunks[k])
    BY <1>0, <1>4 DEF SelfHeal, Upsert, UndoOverlay, DropOverlay, Fails, rows
  <2>4. Spared(k)
    BY <1>0, <2>2, <2>3 DEF Spared
  <2> QED
    BY <1>0, <1>1, <2>4, KeptWhenSpared
<1>5. CASE UNCHANGED <<sessions, chunks>>
  BY <1>0, <1>1, <1>5, KeptWhenSpared DEF Spared
<1>6. CASE UndoRow(p)
  <2>1. Spared(k)
    BY <1>0, <1>6, OwnPRs DEF UndoRow, DeleteRow, SetRow, Fails, Spared
  <2> QED
    BY <1>0, <1>1, <2>1, KeptWhenSpared
<1>7. CASE Save(p)
  <2>1. loc[p].pc \notin GcStep \cup {"idle"} /\ loc[p].pc = "save"
    BY <1>7 DEF Save, At, GcStep
  <2>2. loc[p].pr = k => chunks[k] = {loc[p].head} \/ k \in Excused
    BY <2>1, AtWork DEF Working
  <2>3. CASE loc[p].pr = k
    BY <1>0, <1>7, <2>2, <2>3, KeptStays DEF Save, SaveRow, SetRow, Fails, Excused
  <2>4. CASE loc[p].pr # k
    <3>1. Spared(k)
      BY <1>0, <1>7, <2>4 DEF Save, SaveRow, SetRow, Fails, Spared
    <3> QED
      BY <1>0, <1>1, <3>1, KeptWhenSpared
  <2> QED
    BY <2>3, <2>4
<1> QED
  BY <1>3, <1>4, <1>5, <1>6, <1>7
     DEF Prepare, StartPrepare, StartGc, Fetch, Embed, Prepared, PrepareFails, rows

LEMMA KeptByUse ==
  ASSUME IInv, AllKept, NEW p \in Process, Turn(p), Use(p), NEW k \in Reviews[p]
  PROVE  Resumable(k)'
<1>0. /\ k \in PR /\ sessions \in [PR -> Row] /\ chunks \in [PR -> SUBSET Commit]
      /\ lapsed \subseteq lapsed' /\ failed \subseteq failed'
      /\ NoRow.there = FALSE /\ TypeOK
  BY OwnPRs DEF IInv, TypeOK, Turn, NoRow
<1>1. ASSUME NEW j \in PR, TouchSession(p, j), chunks' = chunks PROVE Spared(k)
  BY <1>0, <1>1, TouchEffect DEF Spared
<1>2. CASE \E j \in PR : Tool(p, j) \/ Publish(p, j)
  <2>1. loc[p].pc # "clean_row" /\ Spared(k)
    BY <1>1, <1>2 DEF Tool, Publish, At
  <2> QED
    BY <1>0, <2>1, KeptWhenSpared
<1>3. CASE TouchRehydrated(p)
  <2>1. loc[p].pc = "touch" /\ loc[p].pc \notin GcStep \cup {"idle"}
    BY <1>3 DEF TouchRehydrated, At, GcStep
  <2>2. loc[p].pr \in PR
    BY <2>1, AtWork
  <2> QED
    BY <1>0, <1>1, <1>3, <2>1, <2>2, KeptWhenSpared DEF TouchRehydrated
<1>4. CASE \E j \in PR : Rehydrate(p, j)
  BY <1>0, <1>4, KeptWhenSpared DEF Rehydrate, At, rows, Spared
<1>5. CASE CleanOverlay(p)
  <2>1. loc[p].pc = "clean_overlay" /\ sessions' = sessions
    BY <1>5 DEF CleanOverlay, At
  <2>2. CASE loc[p].pr = k
    <3>1. loc'[p].pr = k /\ loc'[p].pc = "clean_row"
      BY <1>0, <1>5, <2>2, GotoMoves DEF CleanOverlay, Pc
    <3> QED
      BY <1>0, <3>1, KeptStays
  <2>3. CASE loc[p].pr # k
    <3>1. Spared(k)
      BY <1>0, <1>5, <2>3 DEF CleanOverlay, DropOverlay, Fails, Spared
    <3> QED
      BY <1>0, <2>1, <3>1, KeptWhenSpared
  <2> QED
    BY <2>2, <2>3
<1>6. CASE CleanRow(p)
  <2>1. chunks' = chunks /\ loc[p].pc = "clean_row"
    BY <1>6 DEF CleanRow, At
  <2>2. loc[p].pr = k => ~sessions'[k].there \/ k \in failed'
    BY <1>0, <1>6 DEF CleanRow, DeleteRow, SetRow, Fails
  <2>3. loc[p].pr # k => sessions'[k] = sessions[k]
    BY <1>0, <1>6 DEF CleanRow, DeleteRow, SetRow, Fails
  <2>4. \A q \in Process : q # p => loc'[q] = loc[q]
    BY DEF Turn
  <2> QED
    BY <1>0, <2>1, <2>2, <2>3, <2>4, KeptStays
<1> QED
  BY <1>2, <1>3, <1>4, <1>5, <1>6 DEF Use

LEMMA KeptByCrash ==
  ASSUME IInv, AllKept, NoTornCleanup, NEW p \in Process, Crash(p)
  PROVE  AllKept'
<1>1. /\ loc[p].pc # "clean_row" /\ UNCHANGED <<sessions, failed, chunks, lapsed>>
      /\ \A q \in Process \ {p} : loc'[q] = loc[q]
  BY ReturnMoves DEF Crash, rows, At, NoTornCleanup, IInv
<1> QED
  BY <1>1, KeptStays DEF AllKept, Resumable, Excused

LEMMA KeptByNext ==
  ASSUME IInv, AllKept, OneReviewer, NoTornCleanup, [Next]_vars
  PROVE  AllKept'
<1>1. ASSUME NEW p \in Process, Gc(p) \/ Prepare(p) \/ Use(p) PROVE AllKept'
  <2>1. Turn(p)
    BY <1>1, EveryTurn
  <2> QED
    BY <1>1, <2>1, KeptByOthers, KeptByGc, KeptByPrepare, KeptByUse DEF AllKept
<1>2. CASE UNCHANGED vars \/ \E k \in PR : Push(k)
  BY <1>2 DEF vars, Push, rows, AllKept, Resumable, Excused
<1>3. CASE Tick
  BY <1>3 DEF Tick, NoteLapsed, rows, AllKept, Resumable, Excused
<1> QED
  BY <1>1, <1>2, <1>3, KeptByCrash DEF Next

\* A session that can be resumed has the overlay it was prepared from: no
\* preparation that fails or is cut off, no collection and no push takes it
\* away or mixes it, whatever the crashes and database failures elsewhere.
THEOREM SessionKeepsOverlay ==
  ASSUME OneReviewer, NoTornCleanup
  PROVE  Spec => []SessionHasItsOverlay
<1>1. Init => AllKept
  BY DEF Init, AllKept, Resumable, NoRow
<1>2. IInv /\ AllKept /\ [Next]_vars => AllKept'
  BY KeptByNext
<1>3. AllKept => SessionHasItsOverlay
  <2> SUFFICES ASSUME AllKept, NEW k \in PR, Live(k), sessions[k].payload # 0,
                      k \notin lapsed \cup failed, ~Handled(k)
               PROVE  chunks[k] = {sessions[k].payload}
    BY DEF SessionHasItsOverlay
  <2>1. \A p \in Process : loc[p].pr = k => loc[p].pc # "clean_row"
    BY DEF Handled, GcStep
  <2> QED
    BY <2>1 DEF AllKept, Resumable, Excused, Live
<1> QED
  BY <1>1, <1>2, <1>3, SessionInvariant, PTL DEF Spec

-----------------------------------------------------------------------------
(* The garbage collection is exact.                                        *)

LEMMA EndIsClean ==
  ASSUME IInv, OneReviewer, [Next]_vars, NEW p \in Process,
         At(p, "purge"), loc'[p].pc = "expire"
  PROVE  \A k \in PR \ failed : chunks[k] # {} => Live(k) \/ Active(p, k)
<1>1. loc[p] \in Call /\ loc[p].pc = "purge" /\ loc' # loc
  BY OwnPRs DEF At
<1>2. ASSUME NEW q \in Process, Gc(q) \/ Prepare(q) \/ Use(q) \/ Crash(q) PROVE q = p
  BY <1>1, <1>2, EveryTurn DEF Turn
<1>3. Gc(p) \/ Prepare(p) \/ Use(p) \/ Crash(p)
  BY <1>1, <1>2 DEF Next, vars, Push, Tick
<1>4. ~Crash(p) /\ ~EndGc(p)
  <2>1. Crash(p) => loc'[p].pc = "idle"
    BY ReturnMoves DEF Crash, IInv
  <2>2. EndGc(p) => loc'[p].pc \in {"idle", "reserve"}
    BY <1>1, EndGcMoves DEF GcStep
  <2> QED
    BY <2>1, <2>2
<1>5. Purge(p)
  <2>1. ~Use(p)
    BY <1>1 DEF Use, Tool, Rehydrate, Publish, TouchRehydrated, CleanOverlay, CleanRow, At
  <2>2. ~Prepare(p)
    BY <1>1 DEF Prepare, StartPrepare, StartGc, Reserve, SelfHeal, Fetch, Embed, Upsert, Prepared,
                Save, PrepareFails, UndoOverlay, UndoRow, At
  <2> QED
    BY <1>1, <1>3, <1>4, <2>1, <2>2 DEF Gc, CliGc, StartGc, Survey, ListOverlays, LiveKeys, Expire, At
<1>6. ~\E k \in loc[p].todo : loc' = [loc EXCEPT ![p].todo = @ \ {k}]
  BY <1>1 DEF IInv, TypeOK, Call
<1>7. loc[p].todo = {}
  BY <1>4, <1>5, <1>6 DEF Purge
<1> QED
  BY <1>1, <1>7 DEF IInv, CallInv, Complete, Live, LiveRow, Recent

LEMMA OwnIsSpared ==
  ASSUME IInv, OneReviewer, [Next]_vars, NEW p \in Process, NEW k \in PR,
         At(p, "purge"), loc'[p] # loc[p], chunks[k] # {}, chunks'[k] = {}
  PROVE  ~Active(p, k)
<1>1. loc[p] \in Call /\ loc[p].pc = "purge"
  BY OwnPRs DEF At
<1>2. ASSUME NEW q \in Process, Gc(q) \/ Prepare(q) \/ Use(q) \/ Crash(q) PROVE q = p
  BY <1>2, EveryTurn DEF Turn
<1>3. Gc(p) \/ Prepare(p) \/ Use(p) \/ Crash(p)
  BY <1>2 DEF Next, vars, Push, Tick
<1>4. Purge(p) \/ Crash(p)
  <2>1. ~Use(p)
    BY <1>1 DEF Use, Tool, Rehydrate, Publish, TouchRehydrated, CleanOverlay, CleanRow, At
  <2>2. ~Prepare(p)
    BY <1>1 DEF Prepare, StartPrepare, StartGc, Reserve, SelfHeal, Fetch, Embed, Upsert, Prepared,
                Save, PrepareFails, UndoOverlay, UndoRow, At
  <2> QED
    BY <1>1, <1>3, <2>1, <2>2 DEF Gc, CliGc, StartGc, Survey, ListOverlays, LiveKeys, Expire, At
<1>5. \E j \in loc[p].todo : chunks' = [chunks EXCEPT ![j] = {}]
  BY <1>4 DEF Purge, Crash
<1>6. k \in loc[p].todo
  BY <1>5 DEF IInv, TypeOK
<1> QED
  BY <1>1, <1>6 DEF IInv, CallInv, Orphans, Active, Recent

\* purge_orphaned_overlays takes what nobody reviews and nothing else: one
\* that ends leaves no overlay without a living session, and none takes the
\* overlay of a session that its own process has.
THEOREM GcExact ==
  ASSUME OneReviewer
  PROVE  Spec => GcIsExact
<1>1. IInv /\ [Next]_vars =>
        [\A p \in Process :
           (At(p, "purge") /\ loc'[p].pc = "expire") =>
             \A k \in PR \ failed : chunks[k] # {} => Live(k) \/ Active(p, k)]_vars
  BY EndIsClean
<1>2. IInv /\ [Next]_vars =>
        [\A p \in Process, k \in PR :
           (At(p, "purge") /\ loc'[p] # loc[p] /\ chunks[k] # {} /\ chunks'[k] = {})
             => ~Active(p, k)]_vars
  BY OwnIsSpared
<1> QED
  BY <1>1, <1>2, SessionInvariant, PTL DEF Spec, GcIsExact, GcLeavesNoOrphans, GcSparesOwnSessions

-----------------------------------------------------------------------------
(* Publication: induction over numbers, and the nearest line              *)

\* a set of numbers that is not empty has a least one: the induction of what follows
LEMMA Least ==
  ASSUME NEW T \in SUBSET Nat, T # {}
  PROVE  \E x \in T : \A y \in T : x <= y
<1> DEFINE R == OpToRel(<, Nat)
<1>1. IsWellFoundedOn(R, Nat)
  BY NatLessThanWellFounded
<1>2. \A x, y \in Nat : x < y => <<x, y>> \in R
  BY DEF OpToRel
<1> HIDE DEF R
<1>3. PICK x \in T : \A y \in T : ~ (<<y, x>> \in R)
  BY <1>1, WFMin
<1>4. ASSUME NEW y \in T PROVE x <= y
  <2>1. x \in Nat /\ y \in Nat
    OBVIOUS
  <2>2. ~(y < x)
    BY <1>2, <1>3, <2>1
  <2> QED
    BY <2>1, <2>2
<1> QED
  BY <1>4

\* f applies one step after the other, from m to n.
IsRun(f, V, base, m, n, step) ==
  /\ f \in [m..n -> V] /\ f[m] = base
  /\ \A k \in (m + 1)..n : f[k] = step[k][f[k - 1]]
IsStep(step, V, m, n) == step \in [(m + 1)..n -> [V -> V]]

\* There is such a function, whatever the steps do.
LEMMA Iterates ==
  ASSUME NEW V, NEW base \in V, NEW m \in Nat, NEW n \in Nat, m <= n,
         NEW step, IsStep(step, V, m, n)
  PROVE  \E f : IsRun(f, V, base, m, n, step)
<1> DEFINE bad == {e \in m..n : \A f : ~IsRun(f, V, base, m, e, step)}
<1>1. bad = {}
  <2> SUFFICES ASSUME bad # {} PROVE FALSE
    OBVIOUS
  <2>1. PICK e \in bad : \A h \in bad : e <= h
    <3>1. bad \in SUBSET Nat
      OBVIOUS
    <3> HIDE DEF bad
    <3> QED
      BY <3>1, Least
  <2>2. e \in m..n /\ \A f : ~IsRun(f, V, base, m, e, step)
    BY <2>1
  <2>3. CASE e = m
    <3> DEFINE f == [k \in m..m |-> base]
    <3>1. IsRun(f, V, base, m, m, step)
      BY DEF IsRun
    <3> QED
      BY <2>2, <2>3, <3>1
  <2>4. CASE e # m
    <3>1. e - 1 \in m..n /\ e - 1 \notin bad
      <4> HIDE DEF bad
      <4> QED
        BY <2>1, <2>2, <2>4
    <3>2. PICK g : IsRun(g, V, base, m, e - 1, step)
      BY <3>1
    <3> DEFINE f == [k \in m..e |-> IF k = e THEN step[k][g[k - 1]] ELSE g[k]]
    <3>3. g[e - 1] \in V /\ g \in [m..(e - 1) -> V]
      BY <2>2, <2>4, <3>1, <3>2 DEF IsRun
    <3>4. step[e][g[e - 1]] \in V
      BY <2>2, <2>4, <3>3 DEF IsStep
    <3>5. f \in [m..e -> V]
      BY <2>2, <2>4, <3>3, <3>4
    <3>6. f[m] = base
      BY <2>2, <2>4, <3>2 DEF IsRun
    <3>7. \A k \in (m + 1)..e : f[k] = step[k][f[k - 1]]
      BY <2>2, <2>4, <3>2 DEF IsRun
    <3> QED
      BY <2>2, <3>5, <3>6, <3>7 DEF IsRun
  <2> QED
    BY <2>2, <2>3, <2>4
<1>2. n \in m..n /\ n \notin bad
  BY <1>1
<1> QED
  BY <1>2

\* The nearest line is one of the lines.
LEMMA NearestIsThere ==
  ASSUME NEW S \in SUBSET Nat, S # {}, NEW line \in Nat
  PROVE  Nearest(S, line) \in S
<1> DEFINE far == {Distance(i, line) : i \in S}
<1>1. \A i \in S : Distance(i, line) \in Nat
  BY DEF Distance
<1>2. PICK d \in far : \A e \in far : d <= e
  BY <1>1, Least
<1> DEFINE ties == {i \in S : Distance(i, line) = d}
<1>3. PICK i \in ties : \A j \in ties : i <= j
  <2>1. ties # {} /\ ties \in SUBSET Nat
    BY <1>2
  <2> HIDE DEF ties
  <2> QED
    BY <2>1, Least
<1>4. \A j \in S : \/ Distance(i, line) < Distance(j, line)
                   \/ Distance(i, line) = Distance(j, line) /\ i <= j
  <2> TAKE j \in S
  <2>1. Distance(i, line) = d /\ i \in S /\ d <= Distance(j, line)
    BY <1>2, <1>3
  <2>2. Distance(j, line) = d => i <= j
    BY <1>3
  <2> QED
    BY <1>1, <2>1, <2>2
<1> QED
  BY <1>3, <1>4 DEF Nearest

\* what is moved for its quotation stays at the text
LEMMA SnapHits ==
  ASSUME NEW f, f.quote, NEW line \in QuoteLines
  PROVE  Snap(f, line) \in QuoteLines
<1> DEFINE close == {i \in Commentable : /\ Distance(i, line) <= MaxDistance
                                         /\ (f.quote => i \in QuoteLines)}
<1>1. /\ QuoteLines \subseteq 1..FileLines /\ Commentable \subseteq 1..FileLines
      /\ FileLines \in Nat
  BY PipelineAssumption
<1>2. Snap(f, line) = IF line \in Commentable \cup {0} \/ close = {} THEN line
                      ELSE Nearest(close, line)
  BY DEF Snap
<1>3. close \subseteq QuoteLines
  OBVIOUS
<1> HIDE DEF close
<1>4. ASSUME close # {} PROVE Nearest(close, line) \in close
  <2>1. close \in SUBSET Nat /\ line \in Nat
    BY <1>1, <1>3
  <2> QED
    BY <1>4, <2>1, NearestIsThere
<1> QED
  BY <1>2, <1>3, <1>4

\* What quotes a text and goes to the diff is at the text.
LEMMA Hit ==
  ASSUME NEW f \in Finding, f.quote, QuoteLines # {}, SaneLine(Located(f)) \in Commentable
  PROVE  Located(f).line \in QuoteLines
<1> DEFINE lines == IF SameLines # {} THEN SameLines ELSE QuoteLines
           picked == PickNearest(lines, f.line)
<1>1. /\ lines # {} /\ lines \subseteq QuoteLines /\ QuoteLines \subseteq 1..FileLines
      /\ Commentable \subseteq 1..FileLines /\ FileLines \in Nat
      /\ f.line \in Nat
  BY PipelineAssumption DEF Finding
<1>2. /\ Located(f).line = Snap(f, GroundLine(f))
      /\ GroundLine(f) = IF picked # 0 THEN picked ELSE f.line
  BY DEF Located, Finding, GroundLine
<1> HIDE DEF lines
<1>3. Nearest(lines, f.line) \in lines /\ 0 \notin lines
  <2>1. lines \in SUBSET Nat /\ 0 \notin lines
    BY <1>1
  <2> QED
    BY <1>1, <2>1, NearestIsThere
<1>4. (picked = 0 /\ f.line = 0) \/ picked \in lines
  <2>1. \/ picked = 0 /\ f.line = 0
        \/ picked = Nearest(lines, f.line)
    BY <1>1 DEF PickNearest
  <2> QED
    BY <1>3, <2>1
<1> HIDE DEF picked
<1>5. CASE picked = 0 /\ f.line = 0
  <2>1. Snap(f, GroundLine(f)) = 0
    BY <1>2, <1>5 DEF Snap
  <2>2. SaneLine(Located(f)) = 0
    BY <1>1, <1>2, <2>1 DEF SaneLine
  <2> QED
    BY <1>1, <2>2
<1>6. CASE picked \in lines
  <2>1. GroundLine(f) \in QuoteLines
    BY <1>1, <1>2, <1>3, <1>6
  <2> QED
    BY <1>2, <2>1, SnapHits
<1> QED
  BY <1>4, <1>5, <1>6

\* Grounding leaves the line or finds one of the file.
LEMMA Grounding ==
  ASSUME NEW f \in Finding
  PROVE  Located(f).line = f.line \/ Located(f).line \in 1..FileLines
<1>1. /\ SameLines \subseteq QuoteLines /\ QuoteLines \subseteq 1..FileLines
      /\ Commentable \subseteq 1..FileLines /\ FileLines \in Nat
      /\ f.line \in Nat
  BY PipelineAssumption DEF Finding
<1>2. Located(f).line = Snap(f, GroundLine(f))
  BY DEF Located, Finding
<1>3. GroundLine(f) = f.line \/ GroundLine(f) \in 1..FileLines
  <2> DEFINE lines == IF SameLines # {} THEN SameLines ELSE QuoteLines
             picked == PickNearest(lines, f.line)
  <2>1. GroundLine(f) = IF f.quote /\ picked # 0 THEN picked ELSE f.line
    BY DEF GroundLine
  <2>2. lines \in SUBSET (1..FileLines)
    BY <1>1
  <2> HIDE DEF lines
  <2>3. picked = 0 \/ (lines # {} /\ picked = Nearest(lines, f.line))
    BY DEF PickNearest
  <2>4. lines # {} => Nearest(lines, f.line) \in lines
    <3>1. lines \in SUBSET Nat /\ f.line \in Nat
      BY <1>1, <2>2
    <3> QED
      BY <3>1, NearestIsThere
  <2>5. picked = 0 \/ picked \in 1..FileLines
    BY <2>2, <2>3, <2>4
  <2> HIDE DEF picked
  <2>6. (picked # 0 /\ GroundLine(f) = picked) \/ GroundLine(f) = f.line
    BY <2>1
  <2> QED
    BY <2>5, <2>6
<1> DEFINE line == GroundLine(f)
           close == {i \in Commentable : /\ Distance(i, line) <= MaxDistance
                                         /\ (f.quote => i \in QuoteLines)}
<1>4. Snap(f, line) = line \/ (close # {} /\ Snap(f, line) = Nearest(close, line))
  BY DEF Snap
<1>5. close \in SUBSET (1..FileLines)
  BY <1>1
<1>6. line \in Nat
  BY <1>1, <1>3
<1> HIDE DEF line, close
<1>7. close # {} => Nearest(close, line) \in 1..FileLines
  <2>1. close \in SUBSET Nat
    BY <1>1, <1>5
  <2> QED
    BY <1>5, <1>6, <2>1, NearestIsThere
<1> QED
  BY <1>2, <1>3, <1>4, <1>7 DEF line

-----------------------------------------------------------------------------
(* Deduplication                                                           *)

\* what may be left of E, with the fixes that the positions then have
Partial(E) == UNION {[S -> Fixes] : S \in SUBSET E}
Covers(c, f, g) == \A i \in DOMAIN f : \E j \in DOMAIN g :
  c[j].msg = c[i].msg /\ c[j].rank >= c[i].rank /\ (f[i] # NoFix => g[j] # NoFix)
Numbered(c, E) == \A i \in E : c[i].line \in Nat /\ c[i].rank \in Nat

LEMMA PartialIs ==
  ASSUME NEW E, NEW f
  PROVE  f \in Partial(E) <=> DOMAIN f \in SUBSET E /\ f \in [DOMAIN f -> Fixes]
BY DEF Partial

\* what covers what covers
LEMMA CoversOn ==
  ASSUME NEW c, NEW f, NEW g, NEW h, Numbered(c, DOMAIN f),
         DOMAIN g \subseteq DOMAIN f, DOMAIN h \subseteq DOMAIN g,
         Covers(c, f, g), Covers(c, g, h)
  PROVE  Covers(c, f, h)
<1> SUFFICES ASSUME NEW i \in DOMAIN f
             PROVE  \E j \in DOMAIN h : /\ c[j].msg = c[i].msg /\ c[j].rank >= c[i].rank
                                        /\ f[i] # NoFix => h[j] # NoFix
  BY DEF Covers
<1>1. PICK j \in DOMAIN g : /\ c[j].msg = c[i].msg /\ c[j].rank >= c[i].rank
                            /\ f[i] # NoFix => g[j] # NoFix
  BY DEF Covers
<1>2. PICK k \in DOMAIN h : /\ c[k].msg = c[j].msg /\ c[k].rank >= c[j].rank
                            /\ g[j] # NoFix => h[k] # NoFix
  BY DEF Covers
<1>3. c[i].rank \in Nat /\ c[j].rank \in Nat /\ c[k].rank \in Nat
  BY DEF Numbered
<1>4. c[k].rank >= c[i].rank
  BY <1>1, <1>2, <1>3
<1> QED
  BY <1>1, <1>2, <1>4

\* what is there covers itself
LEMMA CoversSelf ==
  ASSUME NEW c, NEW f, Numbered(c, DOMAIN f)
  PROVE  Covers(c, f, f)
<1>1. \A i \in DOMAIN f : c[i].rank >= c[i].rank
  BY DEF Numbered
<1> QED
  BY <1>1 DEF Covers

\* The winner of two has a fix if one of them has.
LEMMA WithoutFacts ==
  ASSUME NEW E, NEW c, Numbered(c, E), NEW left \in Partial(E),
         NEW winner \in DOMAIN left, NEW loser \in DOMAIN left, winner # loser,
         c[winner].msg = c[loser].msg, c[winner].rank >= c[loser].rank
  PROVE  LET rest == Without(left, winner, loser)
         IN  /\ rest \in Partial(E) /\ DOMAIN rest = DOMAIN left \ {loser}
             /\ Covers(c, left, rest)
<1> DEFINE rest == Without(left, winner, loser)
<1>1. DOMAIN left \in SUBSET E /\ \A k \in DOMAIN left : left[k] \in Fixes
  <2>1. DOMAIN left \in SUBSET E /\ left \in [DOMAIN left -> Fixes]
    BY PartialIs
  <2> QED
    BY <2>1
<1>2. /\ DOMAIN rest = DOMAIN left \ {loser}
      /\ rest = [k \in DOMAIN rest |-> rest[k]]
      /\ rest[winner] = Merged(left[winner], left[loser])
      /\ \A k \in DOMAIN left \ {winner, loser} : rest[k] = left[k]
  BY DEF Without
<1> HIDE DEF rest
<1>3. \A own, other \in Fixes :
        /\ Merged(own, other) \in Fixes
        /\ own # NoFix \/ other # NoFix => Merged(own, other) # NoFix
  BY DEF Merged
<1>4. \A k \in DOMAIN rest : rest[k] \in Fixes /\ (left[k] # NoFix => rest[k] # NoFix)
  BY <1>1, <1>2, <1>3
<1>5. rest \in Partial(E)
  <2>1. DOMAIN rest \in SUBSET E /\ rest \in [DOMAIN rest -> Fixes]
    BY <1>1, <1>2, <1>4
  <2> QED
    BY <2>1, PartialIs
<1>6. left[loser] # NoFix => rest[winner] # NoFix
  BY <1>1, <1>2, <1>3
<1>7. \A k \in DOMAIN left : c[k].rank >= c[k].rank
  BY <1>1 DEF Numbered
<1>8. Covers(c, left, rest)
  <2> SUFFICES ASSUME NEW i \in DOMAIN left
               PROVE  \E j \in DOMAIN rest : /\ c[j].msg = c[i].msg /\ c[j].rank >= c[i].rank
                                             /\ left[i] # NoFix => rest[j] # NoFix
    BY DEF Covers
  <2>1. CASE i = loser
    BY <1>2, <1>6, <2>1
  <2>2. CASE i # loser
    BY <1>2, <1>4, <1>7, <2>2
  <2> QED
    BY <2>1, <2>2
<1> QED
  BY <1>2, <1>5, <1>8 DEF rest

\* One comparison drops the loser of two that are alike, or nothing.
LEMMA OneFuzzyStep ==
  ASSUME NEW E, NEW c, Numbered(c, E), NEW left \in Partial(E), NEW i, NEW j, i # j
  PROVE  LET rest == FuzzyStep(c, left, i, j)
         IN  /\ rest \in Partial(E) /\ DOMAIN rest \subseteq DOMAIN left
             /\ Covers(c, left, rest) /\ ~Alike(c, rest, i, j)
<1>1. CASE ~Alike(c, left, i, j)
  <2>1. FuzzyStep(c, left, i, j) = left
    BY <1>1 DEF FuzzyStep
  <2>2. DOMAIN left \in SUBSET E
    BY PartialIs
  <2>3. Covers(c, left, left)
    BY <2>2, CoversSelf DEF Numbered
  <2> QED
    BY <1>1, <2>1, <2>3
<1>2. CASE Alike(c, left, i, j)
  <2>1. /\ i \in DOMAIN left /\ j \in DOMAIN left /\ c[i].msg = c[j].msg
        /\ DOMAIN left \in SUBSET E
    BY <1>2, PartialIs DEF Alike
  <2>2. c[i].rank \in Nat /\ c[j].rank \in Nat
    BY <2>1 DEF Numbered
  <2>3. \A rest : (i \notin DOMAIN rest \/ j \notin DOMAIN rest) => ~Alike(c, rest, i, j)
    BY DEF Alike
  <2>4. CASE c[i].rank >= c[j].rank
    <3>1. FuzzyStep(c, left, i, j) = Without(left, i, j)
      BY <1>2, <2>4 DEF FuzzyStep
    <3>2. LET rest == Without(left, i, j)
          IN  /\ rest \in Partial(E) /\ DOMAIN rest = DOMAIN left \ {j}
              /\ Covers(c, left, rest)
      BY <2>1, <2>4, WithoutFacts
    <3> QED
      BY <2>3, <3>1, <3>2
  <2>5. CASE ~(c[i].rank >= c[j].rank)
    <3>1. FuzzyStep(c, left, i, j) = Without(left, j, i)
      BY <1>2, <2>5 DEF FuzzyStep
    <3>2. c[j].rank >= c[i].rank
      BY <2>2, <2>5
    <3>3. LET rest == Without(left, j, i)
          IN  /\ rest \in Partial(E) /\ DOMAIN rest = DOMAIN left \ {i}
              /\ Covers(c, left, rest)
      BY <2>1, <3>2, WithoutFacts
    <3> QED
      BY <2>3, <3>1, <3>3
  <2> QED
    BY <2>4, <2>5
<1> QED
  BY <1>1, <1>2

\* An order of E numbers it from 1 to as many as there are.
LEMMA Orders ==
  ASSUME NEW E, IsFiniteSet(E), NEW R,
         \A i, j, k \in E : <<i, j>> \in R /\ <<j, k>> \in R => <<i, k>> \in R,
         \A i, j \in E : i # j => <<i, j>> \in R \/ <<j, i>> \in R,
         \A i \in E : <<i, i>> \notin R
  PROVE  LET s == InOrder(E, R) IN
         /\ Cardinality(E) \in Nat
         /\ \A n \in 1..Cardinality(E) : s[n] \in E
         /\ \A i \in E : \E n \in 1..Cardinality(E) : s[n] = i
         /\ \A n, m \in 1..Cardinality(E) : s[n] = s[m] => n = m
<1> DEFINE Below(i) == {j \in E : <<j, i>> \in R}
           N == Cardinality(E)
<1>1. N \in Nat
  BY FS_CardinalityType
<1>2. \A i \in E : IsFiniteSet(Below(i)) /\ Cardinality(Below(i)) \in Nat
  BY FS_Subset, FS_CardinalityType
<1>6. ASSUME NEW i \in E, NEW j \in E, <<i, j>> \in R
      PROVE  Cardinality(Below(i)) < Cardinality(Below(j))
  <2>1. Below(i) \subseteq Below(j) /\ i \in Below(j) /\ i \notin Below(i)
    BY <1>6
  <2>2. IsFiniteSet(Below(j)) /\ Below(i) # Below(j) /\ Below(i) \in SUBSET Below(j)
    BY <1>2, <2>1
  <2> HIDE DEF Below
  <2>3. Cardinality(Below(i)) <= Cardinality(Below(j))
        /\ Cardinality(Below(i)) # Cardinality(Below(j))
    BY <2>2, FS_Subset
  <2> QED
    BY <1>2, <2>3
<1>7. ASSUME NEW i \in E PROVE Cardinality(Below(i)) \in 0..(N - 1)
  <2>1. Below(i) \in SUBSET E /\ Below(i) # E
    OBVIOUS
  <2> HIDE DEF Below
  <2>2. Cardinality(Below(i)) <= N /\ Cardinality(Below(i)) # N
    BY <2>1, FS_Subset
  <2> QED
    BY <1>1, <1>2, <2>2
<1> DEFINE rank == [i \in E |-> Cardinality(Below(i))]
<1>8. rank \in Injection(E, 0..(N - 1))
  <2>1. rank \in [E -> 0..(N - 1)]
    BY <1>7
  <2>2. \A i, j \in E : rank[i] = rank[j] => i = j
    <3> SUFFICES ASSUME NEW i \in E, NEW j \in E, i # j PROVE rank[i] # rank[j]
      OBVIOUS
    <3>1. rank[i] \in Nat /\ rank[j] \in Nat
      BY <1>2
    <3>2. <<i, j>> \in R \/ <<j, i>> \in R
      OBVIOUS
    <3>3. rank[i] = Cardinality(Below(i)) /\ rank[j] = Cardinality(Below(j))
      OBVIOUS
    <3>4. rank[i] < rank[j] \/ rank[j] < rank[i]
      BY <1>6, <3>2, <3>3
    <3> HIDE DEF rank
    <3> QED
      BY <3>1, <3>4
  <2> HIDE DEF rank
  <2> QED
    BY <2>1, <2>2 DEF Injection, IsInjective
<1>9. rank \in Surjection(E, 0..(N - 1))
  <2>1. IsFiniteSet(0..(N - 1)) /\ Cardinality(0..(N - 1)) = N
    <3> HIDE DEF N
    <3>1. 0 \in Int /\ N - 1 \in Int
      BY <1>1
    <3>2. /\ IsFiniteSet(0..(N - 1))
          /\ Cardinality(0..(N - 1)) = IF 0 > N - 1 THEN 0 ELSE (N - 1) - 0 + 1
      BY <3>1, FS_Interval
    <3> QED
      BY <1>1, <3>2
  <2> HIDE DEF rank
  <2> QED
    BY <1>8, <2>1, FS_Injection
<1>10. \A r \in 0..(N - 1) : \E i \in E : rank[i] = r
  <2> HIDE DEF rank
  <2> QED
    BY <1>9 DEF Surjection
<1>11. \A i, j \in E : rank[i] = rank[j] => i = j
  <2> HIDE DEF rank
  <2> QED
    BY <1>8 DEF Injection, IsInjective
<1> DEFINE s == InOrder(E, R)
<1>12. ASSUME NEW n \in 1..N PROVE s[n] \in E /\ rank[s[n]] = n - 1
  <2>1. s[n] = CHOOSE i \in E : Cardinality(Below(i)) = n - 1
    BY DEF InOrder
  <2>2. \E i \in E : Cardinality(Below(i)) = n - 1
    <3>1. n - 1 \in 0..(N - 1)
      BY <1>1
    <3>2. PICK i \in E : rank[i] = n - 1
      BY <1>10, <3>1
    <3> QED
      BY <3>2
  <2>3. s[n] \in E /\ Cardinality(Below(s[n])) = n - 1
    <3> HIDE DEF Below, s
    <3> QED
      BY <2>1, <2>2
  <2> QED
    BY <2>3
<1> HIDE DEF s, rank
<1>13. ASSUME NEW i \in E PROVE \E n \in 1..N : s[n] = i
  <2>1. rank[i] \in 0..(N - 1)
    BY <1>8 DEF Injection
  <2>2. rank[i] + 1 \in 1..N /\ (rank[i] + 1) - 1 = rank[i]
    BY <1>1, <2>1
  <2>3. s[rank[i] + 1] \in E /\ rank[s[rank[i] + 1]] = rank[i]
    BY <1>12, <2>2
  <2> QED
    BY <1>11, <2>2, <2>3
<1>14. \A n, m \in 1..N : s[n] = s[m] => n = m
  BY <1>1, <1>12
<1> QED
  BY <1>1, <1>12, <1>13, <1>14 DEF s

\* The a-th is compared with every one behind it.
LEMMA AgainstAll ==
  ASSUME NEW E, NEW c, Numbered(c, E), NEW size \in Nat, NEW s,
         \A n, m \in 1..size : s[n] = s[m] => n = m,
         NEW left \in Partial(E), NEW a \in 1..size
  PROVE  LET rest == Against(c, s, size, left, a)
         IN  /\ rest \in Partial(E) /\ DOMAIN rest \subseteq DOMAIN left
             /\ Covers(c, left, rest)
             /\ \A b \in (a + 1)..size : ~Alike(c, rest, s[a], s[b])
<1> DEFINE V == Partial(E)
           step == [b \in (a + 1)..size |-> [v \in V |-> FuzzyStep(c, v, s[a], s[b])]]
           Body(f) == [b \in a..size |->
                         IF b = a THEN left ELSE FuzzyStep(c, f[b - 1], s[a], s[b])]
           rest == CHOOSE f : f = Body(f)
<1>1. Against(c, s, size, left, a) = rest[size]
  BY DEF Against
<1>2. \A v \in V : \A b \in (a + 1)..size : FuzzyStep(c, v, s[a], s[b]) \in V
  <2> TAKE v \in V
  <2> TAKE b \in (a + 1)..size
  <2>1. s[a] # s[b]
    OBVIOUS
  <2> QED
    BY <2>1, OneFuzzyStep
<1>3. \E f : f = Body(f)
  <2>1. IsStep(step, V, a, size)
    BY <1>2 DEF IsStep
  <2>2. left \in V /\ a \in Nat /\ size \in Nat /\ a <= size
    OBVIOUS
  <2> HIDE DEF step, V
  <2>3. PICK f : IsRun(f, V, left, a, size, step)
    BY <2>1, <2>2, Iterates
  <2>4. \A k \in (a + 1)..size : f[k] = FuzzyStep(c, f[k - 1], s[a], s[k])
    <3> TAKE k \in (a + 1)..size
    <3>1. k - 1 \in a..size
      OBVIOUS
    <3>2. f[k - 1] \in V
      BY <2>3, <3>1 DEF IsRun
    <3> QED
      BY <2>3, <3>2 DEF step, IsRun
  <2>5. f = Body(f)
    BY <2>3, <2>4 DEF IsRun
  <2> QED
    BY <2>5
<1>4. rest = Body(rest)
  <2> HIDE DEF Body
  <2> QED
    BY <1>3
<1> HIDE DEF rest, V, step
<1>5. rest[a] = left /\ \A b \in (a + 1)..size : rest[b] = FuzzyStep(c, rest[b - 1], s[a], s[b])
  BY <1>4
<1> DEFINE Good(b) == /\ rest[b] \in Partial(E) /\ DOMAIN rest[b] \subseteq DOMAIN left
                      /\ Covers(c, left, rest[b])
                      /\ \A k \in (a + 1)..b : ~Alike(c, rest[b], s[a], s[k])
<1>0. Numbered(c, DOMAIN left)
  BY PartialIs DEF Numbered
<1>6. Good(a)
  <2>1. Covers(c, left, left)
    BY <1>0, CoversSelf
  <2> QED
    BY <1>5, <2>1
<1>7. ASSUME NEW b \in (a + 1)..size, Good(b - 1) PROVE Good(b)
  <2>1. rest[b] = FuzzyStep(c, rest[b - 1], s[a], s[b]) /\ s[a] # s[b]
    BY <1>5
  <2>2. /\ rest[b] \in Partial(E) /\ DOMAIN rest[b] \subseteq DOMAIN rest[b - 1]
        /\ Covers(c, rest[b - 1], rest[b]) /\ ~Alike(c, rest[b], s[a], s[b])
    BY <1>7, <2>1, OneFuzzyStep
  <2>3. Covers(c, left, rest[b])
    BY <1>0, <1>7, <2>2, CoversOn
  <2>4. ASSUME NEW k \in (a + 1)..b PROVE ~Alike(c, rest[b], s[a], s[k])
    <3>1. CASE k = b
      BY <2>2, <3>1
    <3>2. CASE k # b
      <4>1. k \in (a + 1)..(b - 1)
        BY <3>2
      <4> QED
        BY <1>7, <2>2, <4>1 DEF Alike
    <3> QED
      BY <3>1, <3>2
  <2> QED
    BY <1>7, <2>2, <2>3, <2>4
<1> DEFINE bad == {b \in a..size : ~Good(b)}
<1> HIDE DEF Good
<1>8. bad = {}
  <2> SUFFICES ASSUME bad # {} PROVE FALSE
    OBVIOUS
  <2>1. PICK b \in bad : \A k \in bad : b <= k
    <3>1. bad \in SUBSET Nat
      OBVIOUS
    <3> HIDE DEF bad
    <3> QED
      BY <3>1, Least
  <2>2. b \in (a + 1)..size /\ b - 1 \in a..size
    BY <1>6, <2>1
  <2>3. b - 1 \notin bad
    <3> HIDE DEF bad
    <3> QED
      BY <2>1, <2>2
  <2> QED
    BY <1>7, <2>1, <2>2, <2>3
<1> QED
  BY <1>1, <1>8 DEF Good

\* Every one is compared with every other.
LEMMA SurvivorsFacts ==
  ASSUME NEW E \in SUBSET Nat, IsFiniteSet(E), NEW c, Numbered(c, E), NEW first \in [E -> Fixes]
  PROVE  LET rest == Survivors(c, first)
         IN  /\ rest \in Partial(E) /\ Covers(c, first, rest)
             /\ \A i, j \in DOMAIN rest : i # j => ~Alike(c, rest, i, j)
<1> DEFINE R == {p \in E \X E : LineOrder(c, p[1], p[2])}
           size == Cardinality(E)
           s == InOrder(E, R)
           V == Partial(E)
           step == [a \in (0 + 1)..size |-> [v \in V |-> Against(c, s, size, v, a)]]
           Body(f) == [a \in 0..size |->
                         IF a = 0 THEN first ELSE Against(c, s, size, f[a - 1], a)]
           left == CHOOSE f : f = Body(f)
<1>0. \A i \in E : i \in Nat /\ c[i].line \in Nat
  BY DEF Numbered
<1>1. Survivors(c, first) = left[size]
  <2>1. DOMAIN first = E
    OBVIOUS
  <2> QED
    BY <2>1 DEF Survivors
<1>2. /\ size \in Nat
      /\ \A i \in E : \E n \in 1..size : s[n] = i
      /\ \A n, m \in 1..size : s[n] = s[m] => n = m
  <2>1. \A i, j \in E : <<i, j>> \in R <=> LineOrder(c, i, j)
    OBVIOUS
  <2>2. \A i, j, k \in E : LineOrder(c, i, j) /\ LineOrder(c, j, k) => LineOrder(c, i, k)
    BY <1>0 DEF LineOrder
  <2>3. \A i, j \in E : i # j => LineOrder(c, i, j) \/ LineOrder(c, j, i)
    <3> TAKE i, j \in E
    <3>1. i \in Nat /\ j \in Nat /\ c[i].line \in Nat /\ c[j].line \in Nat
      BY <1>0
    <3> QED
      BY <3>1 DEF LineOrder
  <2>4. \A i \in E : ~LineOrder(c, i, i)
    BY <1>0 DEF LineOrder
  <2> HIDE DEF R
  <2>5. /\ \A i, j, k \in E : <<i, j>> \in R /\ <<j, k>> \in R => <<i, k>> \in R
        /\ \A i, j \in E : i # j => <<i, j>> \in R \/ <<j, i>> \in R
        /\ \A i \in E : <<i, i>> \notin R
    BY <2>1, <2>2, <2>3, <2>4
  <2> QED
    BY <2>5, Orders
<1> HIDE DEF s, size
<1>3. ASSUME NEW v \in Partial(E), NEW a \in 1..size
      PROVE  LET rest == Against(c, s, size, v, a)
             IN  /\ rest \in Partial(E) /\ DOMAIN rest \subseteq DOMAIN v
                 /\ Covers(c, v, rest)
                 /\ \A b \in (a + 1)..size : ~Alike(c, rest, s[a], s[b])
  BY <1>2, AgainstAll
<1>9. first \in V /\ DOMAIN first = E
  BY PartialIs
<1>4. \E f : f = Body(f)
  <2>1. IsStep(step, V, 0, size)
    <3>1. \A a \in 1..size, v \in V : Against(c, s, size, v, a) \in V
      BY <1>3
    <3> QED
      BY <3>1 DEF IsStep
  <2>2. first \in V /\ 0 \in Nat /\ size \in Nat /\ 0 <= size
    BY <1>2, <1>9
  <2> HIDE DEF step, V
  <2>3. PICK f : IsRun(f, V, first, 0, size, step)
    BY <2>1, <2>2, Iterates
  <2>4. \A k \in 1..size : f[k] = Against(c, s, size, f[k - 1], k)
    <3> TAKE k \in 1..size
    <3>1. k - 1 \in 0..size /\ k \in (0 + 1)..size
      BY <1>2
    <3>2. f[k - 1] \in V
      BY <2>3, <3>1 DEF IsRun
    <3> QED
      BY <2>3, <3>1, <3>2 DEF step, IsRun
  <2>5. f = Body(f)
    BY <1>2, <2>3, <2>4 DEF IsRun
  <2> QED
    BY <2>5
<1>5. left = Body(left)
  <2> HIDE DEF Body
  <2> QED
    BY <1>4
<1> HIDE DEF left, V, step
<1>6. left[0] = first /\ \A a \in 1..size : left[a] = Against(c, s, size, left[a - 1], a)
  BY <1>2, <1>5
<1> DEFINE Good(a) == /\ left[a] \in Partial(E) /\ Covers(c, first, left[a])
                      /\ \A h \in 1..a : \A b \in (h + 1)..size : ~Alike(c, left[a], s[h], s[b])
<1>7. Good(0)
  <2>1. Covers(c, first, first)
    BY <1>9, CoversSelf
  <2> QED
    BY <1>6, <1>9, <2>1 DEF V
<1>8. ASSUME NEW a \in 1..size, Good(a - 1) PROVE Good(a)
  <2>1. /\ left[a] \in Partial(E) /\ DOMAIN left[a] \subseteq DOMAIN left[a - 1]
        /\ Covers(c, left[a - 1], left[a])
        /\ \A b \in (a + 1)..size : ~Alike(c, left[a], s[a], s[b])
    <3>1. left[a - 1] \in Partial(E) /\ left[a] = Against(c, s, size, left[a - 1], a)
      BY <1>6, <1>8
    <3> HIDE DEF Good
    <3> QED
      BY <1>3, <3>1
  <2>2. Covers(c, first, left[a])
    <3>1. DOMAIN left[a - 1] \subseteq DOMAIN first
      BY <1>8, <1>9, PartialIs
    <3> QED
      BY <1>8, <1>9, <2>1, <3>1, CoversOn
  <2>3. ASSUME NEW h \in 1..a, NEW b \in (h + 1)..size PROVE ~Alike(c, left[a], s[h], s[b])
    <3>1. CASE h = a
      BY <2>1, <3>1
    <3>2. CASE h # a
      <4>1. h \in 1..(a - 1)
        BY <1>2, <3>2
      <4> QED
        BY <1>8, <2>1, <4>1 DEF Alike
    <3> QED
      BY <3>1, <3>2
  <2> QED
    BY <1>8, <2>1, <2>2, <2>3
<1> DEFINE bad == {a \in 0..size : ~Good(a)}
<1> HIDE DEF Good
<1>10. bad = {}
  <2> SUFFICES ASSUME bad # {} PROVE FALSE
    OBVIOUS
  <2>1. PICK a \in bad : \A k \in bad : a <= k
    <3>1. bad \in SUBSET Nat
      BY <1>2
    <3> HIDE DEF bad
    <3> QED
      BY <3>1, Least
  <2>2. a \in 1..size /\ a - 1 \in 0..size
    BY <1>2, <1>7, <2>1
  <2>3. a - 1 \notin bad
    <3> HIDE DEF bad
    <3> QED
      BY <2>1, <2>2
  <2> QED
    BY <1>8, <2>1, <2>2, <2>3
<1>11. Good(size)
  BY <1>2, <1>10
<1> DEFINE rest == left[size]
<1>12. ASSUME NEW i \in DOMAIN rest, NEW j \in DOMAIN rest, i # j PROVE ~Alike(c, rest, i, j)
  <2>1. i \in E /\ j \in E
    BY <1>11, PartialIs DEF Good
  <2>2. PICK n \in 1..size, m \in 1..size : s[n] = i /\ s[m] = j
    BY <1>2, <2>1
  <2>3. n # m
    BY <1>12, <2>2
  <2>4. CASE n < m
    <3>1. m \in (n + 1)..size
      BY <1>2, <2>4
    <3> QED
      BY <1>11, <2>2, <3>1 DEF Good
  <2>5. CASE m < n
    <3>1. n \in (m + 1)..size
      BY <1>2, <2>5
    <3>2. ~Alike(c, rest, j, i)
      BY <1>11, <2>2, <3>1 DEF Good
    <3>3. c[i].line \in Nat /\ c[j].line \in Nat
      BY <2>1 DEF Numbered
    <3> QED
      BY <3>2, <3>3 DEF Alike, Near
  <2> QED
    BY <1>2, <2>3, <2>4, <2>5
<1> QED
  BY <1>1, <1>11, <1>12 DEF Good

\* What exact duplicates come to has a fix if one of them has.
LEMMA ExactFixFacts ==
  ASSUME NEW c, Len(c) \in Nat, NEW K \in SUBSET (1..Len(c)),
         \A k \in K : c[k].fix \in Fixes, NEW i
  PROVE  /\ ExactFix(c, K, i) \in Fixes
         /\ \A k \in K : SameKey(c, k, i) /\ c[k].fix # NoFix => ExactFix(c, K, i) # NoFix
<1> DEFINE N == Len(c)
           Next1(v, n) == IF n \notin K \/ ~SameKey(c, n, i) THEN v
                          ELSE IF n \in Exact(c, {k \in K : k <= n}) THEN Merged(c[n].fix, v)
                          ELSE Merged(v, c[n].fix)
           step == [n \in (0 + 1)..N |-> [v \in Fixes |-> Next1(v, n)]]
           Body(f) == [n \in 0..N |-> IF n = 0 THEN NoFix ELSE Next1(f[n - 1], n)]
           fix == CHOOSE f : f = Body(f)
<1>1. ExactFix(c, K, i) = fix[N]
  <2> DEFINE Code(f) == [n \in 0..Len(c) |->
        IF n = 0 THEN NoFix
        ELSE IF n \notin K \/ ~SameKey(c, n, i) THEN f[n - 1]
        ELSE IF n \in Exact(c, {k \in K : k <= n}) THEN Merged(c[n].fix, f[n - 1])
        ELSE Merged(f[n - 1], c[n].fix)]
  <2>1. ExactFix(c, K, i) = (CHOOSE f : f = Code(f))[Len(c)]
    BY DEF ExactFix
  <2> QED
    BY <2>1
<1>2. \A own, other \in Fixes :
        /\ Merged(own, other) \in Fixes
        /\ own # NoFix \/ other # NoFix => Merged(own, other) # NoFix
  BY DEF Merged
<1>3. \A v \in Fixes, n \in 1..N :
        /\ Next1(v, n) \in Fixes /\ (v # NoFix => Next1(v, n) # NoFix)
        /\ n \in K /\ SameKey(c, n, i) /\ c[n].fix # NoFix => Next1(v, n) # NoFix
  BY <1>2
<1>4. NoFix \in Fixes
  BY DEF Fixes
<1> HIDE DEF Next1
<1>5. \E f : f = Body(f)
  <2>1. IsStep(step, Fixes, 0, N)
    BY <1>3 DEF IsStep
  <2>2. NoFix \in Fixes /\ 0 \in Nat /\ N \in Nat /\ 0 <= N
    BY <1>4
  <2> HIDE DEF step
  <2>3. PICK f : IsRun(f, Fixes, NoFix, 0, N, step)
    BY <2>1, <2>2, Iterates
  <2>4. \A n \in 1..N : f[n] = Next1(f[n - 1], n)
    <3> TAKE n \in 1..N
    <3>1. n - 1 \in 0..N /\ n \in (0 + 1)..N
      OBVIOUS
    <3>2. f[n - 1] \in Fixes
      BY <2>3, <3>1 DEF IsRun
    <3> QED
      BY <2>3, <3>1, <3>2 DEF step, IsRun
  <2>5. f = Body(f)
    BY <2>3, <2>4 DEF IsRun
  <2> QED
    BY <2>5
<1>6. fix = Body(fix)
  <2> HIDE DEF Body
  <2> QED
    BY <1>5
<1> HIDE DEF fix, step
<1>7. fix[0] = NoFix /\ \A n \in 1..N : fix[n] = Next1(fix[n - 1], n)
  BY <1>6
<1> DEFINE Good(n) == /\ fix[n] \in Fixes
                      /\ \A k \in K : k <= n /\ SameKey(c, k, i) /\ c[k].fix # NoFix
                                        => fix[n] # NoFix
           bad == {n \in 0..N : ~Good(n)}
<1>8. Good(0)
  BY <1>4, <1>7
<1>9. ASSUME NEW n \in 1..N, Good(n - 1) PROVE Good(n)
  <2>1. /\ fix[n] \in Fixes /\ (fix[n - 1] # NoFix => fix[n] # NoFix)
        /\ n \in K /\ SameKey(c, n, i) /\ c[n].fix # NoFix => fix[n] # NoFix
    BY <1>3, <1>7, <1>9
  <2>2. ASSUME NEW k \in K, k <= n, SameKey(c, k, i), c[k].fix # NoFix PROVE fix[n] # NoFix
    <3>1. CASE k = n
      BY <2>1, <2>2, <3>1
    <3>2. CASE k # n
      <4>1. k <= n - 1
        BY <2>2, <3>2
      <4> QED
        BY <1>9, <2>1, <2>2, <4>1
    <3> QED
      BY <3>1, <3>2
  <2> QED
    BY <2>1, <2>2
<1> HIDE DEF Good
<1>10. bad = {}
  <2> SUFFICES ASSUME bad # {} PROVE FALSE
    OBVIOUS
  <2>1. PICK n \in bad : \A k \in bad : n <= k
    <3>1. bad \in SUBSET Nat
      OBVIOUS
    <3> HIDE DEF bad
    <3> QED
      BY <3>1, Least
  <2>2. n \in 1..N /\ n - 1 \in 0..N
    BY <1>8, <2>1
  <2>3. n - 1 \notin bad
    <3> HIDE DEF bad
    <3> QED
      BY <2>1, <2>2
  <2> QED
    BY <1>9, <2>1, <2>2, <2>3
<1>11. Good(N) /\ \A k \in K : k <= N
  BY <1>10
<1> QED
  BY <1>1, <1>11 DEF Good

\* Of exact duplicates one is left, it ranks no lower, and it has their fix.
LEMMA ExactFacts ==
  ASSUME NEW c, Len(c) \in Nat, NEW K \in SUBSET (1..Len(c)), Numbered(c, K),
         \A k \in K : c[k].fix \in Fixes
  PROVE  Covers(c, [k \in K |-> c[k].fix], [i \in Exact(c, K) |-> ExactFix(c, K, i)])
<1>0. \A k \in K : k \in Nat /\ c[k].line \in Nat /\ c[k].rank \in Nat
  BY DEF Numbered
<1>f. IsFiniteSet(K)
  <2>1. 1 \in Int /\ Len(c) \in Int
    OBVIOUS
  <2>2. IsFiniteSet(1..Len(c))
    BY <2>1, FS_Interval
  <2> QED
    BY <2>2, FS_Subset
<1> SUFFICES ASSUME NEW i \in K
             PROVE  \E j \in Exact(c, K) : /\ c[j].msg = c[i].msg /\ c[j].rank >= c[i].rank
                                           /\ c[i].fix # NoFix => ExactFix(c, K, j) # NoFix
  BY DEF Covers
<1> DEFINE C == {k \in K : SameKey(c, k, i)}
           Better(k) == {j \in C : Beats(c, j, k)}
           Beaten(n) == \E k \in C : Cardinality(Better(k)) = n
           counts == {n \in Nat : Beaten(n)}
<1>1. \A k \in C : IsFiniteSet(Better(k)) /\ Cardinality(Better(k)) \in Nat
  <2>1. \A k : Better(k) \in SUBSET K
    OBVIOUS
  <2> HIDE DEF Better, C
  <2> QED
    BY <1>f, <2>1, FS_Subset, FS_CardinalityType
<1>2. i \in C
  BY DEF SameKey
<1>3. counts # {} /\ counts \in SUBSET Nat
  <2>1. Cardinality(Better(i)) \in counts
    BY <1>1, <1>2
  <2> QED
    BY <2>1
<1>4. PICK n \in counts : \A m \in counts : n <= m
  <2> HIDE DEF counts
  <2> QED
    BY <1>3, Least
<1>5. PICK k \in C : Cardinality(Better(k)) = n
  BY <1>4
<1>6. \A h \in C : n <= Cardinality(Better(h))
  BY <1>1, <1>4
<1>7. Better(k) = {}
  <2> SUFFICES ASSUME NEW j \in Better(k) PROVE FALSE
    OBVIOUS
  <2>1. j \in C /\ j \in K /\ k \in K /\ Beats(c, j, k)
    OBVIOUS
  <2>2. Better(j) \subseteq Better(k) /\ j \notin Better(j)
    <3>1. \A x, y, z \in K : Beats(c, x, y) /\ Beats(c, y, z) => Beats(c, x, z)
      BY <1>0 DEF Beats
    <3>2. j \in Nat /\ c[j].rank \in Nat
      BY <1>0, <2>1
    <3>3. ~Beats(c, j, j)
      BY <3>2 DEF Beats
    <3> QED
      BY <2>1, <3>1, <3>3
  <2> HIDE DEF Better, C
  <2>3. IsFiniteSet(Better(k)) /\ Better(j) \in SUBSET Better(k) /\ Better(j) # Better(k)
    BY <1>1, <2>2
  <2>4. Cardinality(Better(j)) <= Cardinality(Better(k))
        /\ Cardinality(Better(j)) # Cardinality(Better(k))
    BY <2>3, FS_Subset
  <2>5. Cardinality(Better(j)) \in Nat /\ Cardinality(Better(k)) \in Nat
        /\ Cardinality(Better(k)) <= Cardinality(Better(j))
    BY <1>1, <1>5, <1>6, <2>1
  <2> QED
    BY <2>4, <2>5
<1>8. k \in K /\ SameKey(c, k, i)
  OBVIOUS
<1>9. \A j \in C : ~Beats(c, j, k)
  BY <1>7
<1> HIDE DEF Better, counts, Beaten
<1>10. k \in Exact(c, K)
  <2> SUFFICES ASSUME NEW j \in K \ {k}, SameKey(c, k, j) PROVE Beats(c, k, j)
    BY <1>8 DEF Exact
  <2>1. j \in C
    BY <1>8 DEF SameKey
  <2>2. ~Beats(c, j, k)
    BY <1>9, <2>1
  <2> QED
    BY <1>0, <1>8, <2>2 DEF Beats
<1>11. c[k].msg = c[i].msg /\ c[k].rank >= c[i].rank
  <2>1. ~Beats(c, i, k)
    BY <1>2, <1>9
  <2> QED
    BY <1>0, <1>8, <2>1 DEF Beats, SameKey
<1>12. SameKey(c, i, k)
  BY <1>8 DEF SameKey
<1> QED
  BY <1>10, <1>11, <1>12, ExactFixFacts

\* both stages together
LEMMA DedupFacts ==
  ASSUME NEW c, Len(c) \in Nat, NEW K \in SUBSET (1..Len(c)), Numbered(c, K),
         \A k \in K : c[k].fix \in Fixes
  PROVE  LET left == Dedup(c, K)
         IN  /\ left \in Partial(Exact(c, K)) /\ Exact(c, K) \subseteq K
             /\ Covers(c, [k \in K |-> c[k].fix], left)
             /\ \A i, j \in DOMAIN left : i # j => ~Alike(c, left, i, j)
<1> DEFINE E == Exact(c, K)
           own == [k \in K |-> c[k].fix]
           first == [i \in Exact(c, K) |-> ExactFix(c, K, i)]
           left == Survivors(c, first)
<1>1. E \subseteq K
  BY DEF Exact
<1>2. Covers(c, own, first)
  BY ExactFacts
<1>3. first \in [E -> Fixes] /\ DOMAIN own = K
  BY ExactFixFacts
<1>4. Dedup(c, K) = left
  BY DEF Dedup
<1> HIDE DEF E, own, first
<1>5. E \in SUBSET Nat /\ IsFiniteSet(E) /\ Numbered(c, E)
  <2>1. 1 \in Int /\ Len(c) \in Int
    OBVIOUS
  <2>2. IsFiniteSet(1..Len(c)) /\ E \in SUBSET (1..Len(c))
    BY <1>1, <2>1, FS_Interval
  <2>3. IsFiniteSet(E) /\ Numbered(c, E)
    BY <1>1, <2>2, FS_Subset DEF Numbered
  <2> QED
    BY <2>2, <2>3
<1>6. /\ left \in Partial(E) /\ Covers(c, first, left)
      /\ \A i, j \in DOMAIN left : i # j => ~Alike(c, left, i, j)
  BY <1>3, <1>5, SurvivorsFacts
<1> HIDE DEF left
<1>7. Covers(c, own, left)
  <2>1. DOMAIN first = E /\ DOMAIN left \subseteq E
    BY <1>3, <1>6, PartialIs
  <2> QED
    BY <1>1, <1>2, <1>3, <1>6, <2>1, CoversOn
<1> QED
  BY <1>1, <1>4, <1>6, <1>7 DEF E, own

-----------------------------------------------------------------------------
(* Assembly                                                                *)

\* Of two that deduplication left one has its turn first.
LEMMA Turns ==
  ASSUME NEW c, NEW K \in SUBSET Nat, Numbered(c, K),
         NEW E \in SUBSET Exact(c, K), IsFiniteSet(E)
  PROVE  LET s == InOrder(E, {p \in E \X E : Ahead(c, K, p[1], p[2])})
         IN  Cardinality(E) \in Nat /\ \A n \in 1..Cardinality(E) : s[n] \in E
<1> DEFINE R == {p \in E \X E : Ahead(c, K, p[1], p[2])}
           place == [i \in E |-> PlaceOf(c, K, i)]
<1>1. \A i \in E : i \in K /\ i \in Nat /\ c[i].rank \in Nat
  BY DEF Exact, Numbered
<1>2. ASSUME NEW i \in E PROVE place[i] \in K /\ SameKey(c, i, place[i])
  <2> DEFINE same == {j \in K : SameKey(c, i, j)}
  <2>1. i \in same /\ same \in SUBSET Nat
    BY <1>1 DEF SameKey
  <2>2. PICK j \in same : \A h \in same : j <= h
    <3> HIDE DEF same
    <3> QED
      BY <2>1, Least
  <2>3. \E h \in K : SameKey(c, i, h) /\ \A g \in K : SameKey(c, i, g) => h <= g
    BY <2>2
  <2> QED
    BY <2>3 DEF PlaceOf
<1>3. ASSUME NEW i \in E, NEW j \in E, i # j PROVE place[i] # place[j]
  <2> SUFFICES ASSUME place[i] = place[j] PROVE FALSE
    OBVIOUS
  <2>1. SameKey(c, i, place[i]) /\ SameKey(c, j, place[i])
    BY <1>2
  <2> HIDE DEF place
  <2>2. SameKey(c, i, j) /\ SameKey(c, j, i)
    BY <2>1 DEF SameKey
  <2>3. Beats(c, i, j) /\ Beats(c, j, i)
    BY <1>1, <1>3, <2>2 DEF Exact
  <2> QED
    BY <1>1, <2>3 DEF Beats
<1>4. \A i, j \in E : <<i, j>> \in R <=>
        c[i].rank > c[j].rank \/ (c[i].rank = c[j].rank /\ place[i] < place[j])
  BY DEF Ahead
<1>5. \A i \in E : place[i] \in Nat /\ c[i].rank \in Nat
  BY <1>1, <1>2
<1> HIDE DEF R, place
<1>6. /\ \A i, j, k \in E : <<i, j>> \in R /\ <<j, k>> \in R => <<i, k>> \in R
      /\ \A i, j \in E : i # j => <<i, j>> \in R \/ <<j, i>> \in R
      /\ \A i \in E : <<i, i>> \notin R
  <2>1. ASSUME NEW i \in E, NEW j \in E, NEW k \in E, <<i, j>> \in R, <<j, k>> \in R
        PROVE  <<i, k>> \in R
    <3>1. /\ c[i].rank > c[j].rank \/ (c[i].rank = c[j].rank /\ place[i] < place[j])
          /\ c[j].rank > c[k].rank \/ (c[j].rank = c[k].rank /\ place[j] < place[k])
      BY <1>4, <2>1
    <3>2. c[i].rank > c[k].rank \/ (c[i].rank = c[k].rank /\ place[i] < place[k])
      BY <1>5, <3>1
    <3> QED
      BY <1>4, <3>2
  <2>2. ASSUME NEW i \in E, NEW j \in E, i # j PROVE <<i, j>> \in R \/ <<j, i>> \in R
    <3>1. /\ place[i] # place[j] /\ place[i] \in Nat /\ place[j] \in Nat
          /\ c[i].rank \in Nat /\ c[j].rank \in Nat
      BY <1>3, <1>5, <2>2
    <3>2. \/ c[i].rank > c[j].rank \/ (c[i].rank = c[j].rank /\ place[i] < place[j])
          \/ c[j].rank > c[i].rank \/ (c[j].rank = c[i].rank /\ place[j] < place[i])
      BY <3>1
    <3> QED
      BY <1>4, <3>2
  <2>3. ASSUME NEW i \in E PROVE <<i, i>> \notin R
    <3>1. place[i] \in Nat /\ c[i].rank \in Nat
      BY <1>5
    <3> QED
      BY <1>4, <3>1
  <2> QED
    BY <2>1, <2>2, <2>3
<1>7. /\ Cardinality(E) \in Nat
      /\ \A n \in 1..Cardinality(E) : InOrder(E, R)[n] \in E
  BY <1>6, Orders
<1> QED
  BY <1>7 DEF R

\* Where comments stand: a suggestion replaces lines of the diff that no other
\* one replaces, any other comment is on a line of the diff.
Aimed(c, left, made) ==
  /\ made.applied \subseteq made.inline
  /\ \A i \in made.applied : Span(left[i]) # {} /\ Span(left[i]) \subseteq Commentable
  /\ \A i, j \in made.applied : i # j => Span(left[i]) \cap Span(left[j]) = {}
  /\ \A i \in made.inline \ made.applied : OnDiff(c[i])

\* the turn of one position
LEMMA PlacedFacts ==
  ASSUME NEW c, NEW left, NEW fresh \in SUBSET DOMAIN left,
         \A i \in DOMAIN left : left[i] \in Fixes,
         NEW made \in [inline: SUBSET fresh, applied: SUBSET fresh], NEW i \in fresh
  PROVE  LET next == Placed(c, left, made, i)
         IN  /\ next \in [inline: SUBSET fresh, applied: SUBSET fresh]
             /\ Aimed(c, left, made) => Aimed(c, left, next)
<1> DEFINE room == Cardinality(made.inline) < MaxComments
           apply == room /\ CanApply(left[i], {left[k] : k \in made.applied})
           comment == room /\ OnDiff(c[i])
           next == Placed(c, left, made, i)
<1>1. next = [inline |-> made.inline \cup {k \in {i} : apply \/ comment},
              applied |-> made.applied \cup {k \in {i} : apply}]
  BY DEF Placed
<1>2. apply => /\ Span(left[i]) # {} /\ Span(left[i]) \subseteq Commentable
               /\ \A k \in made.applied : Span(left[i]) \cap Span(left[k]) = {}
  <2> SUFFICES ASSUME apply PROVE /\ Span(left[i]) # {} /\ Span(left[i]) \subseteq Commentable
               /\ \A k \in made.applied : Span(left[i]) \cap Span(left[k]) = {}
    OBVIOUS
  <2>1. /\ left[i] # NoFix /\ left[i][1] <= left[i][2] /\ Span(left[i]) \subseteq Commentable
        /\ \A k \in made.applied : Span(left[i]) \cap Span(left[k]) = {}
    BY DEF CanApply
  <2>2. left[i][1] \in Int /\ left[i][2] \in Int
    <3>1. left[i] \in (0..MaxLine) \X (0..MaxLine)
      BY <2>1 DEF Fixes
    <3> QED
      BY <3>1
  <2>3. left[i][1] \in Span(left[i])
    BY <2>1, <2>2 DEF Span
  <2> QED
    BY <2>1, <2>3
<1>3. comment => OnDiff(c[i])
  OBVIOUS
<1> HIDE DEF apply, comment
<1>4. /\ next.inline = made.inline \cup {k \in {i} : apply \/ comment}
      /\ next.applied = made.applied \cup {k \in {i} : apply}
      /\ next \in [inline: SUBSET fresh, applied: SUBSET fresh]
  BY <1>1
<1> HIDE DEF next
<1>5. ASSUME Aimed(c, left, made) PROVE Aimed(c, left, next)
  <2>1. /\ made.applied \subseteq made.inline
        /\ \A k \in made.applied : Span(left[k]) # {} /\ Span(left[k]) \subseteq Commentable
        /\ \A k, j \in made.applied : k # j => Span(left[k]) \cap Span(left[j]) = {}
        /\ \A k \in made.inline \ made.applied : OnDiff(c[k])
    BY <1>5 DEF Aimed
  <2>2. next.applied \subseteq next.inline
    BY <1>4, <2>1
  <2>3. \A k \in next.applied : Span(left[k]) # {} /\ Span(left[k]) \subseteq Commentable
    BY <1>2, <1>4, <2>1
  <2>4. \A k, j \in next.applied : k # j => Span(left[k]) \cap Span(left[j]) = {}
    BY <1>2, <1>4, <2>1
  <2>5. \A k \in next.inline \ next.applied : OnDiff(c[k])
    BY <1>3, <1>4, <2>1
  <2> QED
    BY <2>2, <2>3, <2>4, <2>5 DEF Aimed
<1> QED
  BY <1>4, <1>5 DEF next

\* all turns
LEMMA MadeFacts ==
  ASSUME NEW c, NEW K \in SUBSET Nat, Numbered(c, K), IsFiniteSet(K),
         NEW left \in Partial(Exact(c, K)), NEW fresh \in SUBSET DOMAIN left
  PROVE  LET made == Made(c, K, left, fresh)
         IN  made.inline \subseteq fresh /\ Aimed(c, left, made)
<1> DEFINE R == {p \in fresh \X fresh : Ahead(c, K, p[1], p[2])}
           N == Cardinality(fresh)
           s == InOrder(fresh, R)
           V == [inline: SUBSET fresh, applied: SUBSET fresh]
           none == [inline |-> {}, applied |-> {}]
           step == [n \in (0 + 1)..N |-> [v \in V |-> Placed(c, left, v, s[n])]]
           Body(f) == [n \in 0..N |-> IF n = 0 THEN none ELSE Placed(c, left, f[n - 1], s[n])]
           made == CHOOSE f : f = Body(f)
<1>1. Made(c, K, left, fresh) = made[N]
  BY DEF Made
<1>2. DOMAIN left \in SUBSET Exact(c, K) /\ \A i \in DOMAIN left : left[i] \in Fixes
  <2>1. DOMAIN left \in SUBSET Exact(c, K) /\ left \in [DOMAIN left -> Fixes]
    BY PartialIs
  <2> QED
    BY <2>1
<1>3. N \in Nat /\ \A n \in 1..N : s[n] \in fresh
  <2>1. fresh \in SUBSET Exact(c, K) /\ fresh \in SUBSET K
    BY <1>2 DEF Exact
  <2>2. IsFiniteSet(fresh)
    BY <2>1, FS_Subset
  <2> QED
    BY <2>1, <2>2, Turns
<1> HIDE DEF s, N
<1>4. none \in V /\ Aimed(c, left, none)
  BY DEF Aimed
<1>5. \A v \in V, n \in 1..N :
        /\ Placed(c, left, v, s[n]) \in V
        /\ Aimed(c, left, v) => Aimed(c, left, Placed(c, left, v, s[n]))
  <2> TAKE v \in V, n \in 1..N
  <2>1. s[n] \in fresh
    BY <1>3
  <2> QED
    BY <1>2, <2>1, PlacedFacts
<1> HIDE DEF V, none
<1>6. \E f : f = Body(f)
  <2>1. IsStep(step, V, 0, N)
    BY <1>5 DEF IsStep
  <2>2. none \in V /\ 0 \in Nat /\ N \in Nat /\ 0 <= N
    BY <1>3, <1>4
  <2> HIDE DEF step
  <2>3. PICK f : IsRun(f, V, none, 0, N, step)
    BY <2>1, <2>2, Iterates
  <2>4. \A n \in 1..N : f[n] = Placed(c, left, f[n - 1], s[n])
    <3> TAKE n \in 1..N
    <3>1. n - 1 \in 0..N /\ n \in (0 + 1)..N
      BY <1>3
    <3>2. f[n - 1] \in V
      BY <2>3, <3>1 DEF IsRun
    <3> QED
      BY <2>3, <3>1, <3>2 DEF step, IsRun
  <2>5. f = Body(f)
    BY <1>3, <2>3, <2>4 DEF IsRun
  <2> QED
    BY <2>5
<1>7. made = Body(made)
  <2> HIDE DEF Body
  <2> QED
    BY <1>6
<1> HIDE DEF made, step
<1>8. made[0] = none /\ \A n \in 1..N : made[n] = Placed(c, left, made[n - 1], s[n])
  BY <1>3, <1>7
<1> DEFINE Good(n) == made[n] \in V /\ Aimed(c, left, made[n])
           bad == {n \in 0..N : ~Good(n)}
<1>9. Good(0)
  BY <1>4, <1>8
<1>10. ASSUME NEW n \in 1..N, Good(n - 1) PROVE Good(n)
  BY <1>5, <1>8, <1>10
<1> HIDE DEF Good
<1>11. bad = {}
  <2> SUFFICES ASSUME bad # {} PROVE FALSE
    OBVIOUS
  <2>1. PICK n \in bad : \A k \in bad : n <= k
    <3>1. bad \in SUBSET Nat
      BY <1>3
    <3> HIDE DEF bad
    <3> QED
      BY <3>1, Least
  <2>2. n \in 1..N /\ n - 1 \in 0..N
    BY <1>3, <1>9, <2>1
  <2>3. n - 1 \notin bad
    <3> HIDE DEF bad
    <3> QED
      BY <2>1, <2>2
  <2> QED
    BY <1>10, <2>1, <2>2, <2>3
<1>12. Good(N)
  BY <1>3, <1>11
<1> QED
  BY <1>1, <1>12 DEF Good, V

-----------------------------------------------------------------------------
(* What is planned and what is said                                        *)

WorkFields == {"pc", "dry", "existing", "inline", "body", "attempt", "status"}
SessionOK(s) ==
  DOMAIN s = {"there", "cands", "rejected"} /\ s.cands \in Seq(Finding)

Counts == [Place -> [Fingerprints -> 0..MaxCount]]
Said(m, fp) == \E pl \in Place : m[pl][fp] > 0
Plan == Assembled(work.existing)

\* Until its request, a comment is in the work; after it, on the PR.
WorkOK(w, plan, m) ==
  /\ DOMAIN w = WorkFields
  /\ w.inline \subseteq plan.inline
  /\ w.pc \in {"idle", "list"} => w.inline = {}
  /\ w.pc \notin {"idle", "list"} =>
       \A fp \in w.existing : fp \in Fingerprints /\ Said(m, fp)
  /\ w.pc \in {"get", "post"} => Vcs = "gitlab"
  /\ w.pc \in {"get", "post", "note"} =>
       /\ w.body = plan.body
       /\ WholeOrNothing => \A i \in plan.inline \ w.inline : Said(m, Fp(i))
  /\ w.pc = "note" /\ Vcs = "gitlab" => w.inline = {}
  /\ w.pc \in {"record", "cleanup"} /\ ~w.dry /\ w.status = "ok" /\ WholeOrNothing =>
       \A i \in plan.inline \cup plan.body : Said(m, Fp(i))

PublishInv ==
  /\ setting \in Settings
  /\ SessionOK(session)
  /\ comments \in Counts
  /\ WorkOK(work, Plan, comments)
  /\ \A h \in history : h.fp \in Fingerprints
  /\ WholeOrNothing => \A h \in history : ~h.dry => Said(comments, h.fp)

\* A candidate that was not rejected is the finding, grounded.
LEMMA Fingerprinted ==
  ASSUME SessionOK(session), NEW i \in DOMAIN session.cands
  PROVE  /\ Fp(i) \in Fingerprints /\ session.cands[i] \in Finding
         /\ i \in NotRejected => Cands[i] = Located(session.cands[i])
<1> DEFINE f == session.cands[i]
<1>1. f \in Finding /\ FileLines \in Nat
  BY PipelineAssumption DEF SessionOK
<1>2. Cands[i] \in {f, Located(f)} /\ (i \in NotRejected => Cands[i] = Located(f))
  BY DEF Cands
<1>3. Located(f).msg = f.msg /\ f.msg \in Message
  BY <1>1 DEF Located, Finding
<1>4. \A g : SaneLine(g) \in 0..FileLines
  BY <1>1 DEF SaneLine
<1> HIDE DEF f
<1>5. Cands[i].msg \in Message
  BY <1>2, <1>3
<1>6. Fp(i) \in Fingerprints
  BY <1>4, <1>5 DEF Fp, Fingerprint, Fingerprints
<1> QED
  BY <1>1, <1>2, <1>6 DEF f

\* Positions are few.
LEMMA Positions ==
  ASSUME SessionOK(session)
  PROVE  /\ Kept \subseteq DOMAIN session.cands
         /\ \A S \in SUBSET DOMAIN session.cands : IsFiniteSet(S)
<1>1. DOMAIN session.cands = 1..Len(session.cands) /\ Len(session.cands) \in Nat
  BY DEF SessionOK
<1>2. IsFiniteSet(DOMAIN session.cands)
  BY <1>1, FS_Interval
<1> QED
  BY <1>2, FS_Subset DEF Kept, NotRejected

\* dedup_findings on the candidates of the session
LEMMA Deduplicated ==
  ASSUME SessionOK(session)
  PROVE  /\ Kept \subseteq NotRejected /\ NotRejected \subseteq DOMAIN session.cands
         /\ Kept \in SUBSET Nat /\ IsFiniteSet(Kept) /\ Numbered(Cands, Kept)
         /\ Left \in Partial(Exact(Cands, Kept))
         /\ Deduped \subseteq Exact(Cands, Kept) /\ Deduped \subseteq Kept
         /\ Covers(Cands, [i \in Kept |-> Cands[i].fix], Left)
         /\ \A i, j \in Deduped : i # j => ~Alike(Cands, Left, i, j)
<1>1. Kept \subseteq NotRejected /\ NotRejected \subseteq DOMAIN session.cands
  BY DEF Kept, NotRejected
<1>2. Kept \in SUBSET Nat /\ IsFiniteSet(Kept)
  BY Positions DEF SessionOK
<1>3. ASSUME NEW i \in Kept
      PROVE  Cands[i].line \in Nat /\ Cands[i].rank \in Nat /\ Cands[i].fix \in Fixes
  <2>1. PICK f \in Finding : Cands[i] = Located(f)
    BY <1>1, Fingerprinted
  <2>2. Rank \subseteq Nat /\ FileLines \in Nat /\ f.line \in Nat
    BY PipelineAssumption DEF Finding
  <2>3. Located(f).line \in Nat
    BY <2>2, Grounding
  <2>4. Located(f).rank = f.rank /\ Located(f).fix = f.fix
    BY DEF Located, Finding
  <2> QED
    BY <2>1, <2>2, <2>3, <2>4 DEF Finding
<1>4. Len(Cands) \in Nat /\ Kept \in SUBSET (1..Len(Cands))
  <2>1. PICK n \in Nat : DOMAIN session.cands = 1..n
    BY DEF SessionOK
  <2>2. PICK S, g : g \in [1..n -> S] /\ Cands = g
    <3>1. Cands = [i \in 1..n |-> Cands[i]]
      BY <2>1 DEF Cands
    <3> DEFINE S == {Cands[i] : i \in 1..n}
    <3>2. Cands \in [1..n -> S]
      BY <3>1
    <3> QED
      BY <3>2
  <2>3. g \in Seq(S) /\ DOMAIN g = 1..n
    BY <2>2
  <2>4. Len(g) \in Nat /\ DOMAIN g = 1..Len(g)
    BY <2>3
  <2> QED
    BY <1>1, <2>1, <2>2, <2>3, <2>4
<1>5. Numbered(Cands, Kept) /\ \A k \in Kept : Cands[k].fix \in Fixes
  BY <1>3 DEF Numbered
<1>6. /\ Left \in Partial(Exact(Cands, Kept)) /\ Exact(Cands, Kept) \subseteq Kept
      /\ Covers(Cands, [k \in Kept |-> Cands[k].fix], Left)
      /\ \A i, j \in DOMAIN Left : i # j => ~Alike(Cands, Left, i, j)
  BY <1>4, <1>5, DedupFacts DEF Left
<1>7. Deduped \subseteq Exact(Cands, Kept) /\ Deduped \subseteq Kept
  BY <1>6, PartialIs DEF Deduped
<1> QED
  BY <1>1, <1>2, <1>5, <1>6, <1>7 DEF Deduped

\* Inline comments and body are what deduplication left and the PR has not.
LEMMA Assembling ==
  ASSUME SessionOK(session), NEW existing
  PROVE  LET plan == Assembled(existing)
         IN  /\ plan.inline \cup plan.body = {i \in Deduped : Fp(i) \notin existing}
             /\ plan.inline \cap plan.body = {}
             /\ plan.inline \cup plan.body \subseteq Kept
             /\ Kept \subseteq NotRejected /\ Deduped \subseteq Kept
             /\ Aimed(Cands, Left, plan)
<1> DEFINE fresh == Fresh(Cands, Left, existing)
           made == Made(Cands, Kept, Left, fresh)
           plan == Assembled(existing)
<1>1. Deduped \subseteq Kept /\ Kept \subseteq NotRejected
  BY Deduplicated
<1>2. plan = [inline |-> made.inline, applied |-> made.applied, body |-> fresh \ made.inline]
  BY DEF Assembled, Assemble, Review
<1>3. fresh = {i \in Deduped : Fp(i) \notin existing}
  BY DEF Fresh, Fp, Deduped
<1>4. made.inline \subseteq fresh /\ Aimed(Cands, Left, made)
  <2>1. fresh \in SUBSET DOMAIN Left
    BY DEF Fresh
  <2> QED
    BY <2>1, Deduplicated, MadeFacts
<1> HIDE DEF fresh, made, plan
<1>5. /\ plan.inline = made.inline /\ plan.applied = made.applied
      /\ plan.body = fresh \ made.inline
  BY <1>2
<1>6. Aimed(Cands, Left, plan)
  BY <1>4, <1>5 DEF Aimed
<1>7. /\ plan.inline \cup plan.body = {i \in Deduped : Fp(i) \notin existing}
      /\ plan.inline \cap plan.body = {}
      /\ plan.inline \cup plan.body \subseteq Kept
  BY <1>1, <1>3, <1>4, <1>5
<1> QED
  BY <1>1, <1>6, <1>7 DEF plan

\* What a request leaves: nothing that was said is gone, and all of it is said.
LEMMA Put ==
  ASSUME setting \in Settings, SessionOK(session), comments \in Counts,
         NEW inline \in SUBSET DOMAIN session.cands,
         NEW body \in SUBSET DOMAIN session.cands,
         Puts(inline, body)
  PROVE  /\ comments' \in Counts
         /\ \A fp \in Fingerprints : Said(comments, fp) => Said(comments', fp)
         /\ \A i \in inline \cup body : Said(comments', Fp(i))
<1> DEFINE Of(S, fp) == {i \in S : Fp(i) = fp}
           More(S, fp) == Cardinality(Of(S, fp))
<1>1. MaxCount \in Nat /\ MaxCount > 0
  BY PublishAssumption DEF SettingOK, MaxCount
<1>2. \A n \in Nat : Counted(n) \in 0..MaxCount /\ (n > 0 => Counted(n) > 0)
  BY <1>1 DEF Counted
<1>3. ASSUME NEW S \in SUBSET DOMAIN session.cands, NEW fp
      PROVE  More(S, fp) \in Nat /\ (\A i \in S : Fp(i) = fp => More(S, fp) > 0)
  <2>1. Of(S, fp) \in SUBSET DOMAIN session.cands
    OBVIOUS
  <2>2. IsFiniteSet(Of(S, fp))
    BY <2>1, Positions
  <2>3. More(S, fp) \in Nat /\ (More(S, fp) = 0 <=> Of(S, fp) = {})
    BY <2>2, FS_CardinalityType, FS_EmptySet
  <2>4. ASSUME NEW i \in S, Fp(i) = fp PROVE i \in Of(S, fp)
    BY <2>4
  <2> HIDE DEF Of, More
  <2> QED
    BY <2>3, <2>4
<1>4. /\ comments' = [comments EXCEPT
            !["inline"] = [fp \in Fingerprints |-> Counted(@[fp] + More(inline, fp))],
            !["body"] = [fp \in Fingerprints |-> Counted(@[fp] + More(body, fp))]]
  BY DEF Puts
<1> HIDE DEF Of, More
<1>5. /\ comments'["inline"] =
           [fp \in Fingerprints |-> Counted(comments["inline"][fp] + More(inline, fp))]
      /\ comments'["body"] =
           [fp \in Fingerprints |-> Counted(comments["body"][fp] + More(body, fp))]
      /\ DOMAIN comments' = Place
      /\ comments' = [pl \in Place |-> comments'[pl]]
  BY <1>4 DEF Counts, Place
<1>6. ASSUME NEW fp \in Fingerprints
      PROVE  /\ comments'["inline"][fp] = Counted(comments["inline"][fp] + More(inline, fp))
             /\ comments'["body"][fp] = Counted(comments["body"][fp] + More(body, fp))
             /\ comments["inline"][fp] \in Nat /\ comments["body"][fp] \in Nat
  BY <1>1, <1>5 DEF Counts, Place
<1>7. \A fp \in Fingerprints, pl \in Place :
        /\ comments'[pl][fp] \in 0..MaxCount
        /\ comments[pl][fp] > 0 => comments'[pl][fp] > 0
  <2> TAKE fp \in Fingerprints, pl \in Place
  <2>1. More(inline, fp) \in Nat /\ More(body, fp) \in Nat
    BY <1>3
  <2>2. CASE pl = "inline"
    <3> DEFINE n == comments["inline"][fp] + More(inline, fp)
    <3>1. n \in Nat /\ (comments["inline"][fp] > 0 => n > 0)
      BY <1>6, <2>1
    <3> HIDE DEF n
    <3> QED
      BY <1>2, <1>6, <2>2, <3>1 DEF n
  <2>3. CASE pl = "body"
    <3> DEFINE n == comments["body"][fp] + More(body, fp)
    <3>1. n \in Nat /\ (comments["body"][fp] > 0 => n > 0)
      BY <1>6, <2>1
    <3> HIDE DEF n
    <3> QED
      BY <1>2, <1>6, <2>3, <3>1 DEF n
  <2> QED
    BY <2>2, <2>3 DEF Place
<1>8. comments' \in Counts
  <2>1. \A pl \in Place : comments'[pl] \in [Fingerprints -> 0..MaxCount]
    BY <1>5, <1>7 DEF Place
  <2> QED
    BY <1>5, <2>1 DEF Counts
<1>9. ASSUME NEW i \in inline \cup body PROVE Said(comments', Fp(i))
  <2>1. Fp(i) \in Fingerprints
    BY Fingerprinted
  <2>2. CASE i \in inline
    <3>1. More(inline, Fp(i)) \in Nat /\ More(inline, Fp(i)) > 0
      BY <1>3, <2>2
    <3>2. comments["inline"][Fp(i)] + More(inline, Fp(i)) \in Nat \ {0}
      BY <1>6, <2>1, <3>1
    <3>3. comments'["inline"][Fp(i)] > 0
      BY <1>2, <1>6, <2>1, <3>2
    <3> QED
      BY <3>3 DEF Said, Place
  <2>3. CASE i \in body
    <3>1. More(body, Fp(i)) \in Nat /\ More(body, Fp(i)) > 0
      BY <1>3, <2>3
    <3>2. comments["body"][Fp(i)] + More(body, Fp(i)) \in Nat \ {0}
      BY <1>6, <2>1, <3>1
    <3>3. comments'["body"][Fp(i)] > 0
      BY <1>2, <1>6, <2>1, <3>2
    <3> QED
      BY <3>3 DEF Said, Place
  <2> QED
    BY <2>2, <2>3
<1> QED
  BY <1>7, <1>8, <1>9 DEF Said

-----------------------------------------------------------------------------
(* The steps                                                               *)

\* While the session stays, so does what is planned from it.
LEMMA Same ==
  ASSUME UNCHANGED <<setting, session>>
  PROVE  /\ Plan' = Assembled(work'.existing)
         /\ \A i : Fp(i)' = Fp(i)
         /\ Vcs' = Vcs /\ WholeOrNothing' = WholeOrNothing
         /\ Counts' = Counts
  BY DEF Plan, Assembled, Cands, Kept, Left, NotRejected, Fp, Vcs, WholeOrNothing,
         Can, Counts, MaxCount

\* A step of publish_review
LEMMA Step ==
  ASSUME PublishInv, UNCHANGED <<setting, session>>, comments' \in Counts,
         WorkOK(work', Assembled(work'.existing), comments'),
         \A h \in history' : h.fp \in Fingerprints,
         WholeOrNothing => \A h \in history' : ~h.dry => Said(comments', h.fp)
  PROVE  PublishInv'
<1>1. WorkOK(work, Plan, comments)'
  BY Same DEF WorkOK, Said
<1>2. SessionOK(session')
  BY DEF PublishInv
<1> QED
  BY <1>1, <1>2, Same DEF PublishInv, Said

\* A step that starts a review, adds to it or ends it
LEMMA SessionStep ==
  ASSUME PublishInv, UNCHANGED <<setting, comments, history>>, SessionOK(session'),
         DOMAIN work' = WorkFields, work'.pc \in {"idle", "list"}, work'.inline = {}
  PROVE  PublishInv'
<1>1. WorkOK(work, Plan, comments)'
  BY DEF WorkOK
<1>2. WholeOrNothing' = WholeOrNothing /\ Counts' = Counts
  BY DEF WholeOrNothing, Vcs, Can, Counts, MaxCount
<1> QED
  BY <1>1, <1>2 DEF PublishInv, Said

\* the session that is found, or brought back
LEMMA CurrentOK ==
  ASSUME SessionOK(session)
  PROVE  SessionOK(Current) /\ SessionOK(Fresh0) /\ SessionOK(Unprepared)
BY DEF SessionOK, Current, Fresh0, Unprepared

\* submit_findings
LEMMA SubmitStep ==
  ASSUME PublishInv, NEW fs \in Seq(Pool), Submit(fs)
  PROVE  PublishInv'
<1>1. Pool \subseteq Finding
  BY PublishAssumption DEF PublishInv, SettingOK, Pool
<1>2. PICK current : current = Current
  OBVIOUS
<1>3. SessionOK(current)
  BY <1>2, CurrentOK DEF PublishInv
<1>4. session' = [current EXCEPT !.cands = @ \o fs]
  BY <1>2 DEF Submit
<1>5. SessionOK(session')
  <2>1. fs \in Seq(Finding)
    BY <1>1
  <2>2. current.cands \o fs \in Seq(Finding)
    BY <1>3, <2>1 DEF SessionOK
  <2> QED
    BY <1>3, <1>4, <2>2 DEF SessionOK
<1> QED
  BY <1>5, SessionStep DEF Submit, NotPublishing, PublishInv, WorkOK

\* submit_verdicts
LEMMA VerdictStep ==
  ASSUME PublishInv, NEW real \in BOOLEAN, SubmitVerdict(real)
  PROVE  PublishInv'
<1>1. PICK current : current = Current
  OBVIOUS
<1>2. SessionOK(current)
  BY <1>1, CurrentOK DEF PublishInv
<1>3. \/ session' = current
      \/ \E S : session' = [current EXCEPT !.rejected = S]
  BY <1>1 DEF SubmitVerdict
<1>4. SessionOK(session')
  BY <1>2, <1>3 DEF SessionOK
<1> QED
  BY <1>4, SessionStep DEF SubmitVerdict, NotPublishing, PublishInv, WorkOK

\* The other steps that find no work, or leave none but to list
LEMMA CallStep ==
  ASSUME PublishInv,
         \/ PrepareReview \/ Cleanup \/ ServerDies
         \/ \E i \in 1..MaxCandidates : ReadCandidate(i)
         \/ \E dry \in BOOLEAN : PublishReview(dry)
  PROVE  PublishInv'
<1>1. SessionOK(Current) /\ SessionOK(Fresh0) /\ SessionOK(Unprepared)
  BY CurrentOK DEF PublishInv
<1>2. DOMAIN NoWork = WorkFields /\ NoWork.pc = "idle" /\ NoWork.inline = {}
  BY DEF NoWork, WorkFields
<1>3. DOMAIN work = WorkFields /\ (NotPublishing => work.pc = "idle" /\ work.inline = {})
  BY DEF PublishInv, WorkOK, NotPublishing
<1>4. CASE PrepareReview
  BY <1>1, <1>3, <1>4, SessionStep DEF PrepareReview
<1>5. CASE Cleanup
  BY <1>1, <1>2, <1>5, SessionStep DEF Cleanup
<1>6. CASE ServerDies
  BY <1>1, <1>2, <1>6, SessionStep DEF ServerDies
<1>7. ASSUME NEW i \in 1..MaxCandidates, ReadCandidate(i) PROVE PublishInv'
  BY <1>1, <1>3, <1>7, SessionStep DEF ReadCandidate
<1>8. ASSUME NEW dry \in BOOLEAN, PublishReview(dry) PROVE PublishInv'
  <2>1. /\ session' = Current /\ UNCHANGED <<setting, comments, history>>
        /\ work' = [NoWork EXCEPT !.pc = "list", !.dry = dry]
    BY <1>8 DEF PublishReview
  <2>2. DOMAIN work' = WorkFields /\ work'.pc = "list" /\ work'.inline = {}
    BY <1>2, <2>1 DEF WorkFields
  <2> QED
    BY <1>1, <2>1, <2>2, SessionStep
<1> QED
  BY <1>4, <1>5, <1>6, <1>7, <1>8

\* What is there was listed; what is planned is not there.
LEMMA ListStep ==
  ASSUME PublishInv, List
  PROVE  PublishInv'
<1>1. PICK existing \in {Visible} \cup (IF Can("list_error") THEN {{}} ELSE {}) :
        LET asm == Assembled(existing) IN
        work' = [work EXCEPT
          !.existing = existing, !.inline = asm.inline, !.body = asm.body,
          !.pc = IF work.dry THEN "record"
                 ELSE IF Vcs = "github" THEN "note"
                 ELSE IF asm.inline # {} THEN "get" ELSE "note"]
  BY DEF List
<1>2. PICK plan : plan = Assembled(existing)
  OBVIOUS
<1>3. /\ DOMAIN work' = WorkFields
      /\ work'.existing = existing /\ work'.dry = work.dry
      /\ work'.inline = plan.inline /\ work'.body = plan.body
      /\ work'.pc = IF work.dry THEN "record"
                    ELSE IF Vcs = "github" THEN "note"
                    ELSE IF plan.inline # {} THEN "get" ELSE "note"
  BY <1>1, <1>2 DEF PublishInv, WorkOK, WorkFields
<1>4. Vcs \in {"github", "gitlab"}
  BY PublishAssumption DEF PublishInv, SettingOK, Vcs
<1>7. \A fp \in existing : fp \in Fingerprints /\ Said(comments', fp)
  <2>1. existing = Visible \/ existing = {}
    OBVIOUS
  <2>2. \A fp \in Visible : fp \in Fingerprints /\ Said(comments, fp)
    BY DEF Visible, Said, Place
  <2> QED
    BY <2>1, <2>2 DEF List
<1>5. WorkOK(work', plan, comments')
  BY <1>3, <1>4, <1>7 DEF WorkOK
<1>6. WorkOK(work', Assembled(work'.existing), comments')
  BY <1>2, <1>3, <1>5
<1> QED
  BY <1>6, Step DEF List, PublishInv

\* A run that fails leaves no promise.
LEMMA FailedOK ==
  ASSUME WorkOK(work, Plan, comments), work.pc \notin {"idle", "list"}, NEW w, w = Failed,
         NEW m, \A fp \in Fingerprints : Said(comments, fp) => Said(m, fp)
  PROVE  /\ WorkOK(w, Assembled(w.existing), m)
         /\ w.existing = work.existing
<1>1. /\ DOMAIN w = WorkFields /\ w.existing = work.existing /\ w.inline = work.inline
      /\ w.pc = "record" /\ w.status = "error"
  BY DEF WorkOK, WorkFields, Failed
<1> QED
  BY <1>1 DEF WorkOK, Plan

\* GitLab's two reads before the discussions
LEMMA GetStep ==
  ASSUME PublishInv, GetDiff
  PROVE  PublishInv'
<1>1. WorkOK(work, Plan, comments) /\ work.pc = "get"
  BY DEF PublishInv, GetDiff
<1>2. CASE work' = [work EXCEPT !.pc = "post"]
  <2>1. /\ DOMAIN work' = WorkFields /\ work'.pc = "post" /\ comments' = comments
        /\ \A field \in WorkFields \ {"pc"} : work'[field] = work[field]
    BY <1>1, <1>2 DEF WorkOK, WorkFields, GetDiff
  <2>2. /\ work'.existing = work.existing /\ work'.inline = work.inline
        /\ work'.body = work.body
    BY <2>1 DEF WorkFields
  <2>3. WorkOK(work', Plan, comments')
    BY <1>1, <2>1, <2>2 DEF WorkOK
  <2> QED
    BY <2>2, <2>3, Step DEF Plan, PublishInv, GetDiff
<1>3. CASE work' = Failed
  BY <1>1, <1>3, FailedOK, Step DEF PublishInv, GetDiff
<1> QED
  BY <1>2, <1>3 DEF GetDiff

\* An attempt that will be repeated, or the next step of a run that goes well:
\* the comments that leave the work were put, or refused for good.
LEMMA GoOn ==
  ASSUME PublishInv, work.pc \in {"post", "note"}, UNCHANGED <<setting, session, history>>,
         comments' \in Counts,
         \A fp \in Fingerprints : Said(comments, fp) => Said(comments', fp),
         NEW inline \in SUBSET work.inline,
         WholeOrNothing => \A i \in work.inline \ inline : Said(comments', Fp(i)),
         DOMAIN work' = WorkFields, work'.existing = work.existing,
         work'.inline = inline, work'.body = work.body,
         \/ work'.pc = work.pc
         \/ work'.pc = "note" /\ inline = {}
  PROVE  PublishInv'
<1>1. WorkOK(work, Plan, comments) /\ SessionOK(session)
  BY DEF PublishInv
<1>2. \A i \in Plan.inline \cup Plan.body : Fp(i) \in Fingerprints
  <2>1. Plan.inline \cup Plan.body \subseteq DOMAIN session.cands
    BY <1>1, Assembling, Positions DEF Plan
  <2> QED
    BY <1>1, <2>1, Fingerprinted
<1>3. WholeOrNothing => \A i \in Plan.inline \ inline : Said(comments', Fp(i))
  BY <1>1, <1>2 DEF WorkOK
<1>4. WorkOK(work', Plan, comments')
  <2>1. work'.inline \subseteq Plan.inline /\ work'.body = Plan.body
    BY <1>1 DEF WorkOK
  <2>2. /\ work'.pc \in {"post", "note"}
        /\ work'.pc = "post" => Vcs = "gitlab"
        /\ work'.pc = "note" /\ Vcs = "gitlab" => work'.inline = {}
    BY <1>1 DEF WorkOK
  <2>3. \A fp \in work'.existing : fp \in Fingerprints /\ Said(comments', fp)
    BY <1>1 DEF WorkOK
  <2> QED
    BY <1>3, <2>1, <2>2, <2>3 DEF WorkOK
<1>5. WholeOrNothing => \A h \in history' : ~h.dry => Said(comments', h.fp)
  BY DEF PublishInv
<1> QED
  BY <1>4, <1>5, Step DEF PublishInv, Plan

\* A run that fails keeps what it put.
LEMMA GoneWrong ==
  ASSUME PublishInv, UNCHANGED <<setting, session, history>>,
         comments' \in Counts,
         \A fp \in Fingerprints : Said(comments, fp) => Said(comments', fp),
         work.pc \notin {"idle", "list"}, work' = Failed
  PROVE  PublishInv'
<1>1. WorkOK(work', Assembled(work'.existing), comments')
  BY FailedOK DEF PublishInv
<1>2. WholeOrNothing => \A h \in history' : ~h.dry => Said(comments', h.fp)
  BY DEF PublishInv
<1> QED
  BY <1>1, <1>2, Step DEF PublishInv

\* what a POST of a part of the work does to the comments
LEMMA Requests ==
  ASSUME PublishInv, work.pc \in {"post", "note"},
         NEW inline \in SUBSET work.inline, NEW body \in SUBSET work.body
  PROVE  /\ inline \in SUBSET DOMAIN session.cands
         /\ body \in SUBSET DOMAIN session.cands
         /\ Puts(inline, body) =>
              /\ comments' \in Counts
              /\ \A fp \in Fingerprints : Said(comments, fp) => Said(comments', fp)
              /\ \A i \in inline \cup body : Said(comments', Fp(i))
         /\ UNCHANGED comments =>
              /\ comments' \in Counts
              /\ \A fp \in Fingerprints : Said(comments, fp) => Said(comments', fp)
<1>1. WorkOK(work, Plan, comments) /\ SessionOK(session) /\ setting \in Settings
      /\ comments \in Counts
  BY DEF PublishInv
<1>2. work.inline \subseteq Plan.inline /\ work.body = Plan.body
  BY <1>1 DEF WorkOK
<1>3. Plan.inline \cup Plan.body \subseteq DOMAIN session.cands
  BY <1>1, Assembling, Positions DEF Plan
<1>4. inline \in SUBSET DOMAIN session.cands /\ body \in SUBSET DOMAIN session.cands
  BY <1>2, <1>3
<1> QED
  BY <1>1, <1>4, Put

\* one discussion on GitLab
LEMMA DiscussionStep ==
  ASSUME PublishInv, PostDiscussion
  PROVE  PublishInv'
<1>1. WorkOK(work, Plan, comments) /\ work.pc = "post" /\ Vcs = "gitlab"
  BY DEF PublishInv, PostDiscussion, WorkOK
<1>2. UNCHANGED <<setting, session, history>>
  BY DEF PostDiscussion
<1>3. PICK i \in work.inline :
        LET rest == work.inline \ {i}
            next == [Succeeded(IF rest = {} THEN "note" ELSE "post") EXCEPT !.inline = rest]
        IN  Post({i}, {}, next, next, Failed)
  BY DEF PostDiscussion
<1> DEFINE rest == work.inline \ {i}
<1>4. PICK next :
        next = [Succeeded(IF rest = {} THEN "note" ELSE "post") EXCEPT !.inline = rest]
  OBVIOUS
<1>5. Post({i}, {}, next, next, Failed)
  BY <1>3, <1>4
<1>6. /\ DOMAIN next = WorkFields /\ next.existing = work.existing
      /\ next.inline = rest /\ next.body = work.body
      /\ next.pc = work.pc \/ (next.pc = "note" /\ rest = {})
  BY <1>1, <1>4 DEF Succeeded, WorkOK, WorkFields
<1> HIDE DEF rest
<1>7. rest \subseteq work.inline /\ work.inline \ rest = {i}
  BY DEF rest
<1>8. /\ Puts({i}, {}) =>
           /\ comments' \in Counts
           /\ \A fp \in Fingerprints : Said(comments, fp) => Said(comments', fp)
           /\ Said(comments', Fp(i))
      /\ UNCHANGED comments =>
           /\ comments' \in Counts
           /\ \A fp \in Fingerprints : Said(comments, fp) => Said(comments', fp)
  BY <1>1, Requests
<1>9. CASE work' = next /\ Puts({i}, {})
  BY <1>1, <1>2, <1>6, <1>7, <1>8, <1>9, GoOn
<1>10. CASE work' = next /\ UNCHANGED comments /\ ~WholeOrNothing
  BY <1>1, <1>2, <1>6, <1>7, <1>8, <1>10, GoOn
<1>11. CASE Retry /\ (Puts({i}, {}) \/ UNCHANGED comments)
  <2>1. /\ DOMAIN work' = WorkFields /\ work'.existing = work.existing
        /\ work'.inline = work.inline /\ work'.body = work.body /\ work'.pc = work.pc
    BY <1>1, <1>11 DEF Retry, WorkOK, WorkFields
  <2> QED
    BY <1>1, <1>2, <1>8, <1>11, <2>1, GoOn
<1>12. CASE work' = Failed /\ (Puts({i}, {}) \/ UNCHANGED comments)
  BY <1>1, <1>2, <1>8, <1>12, GoneWrong
<1>13. Can("refused") \/ Can("busy") => ~WholeOrNothing
  BY <1>1 DEF WholeOrNothing
<1> QED
  BY <1>5, <1>9, <1>10, <1>11, <1>12, <1>13 DEF Post

\* the review on GitHub, the summary note on GitLab
LEMMA ReviewStep ==
  ASSUME PublishInv, PostReview
  PROVE  PublishInv'
<1> DEFINE inline == IF Vcs = "github" THEN work.inline ELSE {}
<1>1. WorkOK(work, Plan, comments) /\ SessionOK(session) /\ work.pc = "note"
  BY DEF PublishInv, PostReview
<1>2. UNCHANGED <<setting, session, history>>
  BY DEF PostReview
<1>3. Post(inline, work.body, Succeeded("record"), Failed, Failed)
  BY DEF PostReview
<1>4. Vcs \in {"github", "gitlab"}
  BY PublishAssumption DEF PublishInv, SettingOK, Vcs
<1>5. inline = work.inline /\ inline \subseteq Plan.inline /\ work.body = Plan.body
  BY <1>1, <1>4 DEF WorkOK
<1> HIDE DEF inline
<1>6. /\ Puts(inline, work.body) =>
           /\ comments' \in Counts
           /\ \A fp \in Fingerprints : Said(comments, fp) => Said(comments', fp)
           /\ \A i \in inline \cup work.body : Said(comments', Fp(i))
      /\ UNCHANGED comments =>
           /\ comments' \in Counts
           /\ \A fp \in Fingerprints : Said(comments, fp) => Said(comments', fp)
  BY <1>1, <1>5, Requests
<1>7. CASE work' = Succeeded("record") /\ Puts(inline, work.body)
  <2>1. /\ DOMAIN work' = WorkFields /\ work'.existing = work.existing
        /\ work'.inline = work.inline /\ work'.pc = "record"
    BY <1>1, <1>7 DEF Succeeded, WorkOK, WorkFields
  <2>2. \A i \in Plan.inline \cup Plan.body : Fp(i) \in Fingerprints
    <3>1. Plan.inline \cup Plan.body \subseteq DOMAIN session.cands
      BY <1>1, Assembling, Positions DEF Plan
    <3> QED
      BY <1>1, <3>1, Fingerprinted
  <2>3. WholeOrNothing => \A i \in Plan.inline \cup Plan.body : Said(comments', Fp(i))
    <3>1. WholeOrNothing => \A i \in Plan.inline \ work.inline : Said(comments, Fp(i))
      BY <1>1 DEF WorkOK
    <3> QED
      BY <1>5, <1>6, <1>7, <2>2, <3>1
  <2>6. \A fp \in work'.existing : fp \in Fingerprints /\ Said(comments', fp)
    BY <1>1, <1>6, <1>7, <2>1 DEF WorkOK
  <2>4. WorkOK(work', Plan, comments')
    BY <1>1, <1>5, <2>1, <2>3, <2>6 DEF WorkOK
  <2>5. WholeOrNothing => \A h \in history' : ~h.dry => Said(comments', h.fp)
    BY <1>2, <1>6, <1>7 DEF PublishInv
  <2> QED
    BY <1>2, <1>6, <1>7, <2>1, <2>4, <2>5, Step DEF PublishInv, Plan
<1>8. CASE Retry /\ (Puts(inline, work.body) \/ UNCHANGED comments)
  <2>1. /\ DOMAIN work' = WorkFields /\ work'.existing = work.existing
        /\ work'.inline = work.inline /\ work'.body = work.body /\ work'.pc = work.pc
    BY <1>1, <1>8 DEF Retry, WorkOK, WorkFields
  <2> QED
    BY <1>1, <1>2, <1>6, <1>8, <2>1, GoOn
<1>9. CASE work' = Failed /\ (Puts(inline, work.body) \/ UNCHANGED comments)
  BY <1>1, <1>2, <1>6, <1>9, GoneWrong
<1> QED
  BY <1>3, <1>7, <1>8, <1>9 DEF Post

\* What is recorded as published was planned.
LEMMA Accounted ==
  ASSUME SessionOK(session), NEW i \in DOMAIN session.cands,
         Outcome(i) \in {"published_inline", "published_summary"}
  PROVE  i \in Plan.inline \cup Plan.body
<1>1. /\ Plan.inline \cup Plan.body = {j \in Deduped : Fp(j) \notin work.existing}
      /\ Plan.inline \cup Plan.body \subseteq Kept /\ Kept \subseteq NotRejected
  BY Assembling DEF Plan
<1>2. Outcome(i) =
        CASE i \in session.rejected -> "verify_rejected"
          [] i \in NotRejected \ Kept -> "gate_dropped"
          [] i \in Kept \ Deduped -> "deduped"
          [] i \in Deduped /\ Fp(i) \in work.existing -> "already_posted"
          [] i \in Plan.inline -> "published_inline"
          [] OTHER -> "published_summary"
  BY DEF Outcome, Plan
<1> SUFFICES ASSUME i \notin Plan.inline \cup Plan.body PROVE FALSE
  OBVIOUS
<1>3. i \in session.rejected \/ i \in NotRejected
  BY DEF NotRejected
<1>4. NotRejected \cap session.rejected = {} /\ Deduped \subseteq Kept
  BY Assembling DEF NotRejected
<1>5. CASE i \in session.rejected
  BY <1>1, <1>2, <1>4, <1>5
<1>6. CASE i \in NotRejected \ Kept
  BY <1>1, <1>2, <1>4, <1>6
<1>7. CASE i \in Kept \ Deduped
  BY <1>1, <1>2, <1>4, <1>7
<1>8. CASE i \in Deduped /\ Fp(i) \in work.existing
  BY <1>1, <1>2, <1>4, <1>8
<1> QED
  BY <1>1, <1>3, <1>5, <1>6, <1>7, <1>8

\* What the history takes in as published was said.
LEMMA RecordStep ==
  ASSUME PublishInv, Record
  PROVE  PublishInv'
<1>1. /\ WorkOK(work, Plan, comments) /\ SessionOK(session) /\ work.pc = "record"
      /\ UNCHANGED <<setting, session, comments>> /\ work' = [work EXCEPT !.pc = "cleanup"]
  BY DEF PublishInv, Record
<1>2. /\ DOMAIN work' = WorkFields /\ work'.existing = work.existing
      /\ work'.inline = work.inline /\ work'.pc = "cleanup"
      /\ work'.dry = work.dry /\ work'.status = work.status
  BY <1>1 DEF WorkOK, WorkFields
<1>3. WorkOK(work', Plan, comments')
  BY <1>1, <1>2 DEF WorkOK
<1>4. ASSUME NEW h \in history', h \notin history
      PROVE  /\ h.fp \in Fingerprints
             /\ WholeOrNothing /\ ~h.dry => Said(comments, h.fp)
  <2>1. h \in {[fp |-> r.fp, dry |-> work.dry] : r \in {q \in Rows : q.published}}
    BY <1>4 DEF Record
  <2>2. PICK i \in DOMAIN Cands :
          /\ h = [fp |-> Fp(i), dry |-> work.dry] /\ work.status = "ok"
          /\ Outcome(i) \in {"published_inline", "published_summary"}
    BY <2>1 DEF Rows
  <2>3. i \in DOMAIN session.cands /\ h.fp = Fp(i) /\ h.dry = work.dry
    BY <2>2 DEF Cands
  <2>4. i \in Plan.inline \cup Plan.body
    BY <1>1, <2>2, <2>3, Accounted
  <2> QED
    BY <1>1, <2>2, <2>3, <2>4, Fingerprinted DEF WorkOK
<1>5. \A h \in history' : /\ h.fp \in Fingerprints
                          /\ WholeOrNothing /\ ~h.dry => Said(comments', h.fp)
  BY <1>1, <1>4 DEF PublishInv
<1> QED
  BY <1>1, <1>2, <1>3, <1>5, Step DEF PublishInv, Plan

\* before the first review
LEMMA PublishStart ==
  ASSUME PublishInit
  PROVE  PublishInv
<1>1. setting \in Settings /\ SessionOK(session) /\ history = {}
  BY CurrentOK DEF PublishInit, SessionOK, Unprepared
<1>2. MaxCount \in Nat
  BY <1>1, PublishAssumption DEF SettingOK, MaxCount
<1>3. comments \in Counts
  BY <1>2 DEF PublishInit, Counts
<1>4. DOMAIN work = WorkFields /\ work.pc = "idle" /\ work.inline = {}
  BY DEF PublishInit, NoWork, WorkFields
<1>5. WorkOK(work, Plan, comments)
  BY <1>4 DEF WorkOK
<1> QED
  BY <1>1, <1>3, <1>5 DEF PublishInv

\* every step of publish_review and of the session
LEMMA PublishSteps ==
  ASSUME PublishInv, [PublishNext]_publishing
  PROVE  PublishInv'
<1>1. CASE UNCHANGED publishing
  <2>1. WorkOK(work', Assembled(work'.existing), comments') /\ comments' \in Counts
    BY <1>1 DEF PublishInv, Plan, publishing
  <2> QED
    BY <1>1, <2>1, Step DEF PublishInv, publishing
<1>2. ASSUME NEW f \in Pool, Submit(<<f>>) PROVE PublishInv'
  <2>1. PICK fs : fs = <<f>>
    OBVIOUS
  <2>2. fs \in Seq(Pool)
    BY <2>1
  <2> QED
    BY <1>2, <2>1, <2>2, SubmitStep
<1>3. ASSUME NEW f \in Pool, NEW g \in Pool, Submit(<<f, g>>) PROVE PublishInv'
  <2>1. PICK fs : fs = <<f, g>>
    OBVIOUS
  <2>2. fs \in Seq(Pool)
    BY <2>1
  <2> QED
    BY <1>3, <2>1, <2>2, SubmitStep
<1>4. ASSUME NEW real \in BOOLEAN, SubmitVerdict(real) PROVE PublishInv'
  BY <1>4, VerdictStep
<1>5. CASE \/ PrepareReview \/ Cleanup \/ ServerDies
           \/ \E i \in 1..MaxCandidates : ReadCandidate(i)
           \/ \E dry \in BOOLEAN : PublishReview(dry)
  BY <1>5, CallStep
<1>6. CASE List
  BY <1>6, ListStep
<1>7. CASE GetDiff
  BY <1>7, GetStep
<1>8. CASE PostDiscussion
  BY <1>8, DiscussionStep
<1>9. CASE PostReview
  BY <1>9, ReviewStep
<1>10. CASE Record
  BY <1>10, RecordStep
<1> QED
  BY <1>1, <1>2, <1>3, <1>4, <1>5, <1>6, <1>7, <1>8, <1>9, <1>10 DEF PublishNext

\* A finding that the history has as published by a run that was not a dry one
\* is on the PR: a run that fails in publish_review records nothing as published,
\* and one that goes well has had every comment of its plan accepted.
THEOREM PublishedThere == PublishSpec => []PublishedIsThere
<1>1. PublishInv => PublishedIsThere
  BY DEF PublishInv, PublishedIsThere, Said
<1> QED
  BY <1>1, PublishStart, PublishSteps, PTL DEF PublishSpec

\* Suggestions replace lines of the diff that no other one of the review does,
\* and any other inline comment is on the diff and, if it quotes a text of the
\* file, at the text, whatever line the model named: ground_line goes to the
\* text, snap_to_commentable never leaves it, and assemble_review takes no
\* suggestion whose lines it has used.
THEOREM OnTarget == PublishSpec => []CommentsAreOnTarget
<1>1. ASSUME PublishInv, QuoteLines # {}, NEW i \in Kept, Cands[i].quote,
             SaneLine(Cands[i]) \in Commentable
      PROVE  Cands[i].line \in QuoteLines
  <2>1. SessionOK(session)
    BY <1>1 DEF PublishInv
  <2>2. i \in NotRejected /\ i \in DOMAIN session.cands
    BY <2>1, Deduplicated
  <2>3. PICK f \in Finding : f = session.cands[i]
    BY <2>1, <2>2, Fingerprinted
  <2>4. Cands[i] = Located(f)
    BY <2>1, <2>2, <2>3, Fingerprinted
  <2>5. f.quote
    BY <1>1, <2>4 DEF Located, Finding
  <2> QED
    BY <1>1, <2>4, <2>5, Hit
<1>2. ASSUME PublishInv PROVE CommentsAreOnTarget
  <2>1. SessionOK(session) /\ work.inline \subseteq Plan.inline
    BY <1>2 DEF PublishInv, WorkOK
  <2>2. Plan.inline \subseteq Kept /\ Aimed(Cands, Left, Plan)
    BY <2>1, Assembling DEF Plan
  <2>3. PICK plan : plan = Plan
    OBVIOUS
  <2>4. /\ \A i \in plan.applied : Span(Left[i]) # {} /\ Span(Left[i]) \subseteq Commentable
        /\ \A i, j \in plan.applied : i # j => Span(Left[i]) \cap Span(Left[j]) = {}
        /\ \A i \in plan.inline \ plan.applied : SaneLine(Cands[i]) \in Commentable
    BY <2>2, <2>3 DEF Aimed, OnDiff
  <2>5. ASSUME NEW i \in work.inline
        PROVE  \/ /\ i \in plan.applied
                  /\ Span(Left[i]) # {} /\ Span(Left[i]) \subseteq Commentable
                  /\ \A j \in plan.applied \ {i} : Span(Left[i]) \cap Span(Left[j]) = {}
               \/ /\ i \notin plan.applied
                  /\ SaneLine(Cands[i]) \in Commentable
                  /\ Cands[i].quote /\ QuoteLines # {} => Cands[i].line \in QuoteLines
    BY <1>1, <1>2, <2>1, <2>2, <2>3, <2>4
  <2>6. Assembled(work.existing).applied = plan.applied
    BY <2>3 DEF Plan
  <2> QED
    BY <2>5, <2>6 DEF CommentsAreOnTarget
<1> QED
  BY <1>2, PublishStart, PublishSteps, PTL DEF PublishSpec

-----------------------------------------------------------------------------
(* GitLab posts once                                                       *)

\* what GitLabPostsOnce asks for
Careful ==
  /\ Vcs = "gitlab" /\ NoLineInvented
  /\ ~Can("busy_but_done") /\ ~Can("list_error")

\* Nothing is there twice, and what the work is about to post is not there.
OnceInv ==
  Careful =>
    /\ session.cands \in Seq(Pool)
    /\ NothingPostedTwice
    /\ work.pc \in {"get", "post", "note"} =>
         \A i \in work.inline \cup work.body : ~Said(comments, Fp(i))

\* Two findings that deduplication keeps have two fingerprints.
LEMMA OneEach ==
  ASSUME NoLineInvented, SessionOK(session), session.cands \in Seq(Pool),
         NEW i \in Deduped, NEW j \in Deduped, Fp(i) = Fp(j)
  PROVE  i = j
<1>1. Kept \subseteq NotRejected /\ NotRejected \subseteq DOMAIN session.cands
  BY DEF Kept, NotRejected
<1>2. i \in Exact(Cands, Kept) /\ j \in Exact(Cands, Kept)
  BY Deduplicated
<1>3. ASSUME NEW k \in Exact(Cands, Kept)
      PROVE  /\ k \in Kept /\ k \in Nat
             /\ Cands[k].rank \in Nat
             /\ Fp(k) = <<Cands[k].line, Cands[k].msg>>
  <2>1. k \in Kept /\ k \in NotRejected /\ k \in DOMAIN session.cands
    BY <1>1 DEF Exact
  <2>2. PICK f \in Finding : f = session.cands[k] /\ Cands[k] = Located(f)
    BY <2>1, Fingerprinted
  <2>3. f \in Pool
    BY <2>1, <2>2
  <2>4. Cands[k].line \in 0..FileLines
    <3>1. f.line \in Nat /\ f.line <= FileLines /\ FileLines \in Nat
      BY <2>3, PipelineAssumption DEF NoLineInvented, Finding
    <3> QED
      BY <2>2, <3>1, Grounding
  <2>5. FileLines \in Nat /\ Rank \subseteq Nat
    BY PipelineAssumption
  <2>6. SaneLine(Cands[k]) = Cands[k].line
    BY <2>4, <2>5 DEF SaneLine
  <2>7. Cands[k].rank \in Nat
    BY <2>2, <2>5 DEF Located, Finding
  <2>8. k \in Nat
    BY <2>1 DEF SessionOK
  <2> QED
    BY <2>1, <2>6, <2>7, <2>8 DEF Fp, Fingerprint
<1>4. SameKey(Cands, i, j) /\ SameKey(Cands, j, i)
  BY <1>2, <1>3 DEF SameKey
<1> SUFFICES ASSUME i # j PROVE FALSE
  OBVIOUS
<1>5. i \in Kept \ {j} /\ j \in Kept \ {i}
  BY <1>2, <1>3
<1>6. Beats(Cands, i, j) /\ Beats(Cands, j, i)
  BY <1>2, <1>4, <1>5 DEF Exact
<1> QED
  BY <1>2, <1>3, <1>6 DEF Beats

\* A request with one place's comments, none of which is there
LEMMA PutOnce ==
  ASSUME setting \in Settings, SessionOK(session), comments \in Counts,
         NEW inline \in SUBSET DOMAIN session.cands,
         NEW body \in SUBSET DOMAIN session.cands,
         inline = {} \/ body = {},
         \A i, j \in inline \cup body : Fp(i) = Fp(j) => i = j,
         \A i \in inline \cup body : ~Said(comments, Fp(i)),
         NothingPostedTwice, Puts(inline, body)
  PROVE  /\ NothingPostedTwice'
         /\ \A fp \in Fingerprints :
              Said(comments', fp) => Said(comments, fp) \/ \E i \in inline \cup body : fp = Fp(i)
<1> DEFINE More(S, fp) == Cardinality({i \in S : Fp(i) = fp})
<1>1. MaxCount \in Nat
  BY PublishAssumption DEF SettingOK, MaxCount
<1>2. ASSUME NEW S \in SUBSET (inline \cup body), NEW fp
      PROVE  /\ More(S, fp) \in {0, 1}
             /\ More(S, fp) = 1 => \E i \in S : fp = Fp(i)
  <2>1. CASE {i \in S : Fp(i) = fp} = {}
    BY <2>1, FS_EmptySet
  <2>2. ASSUME NEW i \in S, Fp(i) = fp PROVE {j \in S : Fp(j) = fp} = {i}
    BY <2>2
  <2>3. ASSUME NEW i \in S, Fp(i) = fp PROVE More(S, fp) = 1
    BY <2>2, <2>3, FS_Singleton
  <2> QED
    BY <2>1, <2>3
<1>3. /\ More({}, 0) = More({}, 0)
      /\ \A fp : More({}, fp) = 0
  BY FS_EmptySet
<1>4. comments' = [comments EXCEPT
            !["inline"] = [fp \in Fingerprints |-> Counted(@[fp] + More(inline, fp))],
            !["body"] = [fp \in Fingerprints |-> Counted(@[fp] + More(body, fp))]]
  BY DEF Puts
<1> HIDE DEF More
<1>5. ASSUME NEW fp \in Fingerprints
      PROVE  /\ comments'["inline"][fp] = Counted(comments["inline"][fp] + More(inline, fp))
             /\ comments'["body"][fp] = Counted(comments["body"][fp] + More(body, fp))
             /\ comments["inline"][fp] \in 0..MaxCount /\ comments["body"][fp] \in 0..MaxCount
  BY <1>4 DEF Counts, Place
<1>6. \A n \in Nat : Counted(n) \in Nat /\ Counted(n) <= n
  BY <1>1 DEF Counted
<1>7. ASSUME NEW fp \in Fingerprints
      PROVE  /\ comments'["inline"][fp] + comments'["body"][fp] <= 1
             /\ Said(comments', fp) => Said(comments, fp) \/ \E i \in inline \cup body : fp = Fp(i)
  <2> DEFINE n == comments["inline"][fp]
             m == comments["body"][fp]
             p == More(inline, fp)
             q == More(body, fp)
  <2>1. n \in Nat /\ m \in Nat /\ n + m <= 1 /\ (~Said(comments, fp) <=> n = 0 /\ m = 0)
    BY <1>1, <1>5 DEF NothingPostedTwice, Said, Place
  <2>2. /\ p \in {0, 1} /\ q \in {0, 1} /\ (p = 0 \/ q = 0)
        /\ p = 1 => \E i \in inline : fp = Fp(i)
        /\ q = 1 => \E i \in body : fp = Fp(i)
    BY <1>2, <1>3
  <2>3. p = 1 \/ q = 1 => n = 0 /\ m = 0
    BY <2>1, <2>2
  <2> HIDE DEF n, m, p, q
  <2>4. /\ Counted(n + p) \in Nat /\ Counted(n + p) <= n + p
        /\ Counted(m + q) \in Nat /\ Counted(m + q) <= m + q
    BY <1>6, <2>1, <2>2
  <2>5. Counted(n + p) + Counted(m + q) <= 1
    BY <2>1, <2>2, <2>3, <2>4
  <2>6. Counted(n + p) > 0 \/ Counted(m + q) > 0 => n > 0 \/ m > 0 \/ p = 1 \/ q = 1
    BY <2>1, <2>2, <2>4
  <2>7. /\ comments'["inline"][fp] = Counted(n + p)
        /\ comments'["body"][fp] = Counted(m + q)
    BY <1>5 DEF n, m, p, q
  <2>8. n > 0 \/ m > 0 => Said(comments, fp)
    BY DEF n, m, Said, Place
  <2> QED
    BY <2>2, <2>5, <2>6, <2>7, <2>8 DEF Said, Place
<1> QED
  BY <1>7 DEF NothingPostedTwice

\* A comment has one place, and no fingerprint of those that are there.
LEMMA Planned ==
  ASSUME SessionOK(session), NEW existing
  PROVE  LET plan == Assembled(existing)
         IN  /\ plan.inline \cup plan.body \subseteq Deduped
             /\ plan.inline \cup plan.body \subseteq DOMAIN session.cands
             /\ plan.inline \cap plan.body = {}
             /\ \A i \in plan.inline \cup plan.body :
                  Fp(i) \in Fingerprints /\ Fp(i) \notin existing
<1> DEFINE plan == Assembled(existing)
<1>2. /\ plan.inline \cup plan.body = {i \in Deduped : Fp(i) \notin existing}
      /\ plan.inline \cap plan.body = {}
      /\ plan.inline \cup plan.body \subseteq Kept
  BY Assembling
<1> HIDE DEF plan
<1>3. plan.inline \cup plan.body \subseteq DOMAIN session.cands
  BY <1>2, Positions
<1>4. \A i \in plan.inline \cup plan.body : Fp(i) \in Fingerprints
  BY <1>3, Fingerprinted
<1> QED
  BY <1>2, <1>3, <1>4 DEF plan

\* A step that puts nothing twice and leaves to be posted only what is not there
LEMMA OnceStep ==
  ASSUME OnceInv, setting' = setting,
         Careful =>
           /\ session'.cands \in Seq(Pool)
           /\ NothingPostedTwice'
           /\ work'.pc \in {"get", "post", "note"} =>
                /\ session' = session
                /\ \A i \in work'.inline \cup work'.body : ~Said(comments', Fp(i))
  PROVE  OnceInv'
<1>1. Careful' = Careful /\ Pool' = Pool
  BY DEF Careful, Vcs, NoLineInvented, Pool, Can
<1>2. session' = session => \A i : Fp(i)' = Fp(i)
  BY Same
<1>3. \A fp : Said(comments, fp)' = Said(comments', fp)
  BY DEF Said
<1> QED
  BY <1>1, <1>2, <1>3 DEF OnceInv

\* On GitLab all notes are seen.
LEMMA OnceList ==
  ASSUME PublishInv, OnceInv, List
  PROVE  OnceInv'
<1>1. PICK existing \in {Visible} \cup (IF Can("list_error") THEN {{}} ELSE {}) :
        LET asm == Assembled(existing) IN
        work' = [work EXCEPT
          !.existing = existing, !.inline = asm.inline, !.body = asm.body,
          !.pc = IF work.dry THEN "record"
                 ELSE IF Vcs = "github" THEN "note"
                 ELSE IF asm.inline # {} THEN "get" ELSE "note"]
  BY DEF List
<1>2. PICK plan : plan = Assembled(existing)
  OBVIOUS
<1>3. work'.inline = plan.inline /\ work'.body = plan.body
  BY <1>1, <1>2 DEF PublishInv, WorkOK, WorkFields
<1>4. \A i \in plan.inline \cup plan.body : Fp(i) \in Fingerprints /\ Fp(i) \notin existing
  BY <1>2, Planned DEF PublishInv
<1>5. UNCHANGED <<setting, session, comments>>
  BY DEF List
<1>6. ASSUME Careful, NEW i \in plan.inline \cup plan.body
      PROVE  ~Said(comments, Fp(i))
  <2>1. existing = Visible /\ Vcs = "gitlab"
    BY <1>6 DEF Careful
  <2> QED
    BY <1>4, <2>1 DEF Visible, Said, Place
<1>7. NothingPostedTwice' = NothingPostedTwice
  BY <1>5 DEF NothingPostedTwice
<1> QED
  BY <1>3, <1>5, <1>6, <1>7, OnceStep DEF OnceInv

\* The request of these comments, on the way to the next
LEMMA OncePosted ==
  ASSUME PublishInv, OnceInv, Careful, work.pc \in {"post", "note"},
         UNCHANGED <<setting, session>>,
         NEW inline \in SUBSET work.inline, NEW body \in SUBSET work.body,
         inline = {} \/ body = {},
         Puts(inline, body) \/ UNCHANGED comments
  PROVE  /\ NothingPostedTwice'
         /\ \A j \in (work.inline \cup work.body) \ (inline \cup body) :
              ~Said(comments', Fp(j))
<1>1. /\ WorkOK(work, Plan, comments) /\ SessionOK(session) /\ setting \in Settings
      /\ comments \in Counts
  BY DEF PublishInv
<1>2. /\ session.cands \in Seq(Pool) /\ NothingPostedTwice /\ NoLineInvented
      /\ \A j \in work.inline \cup work.body : ~Said(comments, Fp(j))
  BY DEF OnceInv, Careful
<1>3. work.inline \cup work.body \subseteq Plan.inline \cup Plan.body
  BY <1>1 DEF WorkOK
<1>4. /\ work.inline \cup work.body \subseteq Deduped
      /\ work.inline \cup work.body \subseteq DOMAIN session.cands
      /\ \A j \in work.inline \cup work.body : Fp(j) \in Fingerprints
  BY <1>1, <1>3, Planned DEF Plan
<1>5. \A i, j \in work.inline \cup work.body : Fp(i) = Fp(j) => i = j
  BY <1>1, <1>2, <1>4, OneEach
<1>6. CASE UNCHANGED comments
  BY <1>2, <1>6 DEF NothingPostedTwice
<1>7. CASE Puts(inline, body)
  <2>1. /\ inline \in SUBSET DOMAIN session.cands
        /\ body \in SUBSET DOMAIN session.cands
        /\ \A i, j \in inline \cup body : Fp(i) = Fp(j) => i = j
        /\ \A i \in inline \cup body : ~Said(comments, Fp(i))
    BY <1>2, <1>4, <1>5
  <2>2. /\ NothingPostedTwice'
        /\ \A fp \in Fingerprints :
             Said(comments', fp) => Said(comments, fp) \/ \E i \in inline \cup body : fp = Fp(i)
    BY <1>1, <1>2, <1>7, <2>1, PutOnce
  <2>3. ASSUME NEW j \in (work.inline \cup work.body) \ (inline \cup body)
        PROVE  ~Said(comments', Fp(j))
    BY <1>2, <1>4, <1>5, <2>2
  <2> QED
    BY <2>2, <2>3
<1> QED
  BY <1>6, <1>7

\* one discussion, whatever the answer
LEMMA OnceDiscussion ==
  ASSUME PublishInv, OnceInv, PostDiscussion
  PROVE  OnceInv'
<1>1. WorkOK(work, Plan, comments) /\ work.pc = "post" /\ SessionOK(session)
  BY DEF PublishInv, PostDiscussion
<1>2. UNCHANGED <<setting, session>>
  BY DEF PostDiscussion
<1>3. PICK i \in work.inline :
        LET rest == work.inline \ {i}
            next == [Succeeded(IF rest = {} THEN "note" ELSE "post") EXCEPT !.inline = rest]
        IN  Post({i}, {}, next, next, Failed)
  BY DEF PostDiscussion
<1>4. PICK next :
        /\ next = [Succeeded(IF work.inline \ {i} = {} THEN "note" ELSE "post")
                   EXCEPT !.inline = work.inline \ {i}]
        /\ Post({i}, {}, next, next, Failed)
  BY <1>3
<1>5. /\ next.inline = work.inline \ {i} /\ next.body = work.body
      /\ Failed.pc = "record"
  BY <1>1, <1>4 DEF Succeeded, Failed, WorkOK, WorkFields
<1>6. Puts({i}, {}) \/ UNCHANGED comments
  BY <1>4 DEF Post
<1>7. i \notin work.body
  <2>1. Plan.inline \cap Plan.body = {}
    BY <1>1, Planned DEF Plan
  <2> QED
    BY <1>1, <2>1 DEF WorkOK
<1>8. ASSUME Careful
      PROVE  /\ NothingPostedTwice'
             /\ \A j \in (work.inline \cup work.body) \ {i} : ~Said(comments', Fp(j))
  <2>1. {i} \in SUBSET work.inline /\ {} \in SUBSET work.body
    OBVIOUS
  <2>2. /\ NothingPostedTwice'
        /\ \A j \in (work.inline \cup work.body) \ ({i} \cup {}) : ~Said(comments', Fp(j))
    BY <1>1, <1>2, <1>6, <1>8, <2>1, OncePosted
  <2> QED
    BY <2>2
<1>9. ASSUME Careful, work'.pc \in {"get", "post", "note"}
      PROVE  \A j \in work'.inline \cup work'.body : ~Said(comments', Fp(j))
  <2>1. CASE work' = next
    BY <1>5, <1>7, <1>8, <1>9, <2>1
  <2>2. CASE Retry /\ UNCHANGED comments
    <3>1. work'.inline = work.inline /\ work'.body = work.body
      BY <1>1, <2>2 DEF Retry, WorkOK, WorkFields
    <3> QED
      BY <1>1, <1>9, <2>2, <3>1 DEF OnceInv
  <2>3. CASE work' = Failed
    BY <1>5, <1>9, <2>3
  <2>4. ~Can("busy_but_done")
    BY <1>9 DEF Careful
  <2> QED
    BY <1>4, <2>1, <2>2, <2>3, <2>4 DEF Post
<1> QED
  BY <1>2, <1>8, <1>9, OnceStep DEF OnceInv

\* the summary note, whatever the answer
LEMMA OnceReview ==
  ASSUME PublishInv, OnceInv, PostReview
  PROVE  OnceInv'
<1>1. WorkOK(work, Plan, comments) /\ work.pc = "note"
  BY DEF PublishInv, PostReview
<1>2. UNCHANGED <<setting, session>>
  BY DEF PostReview
<1>3. Failed.pc = "record" /\ Succeeded("record").pc = "record"
  BY <1>1 DEF Succeeded, Failed, WorkOK, WorkFields
<1>4. ASSUME Careful
      PROVE  Post({}, work.body, Succeeded("record"), Failed, Failed)
  <2>1. Vcs # "github"
    BY <1>4 DEF Careful
  <2> QED
    BY <2>1 DEF PostReview
<1>5. ASSUME Careful PROVE NothingPostedTwice'
  <2>1. Puts({}, work.body) \/ UNCHANGED comments
    BY <1>4, <1>5 DEF Post
  <2>2. {} \in SUBSET work.inline /\ work.body \in SUBSET work.body
    OBVIOUS
  <2> QED
    BY <1>1, <1>2, <1>5, <2>1, <2>2, OncePosted
<1>6. ASSUME Careful, work'.pc \in {"get", "post", "note"}
      PROVE  \A j \in work'.inline \cup work'.body : ~Said(comments', Fp(j))
  <2>1. Retry /\ UNCHANGED comments
    BY <1>3, <1>4, <1>6 DEF Post, Careful
  <2>2. work'.inline = work.inline /\ work'.body = work.body
    BY <1>1, <2>1 DEF Retry, WorkOK, WorkFields
  <2> QED
    BY <1>1, <1>6, <2>1, <2>2 DEF OnceInv
<1> QED
  BY <1>2, <1>5, <1>6, OnceStep DEF OnceInv

\* The steps that post nothing and have nothing to post
LEMMA OnceCalls ==
  ASSUME PublishInv, OnceInv, UNCHANGED <<setting, comments>>,
         \/ UNCHANGED session
         \/ session' = Unprepared \/ session' = Fresh0 \/ session' = Current
         \/ \E S : session' = [Current EXCEPT !.rejected = S]
         \/ \E fs \in Seq(Pool) : session' = [Current EXCEPT !.cands = @ \o fs],
         work'.pc \notin {"get", "post", "note"}
  PROVE  OnceInv'
<1>1. NothingPostedTwice' = NothingPostedTwice
  BY DEF NothingPostedTwice
<1>2. ASSUME Careful PROVE session'.cands \in Seq(Pool)
  <2>1. PICK current : current = Current
    OBVIOUS
  <2>2. /\ current.cands \in Seq(Pool) /\ DOMAIN current = {"there", "cands", "rejected"}
        /\ session.cands \in Seq(Pool)
    BY <1>2, <2>1 DEF OnceInv, PublishInv, SessionOK, Current, Fresh0
  <2>3. Fresh0.cands = << >> /\ Unprepared.cands = << >>
    BY DEF Fresh0, Unprepared
  <2>4. CASE \E S : session' = [Current EXCEPT !.rejected = S]
    BY <2>1, <2>2, <2>4
  <2>5. CASE \E fs \in Seq(Pool) : session' = [Current EXCEPT !.cands = @ \o fs]
    <3>1. PICK fs \in Seq(Pool) : session' = [current EXCEPT !.cands = @ \o fs]
      BY <2>1, <2>5
    <3>2. session'.cands = current.cands \o fs
      BY <2>2, <3>1
    <3> QED
      BY <2>2, <3>2
  <2>6. CASE UNCHANGED session
    BY <2>2, <2>6
  <2>7. CASE session' = Unprepared \/ session' = Fresh0
    <3>1. << >> \in Seq(Pool)
      OBVIOUS
    <3> QED
      BY <2>3, <2>7, <3>1
  <2>8. CASE session' = Current
    BY <2>1, <2>2, <2>8
  <2> QED
    BY <2>4, <2>5, <2>6, <2>7, <2>8
<1> QED
  BY <1>1, <1>2, OnceStep DEF OnceInv

\* every step posts once
LEMMA OnceSteps ==
  ASSUME PublishInv, OnceInv, [PublishNext]_publishing
  PROVE  OnceInv'
<1>0. /\ DOMAIN work = WorkFields
      /\ NoWork.pc = "idle" /\ Failed.pc = "record"
      /\ \A dry : [NoWork EXCEPT !.pc = "list", !.dry = dry].pc = "list"
  BY DEF PublishInv, WorkOK, WorkFields, NoWork, Failed
<1>1. CASE UNCHANGED publishing
  <2>1. session' = session => \A i : Fp(i)' = Fp(i)
    BY <1>1, Same DEF publishing
  <2>2. NothingPostedTwice' = NothingPostedTwice
    BY <1>1 DEF publishing, NothingPostedTwice
  <2> QED
    BY <1>1, <2>2, OnceStep DEF publishing, OnceInv
<1>2. CASE \/ PrepareReview \/ Cleanup \/ ServerDies
           \/ \E i \in 1..MaxCandidates : ReadCandidate(i)
           \/ \E dry \in BOOLEAN : PublishReview(dry)
  BY <1>0, <1>2, OnceCalls
     DEF PrepareReview, Cleanup, ServerDies, ReadCandidate, PublishReview, NotPublishing
<1>3. ASSUME NEW fs \in Seq(Pool), Submit(fs) PROVE OnceInv'
  BY <1>3, OnceCalls DEF Submit, NotPublishing
<1>4. ASSUME NEW f \in Pool, Submit(<<f>>) PROVE OnceInv'
  <2>1. PICK fs : fs = <<f>>
    OBVIOUS
  <2>2. fs \in Seq(Pool)
    BY <2>1
  <2> QED
    BY <1>3, <1>4, <2>1, <2>2
<1>5. ASSUME NEW f \in Pool, NEW g \in Pool, Submit(<<f, g>>) PROVE OnceInv'
  <2>1. PICK fs : fs = <<f, g>>
    OBVIOUS
  <2>2. fs \in Seq(Pool)
    BY <2>1
  <2> QED
    BY <1>3, <1>5, <2>1, <2>2
<1>6. ASSUME NEW real \in BOOLEAN, SubmitVerdict(real) PROVE OnceInv'
  <2>1. session' = Current \/ \E S : session' = [Current EXCEPT !.rejected = S]
    BY <1>6 DEF SubmitVerdict
  <2> QED
    BY <1>0, <1>6, <2>1, OnceCalls DEF SubmitVerdict, NotPublishing
<1>7. CASE GetDiff
  <2>1. CASE work' = [work EXCEPT !.pc = "post"]
    <3>1. work'.inline = work.inline /\ work'.body = work.body
      BY <1>0, <2>1 DEF WorkFields
    <3>2. NothingPostedTwice' = NothingPostedTwice
      BY <1>7 DEF GetDiff, NothingPostedTwice
    <3> QED
      BY <1>7, <3>1, <3>2, OnceStep DEF GetDiff, OnceInv
  <2>2. CASE work' = Failed
    BY <1>0, <1>7, <2>2, OnceCalls DEF GetDiff
  <2> QED
    BY <1>7, <2>1, <2>2 DEF GetDiff
<1>8. CASE Record
  <2>1. work'.pc = "cleanup"
    BY <1>0, <1>8 DEF Record, WorkFields
  <2> QED
    BY <1>8, <2>1, OnceCalls DEF Record
<1> QED
  BY <1>1, <1>2, <1>4, <1>5, <1>6, <1>7, <1>8, OnceList, OnceDiscussion, OnceReview
     DEF PublishNext

\* On GitLab nothing is posted twice, through refusals, timeouts, crashes and
\* repetitions of publish_review.
THEOREM PostsOnce == PublishSpec => []GitLabPostsOnce
<1>1. PublishInit => OnceInv
  <2> SUFFICES ASSUME PublishInit PROVE OnceInv
    OBVIOUS
  <2>1. session.cands = << >> /\ work.pc = "idle"
    BY DEF PublishInit, Unprepared, NoWork
  <2>2. NothingPostedTwice
    BY DEF PublishInit, NothingPostedTwice, Place
  <2> QED
    BY <2>1, <2>2 DEF OnceInv
<1>2. OnceInv => GitLabPostsOnce
  BY DEF OnceInv, Careful, GitLabPostsOnce
<1>3. PublishInv /\ OnceInv /\ [PublishNext]_publishing => PublishInv' /\ OnceInv'
  BY PublishSteps, OnceSteps
<1> QED
  BY <1>1, <1>2, <1>3, PublishStart, PTL DEF PublishSpec

\* dedup_findings leaves no two that it would call the same, and for each one it
\* drops keeps one with the text that ranks no lower, and that has a fix if the
\* one dropped had: the winner of each comparison takes the loser's over.
THEOREM DedupSound == PublishSpec => []DedupIsSound
<1>1. ASSUME PublishInv PROVE DedupIsSound
  <2> DEFINE own == [i \in Kept |-> Cands[i].fix]
  <2>1. /\ DOMAIN Left \subseteq Kept /\ Covers(Cands, own, Left)
        /\ \A i, j \in DOMAIN Left : i # j => ~Alike(Cands, Left, i, j)
    BY <1>1, Deduplicated DEF PublishInv, Deduped
  <2>2. DOMAIN own = Kept /\ \A i \in Kept : own[i] = Cands[i].fix
    OBVIOUS
  <2> HIDE DEF own
  <2>3. \A i \in Kept : \E j \in DOMAIN Left :
          /\ Cands[j].msg = Cands[i].msg /\ Cands[j].rank >= Cands[i].rank
          /\ Cands[i].fix # NoFix => Left[j] # NoFix
    BY <2>1, <2>2 DEF Covers
  <2>4. \A i, j \in DOMAIN Left : (i # j /\ Cands[i].msg = Cands[j].msg) => ~Near(Cands, i, j)
    BY <2>1 DEF Alike
  <2> QED
    BY <2>1, <2>3, <2>4 DEF DedupIsSound
<1> QED
  BY <1>1, PublishStart, PublishSteps, PTL DEF PublishSpec

\* When publish_review reports success, every finding that verifier and policy
\* let pass is said on the PR.
THEOREM NothingLost == PublishSpec => []NothingKeptIsLost
<1>1. ASSUME PublishInv, WholeOrNothing, work.pc \in {"record", "cleanup"},
             work.status = "ok", ~work.dry, NEW i \in Kept
      PROVE  \E line \in 0..FileLines, pl \in Place : comments[pl][<<line, Cands[i].msg>>] > 0
  <2>1. SessionOK(session) /\ WorkOK(work, Plan, comments)
    BY <1>1 DEF PublishInv
  <2>2. PICK j \in Deduped : Cands[j].msg = Cands[i].msg
    BY <2>1, Deduplicated DEF Covers, Deduped
  <2>3. Said(comments, Fp(j))
    <3>1. CASE Fp(j) \in work.existing
      BY <1>1, <2>1, <3>1 DEF WorkOK
    <3>2. CASE Fp(j) \notin work.existing
      <4>1. j \in Plan.inline \cup Plan.body
        BY <2>1, <3>2, Assembling DEF Plan
      <4> QED
        BY <1>1, <2>1, <4>1 DEF WorkOK
    <3> QED
      BY <3>1, <3>2
  <2>4. j \in DOMAIN session.cands
    BY <2>1, Deduplicated
  <2>5. Fp(j) \in Fingerprints /\ Fp(j) = <<SaneLine(Cands[j]), Cands[i].msg>>
    BY <2>1, <2>2, <2>4, Fingerprinted DEF Fp, Fingerprint
  <2>6. SaneLine(Cands[j]) \in 0..FileLines
    BY <2>5 DEF Fingerprints
  <2> QED
    BY <2>3, <2>5, <2>6 DEF Said
<1>2. PublishInv => NothingKeptIsLost
  BY <1>1 DEF NothingKeptIsLost
<1> QED
  BY <1>2, PublishStart, PublishSteps, PTL DEF PublishSpec

-----------------------------------------------------------------------------
(* Searches: lists                                                         *)

\* a function on 1..n is a list
LEMMA MakesList ==
  ASSUME NEW S, NEW n \in Nat, NEW f \in [1..n -> S]
  PROVE  f \in Seq(S) /\ Len(f) = n /\ DOMAIN f = 1..n
OBVIOUS

\* what comes before what in a sorted list
Earlier(key, x, y) == key[x] < key[y] \/ (key[x] = key[y] /\ x < y)

\* Sorting numbers the elements from 1 to as many as there are.
LEMMA SortedFacts ==
  ASSUME NEW E \in SUBSET Nat, IsFiniteSet(E), NEW key \in [E -> Int]
  PROVE  LET s == Sorted(E, key) IN
         /\ s \in Seq(E) /\ Len(s) = Cardinality(E) /\ Len(s) \in Nat
         /\ DOMAIN s = 1..Len(s)
         /\ \A n \in 1..Len(s) : s[n] \in E
         /\ \A i \in E : \E n \in 1..Len(s) : s[n] = i
         /\ \A m, n \in 1..Len(s) : m < n => Earlier(key, s[m], s[n])
         /\ \A m, n \in 1..Len(s) : s[m] = s[n] => m = n
<1> DEFINE Under(i) == {j \in E : Earlier(key, j, i)}
           N == Cardinality(E)
<1>1. N \in Nat
  BY FS_CardinalityType
<1>2. \A i \in E : IsFiniteSet(Under(i)) /\ Cardinality(Under(i)) \in Nat
  BY FS_Subset, FS_CardinalityType
<1>0. \A i \in E : i \in Nat /\ key[i] \in Int
  OBVIOUS
<1>3. \A i, j, k \in E : Earlier(key, i, j) /\ Earlier(key, j, k) => Earlier(key, i, k)
  BY <1>0 DEF Earlier
<1>4. \A i, j \in E : i # j => Earlier(key, i, j) \/ Earlier(key, j, i)
  <2> TAKE i, j \in E
  <2>1. i \in Nat /\ j \in Nat /\ key[i] \in Int /\ key[j] \in Int
    BY <1>0
  <2> QED
    BY <2>1 DEF Earlier
<1>5. \A i \in E : ~Earlier(key, i, i)
  BY <1>0 DEF Earlier
<1>6. ASSUME NEW i \in E, NEW j \in E, Earlier(key, i, j)
      PROVE  Cardinality(Under(i)) < Cardinality(Under(j))
  <2>1. Under(i) \subseteq Under(j) /\ i \in Under(j) /\ i \notin Under(i)
    BY <1>3, <1>5, <1>6
  <2>2. IsFiniteSet(Under(j)) /\ Under(i) # Under(j) /\ Under(i) \in SUBSET Under(j)
    BY <1>2, <2>1
  <2> HIDE DEF Under
  <2>3. Cardinality(Under(i)) <= Cardinality(Under(j))
        /\ Cardinality(Under(i)) # Cardinality(Under(j))
    BY <2>2, FS_Subset
  <2> QED
    BY <1>2, <2>3
<1>7. ASSUME NEW i \in E PROVE Cardinality(Under(i)) \in 0..(N - 1)
  <2>1. Under(i) \in SUBSET E /\ Under(i) # E
    BY <1>5
  <2> HIDE DEF Under
  <2>2. Cardinality(Under(i)) <= N /\ Cardinality(Under(i)) # N
    BY <2>1, FS_Subset
  <2> QED
    BY <1>1, <1>2, <2>2
<1> DEFINE rank == [i \in E |-> Cardinality(Under(i))]
<1>8. rank \in Injection(E, 0..(N - 1))
  <2>1. rank \in [E -> 0..(N - 1)]
    BY <1>7
  <2>2. \A i, j \in E : rank[i] = rank[j] => i = j
    <3> SUFFICES ASSUME NEW i \in E, NEW j \in E, i # j PROVE rank[i] # rank[j]
      OBVIOUS
    <3>1. rank[i] \in Nat /\ rank[j] \in Nat
      BY <1>2
    <3>2. Earlier(key, i, j) \/ Earlier(key, j, i)
      BY <1>4
    <3> QED
      BY <1>6, <3>1, <3>2
  <2> HIDE DEF rank
  <2> QED
    BY <2>1, <2>2 DEF Injection, IsInjective
<1>9. rank \in Surjection(E, 0..(N - 1))
  <2>1. IsFiniteSet(0..(N - 1)) /\ Cardinality(0..(N - 1)) = N
    <3> HIDE DEF N
    <3>1. 0 \in Int /\ N - 1 \in Int
      BY <1>1
    <3>2. /\ IsFiniteSet(0..(N - 1))
          /\ Cardinality(0..(N - 1)) = IF 0 > N - 1 THEN 0 ELSE (N - 1) - 0 + 1
      BY <3>1, FS_Interval
    <3> QED
      BY <1>1, <3>2
  <2> HIDE DEF rank
  <2> QED
    BY <1>8, <2>1, FS_Injection
<1>10. \A r \in 0..(N - 1) : \E i \in E : rank[i] = r
  <2> HIDE DEF rank
  <2> QED
    BY <1>9 DEF Surjection
<1>11. \A i, j \in E : rank[i] = rank[j] => i = j
  <2> HIDE DEF rank
  <2> QED
    BY <1>8 DEF Injection, IsInjective
<1> DEFINE s == Sorted(E, key)
<1>12. ASSUME NEW n \in 1..N PROVE s[n] \in E /\ rank[s[n]] = n - 1
  <2>1. s[n] = CHOOSE i \in E : Cardinality(Under(i)) = n - 1
    BY DEF Sorted, Earlier
  <2>2. \E i \in E : Cardinality(Under(i)) = n - 1
    BY <1>1, <1>10
  <2>3. s[n] \in E /\ Cardinality(Under(s[n])) = n - 1
    <3> HIDE DEF Under, s
    <3> QED
      BY <2>1, <2>2
  <2> QED
    BY <2>3
<1> DEFINE pick(n) == CHOOSE i \in E : Cardinality(Under(i)) = n - 1
<1>15. s = [n \in 1..N |-> pick(n)]
  BY DEF Sorted, Earlier
<1>16. \A i, j \in E : rank[i] < rank[j] => Earlier(key, i, j)
  <2> SUFFICES ASSUME NEW i \in E, NEW j \in E, rank[i] < rank[j]
               PROVE  Earlier(key, i, j)
    OBVIOUS
  <2>1. rank[i] \in Nat /\ rank[j] \in Nat
    BY <1>2
  <2>2. i # j
    BY <2>1
  <2>3. Earlier(key, j, i) => rank[j] < rank[i]
    BY <1>6
  <2> QED
    BY <1>4, <2>1, <2>2, <2>3
<1> HIDE DEF s, rank, pick
<1>17. s \in [1..N -> E]
  BY <1>12, <1>15
<1>18. s \in Seq(E) /\ Len(s) = N /\ DOMAIN s = 1..N
  BY <1>1, <1>17, MakesList
<1>13. ASSUME NEW i \in E PROVE \E n \in 1..N : s[n] = i
  <2>1. rank[i] \in 0..(N - 1)
    BY <1>8 DEF Injection
  <2>2. rank[i] + 1 \in 1..N /\ (rank[i] + 1) - 1 = rank[i]
    BY <1>1, <2>1
  <2>3. s[rank[i] + 1] \in E /\ rank[s[rank[i] + 1]] = rank[i]
    BY <1>12, <2>2
  <2> QED
    BY <1>11, <2>2, <2>3
<1>14. \A n, m \in 1..N : s[n] = s[m] => n = m
  BY <1>1, <1>12
<1>19. \A m, n \in 1..N : m < n => Earlier(key, s[m], s[n])
  <2> TAKE m, n \in 1..N
  <2>1. m < n => rank[s[m]] < rank[s[n]]
    BY <1>1, <1>12
  <2> QED
    BY <1>12, <1>16, <2>1
<1> QED
  BY <1>1, <1>12, <1>13, <1>14, <1>18, <1>19 DEF s

\* Numbers in ascending order
LEMMA AscendingFacts ==
  ASSUME NEW E \in SUBSET Nat, IsFiniteSet(E)
  PROVE  LET s == Ascending(E) IN
         /\ s \in Seq(E) /\ Len(s) = Cardinality(E) /\ Len(s) \in Nat
         /\ DOMAIN s = 1..Len(s)
         /\ \A n \in 1..Len(s) : s[n] \in E
         /\ \A i \in E : \E n \in 1..Len(s) : s[n] = i
         /\ \A m, n \in 1..Len(s) : m < n => s[m] < s[n]
         /\ \A m, n \in 1..Len(s) : s[m] = s[n] => m = n
<1> DEFINE key == [x \in E |-> 0]
<1>1. key \in [E -> Int] /\ \A x \in E : key[x] = 0
  OBVIOUS
<1>2. Ascending(E) = Sorted(E, key)
  BY DEF Ascending
<1> HIDE DEF key
<1>3. PICK s : s = Sorted(E, key)
  OBVIOUS
<1>4. /\ s \in Seq(E) /\ Len(s) = Cardinality(E) /\ Len(s) \in Nat
      /\ DOMAIN s = 1..Len(s)
      /\ \A n \in 1..Len(s) : s[n] \in E
      /\ \A i \in E : \E n \in 1..Len(s) : s[n] = i
      /\ \A m, n \in 1..Len(s) : m < n => Earlier(key, s[m], s[n])
      /\ \A m, n \in 1..Len(s) : s[m] = s[n] => m = n
  BY ONLY <1>1, <1>3, SortedFacts, E \in SUBSET Nat, IsFiniteSet(E)
<1>5. \A m, n \in 1..Len(s) : m < n => s[m] < s[n]
  <2> TAKE m, n \in 1..Len(s)
  <2>1. s[m] \in E /\ s[n] \in E /\ (m < n => Earlier(key, s[m], s[n]))
    BY <1>4
  <2>2. key[s[m]] = 0 /\ key[s[n]] = 0
    BY <1>1, <2>1
  <2> QED
    BY <2>1, <2>2 DEF Earlier
<1> QED
  BY ONLY <1>2, <1>3, <1>4, <1>5

\* The first numbers in ascending order are each at its own place.
LEMMA AscendingInterval ==
  ASSUME NEW m \in Nat
  PROVE  Ascending(1..m) = [i \in 1..m |-> i]
<1>1. Cardinality(1..m) = m /\ IsFiniteSet(1..m)
  BY FS_Interval
<1>2. ASSUME NEW x \in 1..m PROVE Cardinality({y \in 1..m : y < x}) = x - 1
  <2> DEFINE S == {y \in 1..m : y < x}
  <2>1. S = 1..(x - 1)
    OBVIOUS
  <2>2. Cardinality(1..(x - 1)) = IF 1 > x - 1 THEN 0 ELSE (x - 1) - 1 + 1
    <3>1. x - 1 \in Int /\ 1 \in Int
      OBVIOUS
    <3> QED
      BY <3>1, FS_Interval
  <2>3. Cardinality(1..(x - 1)) = x - 1
    BY <2>2
  <2> HIDE DEF S
  <2>4. Cardinality(S) = x - 1
    BY <2>1, <2>3
  <2> QED
    BY <2>4 DEF S
<1> DEFINE key == [x \in 1..m |-> 0]
<1>4. \A x \in 1..m : {y \in 1..m : key[y] < key[x] \/ (key[y] = key[x] /\ y < x)}
                      = {y \in 1..m : y < x}
  OBVIOUS
<1> DEFINE C(x) == Cardinality({y \in 1..m : key[y] < key[x] \/ (key[y] = key[x] /\ y < x)})
           first(i) == CHOOSE x \in 1..m : C(x) = i - 1
<1>5. Ascending(1..m) = [i \in 1..Cardinality(1..m) |-> first(i)]
  BY DEF Ascending, Sorted
<1>6. \A x \in 1..m : C(x) = x - 1
  BY <1>2, <1>4
<1> HIDE DEF C
<1>7. \A i \in 1..m : first(i) = i
  <2> TAKE i \in 1..m
  <2>1. \A x \in 1..m : C(x) = i - 1 <=> x = i
    BY <1>6
  <2> QED
    BY <2>1
<1> HIDE DEF first
<1> QED
  BY <1>1, <1>5, <1>7

-----------------------------------------------------------------------------
NoTwice(s) == \A i, j \in 1..Len(s) : s[i] = s[j] => i = j

\* The range of a list is what stands at its places.
LEMMA RangeOf ==
  ASSUME NEW X, NEW s \in Seq(X)
  PROVE  /\ Range(s) \subseteq X /\ Len(s) \in Nat /\ DOMAIN s = 1..Len(s)
         /\ \A i \in 1..Len(s) : s[i] \in X /\ s[i] \in Range(s)
         /\ \A x \in Range(s) : \E i \in 1..Len(s) : s[i] = x
BY DEF Range

\* k has of s what is in E, at the places p
Places(s, E, k, p) ==
  /\ p \in [1..Len(k) -> 1..Len(s)]
  /\ \A i, j \in 1..Len(k) : i < j => p[i] < p[j]
  /\ \A i \in 1..Len(k) : k[i] = s[p[i]] /\ k[i] \in E
  /\ \A j \in 1..Len(s) : s[j] \in E => \E i \in 1..Len(k) : p[i] = j

\* What is kept of a list is what is in the set, in its order.
LEMMA KeepPlaces ==
  ASSUME NEW X, NEW s \in Seq(X), NEW E
  PROVE  LET k == Keep(s, E) IN
         /\ k \in Seq(X) /\ Len(k) \in Nat
         /\ \E p : Places(s, E, k, p)
<1>1. PICK S : S = {i \in DOMAIN s : s[i] \in E}
  OBVIOUS
<1>2. S \subseteq 1..Len(s) /\ S \in SUBSET Nat /\ Len(s) \in Nat
  BY <1>1
<1>3. IsFiniteSet(S)
  <2>1. IsFiniteSet(1..Len(s))
    BY <1>2, FS_Interval
  <2> QED
    BY <1>2, <2>1, FS_Subset
<1>4. PICK p : p = Ascending(S)
  OBVIOUS
<1>5. /\ p \in Seq(S) /\ Len(p) \in Nat /\ DOMAIN p = 1..Len(p)
      /\ \A n \in 1..Len(p) : p[n] \in S
      /\ \A i \in S : \E n \in 1..Len(p) : p[n] = i
      /\ \A m, n \in 1..Len(p) : m < n => p[m] < p[n]
  BY ONLY <1>2, <1>3, <1>4, AscendingFacts
<1>6. Keep(s, E) = [i \in 1..Len(p) |-> s[p[i]]]
  BY <1>1, <1>4, <1>5 DEF Keep, Chosen
<1>7. PICK k : k = [i \in 1..Len(p) |-> s[p[i]]]
  OBVIOUS
<1>8. k \in [1..Len(p) -> X]
  <2>1. \A i \in 1..Len(p) : s[p[i]] \in X
    BY <1>2, <1>5, RangeOf
  <2> QED
    BY <1>7, <2>1
<1>9. k \in Seq(X) /\ Len(k) = Len(p)
  BY ONLY <1>5, <1>8, MakesList
<1>10. p \in [1..Len(k) -> 1..Len(s)]
  <2>1. p = [i \in 1..Len(p) |-> p[i]]
    BY ONLY <1>5
  <2>2. \A i \in 1..Len(p) : p[i] \in 1..Len(s)
    BY <1>2, <1>5
  <2> QED
    BY <1>9, <2>1, <2>2
<1>11. \A i \in 1..Len(k) : k[i] = s[p[i]] /\ k[i] \in E
  BY <1>1, <1>5, <1>7, <1>9
<1>12. \A j \in 1..Len(s) : s[j] \in E => \E i \in 1..Len(k) : p[i] = j
  BY <1>1, <1>5, <1>9
<1>13. \A i, j \in 1..Len(k) : i < j => p[i] < p[j]
  BY <1>5, <1>9
<1>14. Keep(s, E) = k
  BY <1>6, <1>7
<1>15. Places(s, E, k, p)
  BY ONLY <1>10, <1>11, <1>12, <1>13 DEF Places
<1> QED
  BY ONLY <1>5, <1>9, <1>14, <1>15

\* What is kept is what the list and the set have in common, each once if the
\* list has each once.
LEMMA KeepFacts ==
  ASSUME NEW X, NEW s \in Seq(X), NEW E
  PROVE  LET k == Keep(s, E) IN
         /\ k \in Seq(X) /\ Range(k) = Range(s) \cap E
         /\ NoTwice(s) => NoTwice(k)
<1>1. PICK k : k = Keep(s, E)
  OBVIOUS
<1>2. /\ k \in Seq(X) /\ Len(k) \in Nat
      /\ \E p : Places(s, E, k, p)
  BY <1>1, KeepPlaces
<1>3. PICK p : /\ p \in [1..Len(k) -> 1..Len(s)]
               /\ \A i, j \in 1..Len(k) : i < j => p[i] < p[j]
               /\ \A i \in 1..Len(k) : k[i] = s[p[i]] /\ k[i] \in E
               /\ \A j \in 1..Len(s) : s[j] \in E => \E i \in 1..Len(k) : p[i] = j
  BY <1>2 DEF Places
<1>4. ASSUME NEW x \in Range(k) PROVE x \in Range(s) \cap E
  <2>1. PICK i \in 1..Len(k) : k[i] = x
    BY <1>2, RangeOf
  <2>2. p[i] \in 1..Len(s) /\ s[p[i]] = x /\ x \in E
    BY <1>3, <2>1
  <2> QED
    BY <2>2, RangeOf
<1>5. ASSUME NEW x \in Range(s), x \in E PROVE x \in Range(k)
  <2>1. PICK j \in 1..Len(s) : s[j] = x
    BY RangeOf
  <2>2. PICK i \in 1..Len(k) : p[i] = j
    BY <1>3, <1>5, <2>1
  <2>3. k[i] = x
    BY <1>3, <2>1, <2>2
  <2> QED
    BY <1>2, <2>3, RangeOf
<1>6. ASSUME NoTwice(s) PROVE NoTwice(k)
  <2> SUFFICES ASSUME NEW i \in 1..Len(k), NEW j \in 1..Len(k), k[i] = k[j] PROVE i = j
    BY DEF NoTwice
  <2>1. p[i] \in 1..Len(s) /\ p[j] \in 1..Len(s) /\ s[p[i]] = s[p[j]]
    BY <1>3
  <2>2. p[i] = p[j]
    BY <1>6, <2>1 DEF NoTwice
  <2>3. ~(p[i] < p[j]) /\ ~(p[j] < p[i])
    BY <2>1, <2>2
  <2>4. i \in Nat /\ j \in Nat
    BY <1>2
  <2> QED
    BY <1>3, <2>3, <2>4
<1> QED
  BY <1>1, <1>2, <1>4, <1>5, <1>6

\* What is in the set up to a place and not after it is kept up to there.
LEMMA KeepFront ==
  ASSUME NEW X, NEW s \in Seq(X), NEW E, NEW m \in 0..Len(s),
         \A i \in 1..m : s[i] \in E, \A i \in (m + 1)..Len(s) : s[i] \notin E
  PROVE  Keep(s, E) = [i \in 1..m |-> s[i]]
<1>1. Len(s) \in Nat /\ m \in Nat /\ DOMAIN s = 1..Len(s)
  OBVIOUS
<1>2. {i \in DOMAIN s : s[i] \in E} = 1..m
  BY <1>1
<1>3. Ascending(1..m) = [i \in 1..m |-> i]
  BY <1>1, AscendingInterval
<1> QED
  BY <1>2, <1>3 DEF Keep, Chosen

\* The first n of a list, or all of a shorter one
LEMMA TakeFacts ==
  ASSUME NEW X, NEW s \in Seq(X), NEW n \in Nat
  PROVE  LET t == Take(s, n) IN
         /\ t \in Seq(X) /\ Len(t) = Lower(n, Len(s)) /\ Len(t) \in Nat
         /\ Len(t) <= n /\ Len(t) <= Len(s)
         /\ \A i \in 1..Len(t) : t[i] = s[i]
         /\ Range(t) \subseteq Range(s)
         /\ NoTwice(s) => NoTwice(t)
         /\ Len(s) <= n => t = s
         /\ Len(s) > n => Len(t) = n
<1>1. PICK m : m = IF n < Len(s) THEN n ELSE Len(s)
  OBVIOUS
<1>2. m \in Nat /\ m <= n /\ m <= Len(s) /\ Len(s) \in Nat
  BY <1>1
<1>3. PICK t : t = SubSeq(s, 1, m)
  OBVIOUS
<1>4. t \in Seq(X) /\ Len(t) = m /\ \A i \in 1..m : t[i] = s[i]
  BY <1>2, <1>3
<1>5. Take(s, n) = t /\ m = Lower(n, Len(s))
  BY <1>1, <1>3 DEF Take, Lower
<1>6. Range(t) \subseteq Range(s)
  BY <1>2, <1>4 DEF Range
<1>7. NoTwice(s) => NoTwice(t)
  BY <1>2, <1>4 DEF NoTwice
<1>8. Len(s) <= n => t = s
  <2> SUFFICES ASSUME Len(s) <= n PROVE t = s
    OBVIOUS
  <2>1. m = Len(s)
    BY <1>1, <1>2
  <2> QED
    BY <1>4, <2>1
<1> QED
  BY <1>1, <1>2, <1>4, <1>5, <1>6, <1>7, <1>8

\* Two lists one after the other
LEMMA JoinFacts ==
  ASSUME NEW X, NEW s \in Seq(X), NEW t \in Seq(X)
  PROVE  /\ s \o t \in Seq(X) /\ Len(s \o t) = Len(s) + Len(t)
         /\ \A i \in 1..Len(s) : (s \o t)[i] = s[i]
         /\ \A i \in (Len(s) + 1)..(Len(s) + Len(t)) : (s \o t)[i] = t[i - Len(s)]
         /\ Range(s \o t) = Range(s) \cup Range(t)
         /\ NoTwice(s) /\ NoTwice(t) /\ Range(s) \cap Range(t) = {} => NoTwice(s \o t)
<1>1. PICK u : u = s \o t
  OBVIOUS
<1>2. /\ u \in Seq(X) /\ Len(u) = Len(s) + Len(t)
      /\ \A i \in 1..Len(s) : u[i] = s[i]
      /\ \A i \in (Len(s) + 1)..(Len(s) + Len(t)) : u[i] = t[i - Len(s)]
  BY <1>1
<1>3. Len(s) \in Nat /\ Len(t) \in Nat
  OBVIOUS
<1>4. ASSUME NEW i \in 1..Len(u)
      PROVE  \/ i \in 1..Len(s) /\ u[i] = s[i]
             \/ i - Len(s) \in 1..Len(t) /\ u[i] = t[i - Len(s)]
  BY <1>2, <1>3
<1>5. Range(u) \subseteq Range(s) \cup Range(t)
  BY <1>2, <1>4, RangeOf
<1>6. Range(s) \subseteq Range(u)
  <2> SUFFICES ASSUME NEW x \in Range(s) PROVE x \in Range(u)
    OBVIOUS
  <2>1. PICK i \in 1..Len(s) : s[i] = x
    BY RangeOf
  <2>2. i \in 1..Len(u) /\ u[i] = x
    BY <1>2, <1>3, <2>1
  <2> QED
    BY <1>2, <2>2, RangeOf
<1>7. Range(t) \subseteq Range(u)
  <2> SUFFICES ASSUME NEW x \in Range(t) PROVE x \in Range(u)
    OBVIOUS
  <2>1. PICK i \in 1..Len(t) : t[i] = x
    BY RangeOf
  <2>2. /\ i + Len(s) \in 1..Len(u) /\ i + Len(s) \in (Len(s) + 1)..(Len(s) + Len(t))
        /\ (i + Len(s)) - Len(s) = i
    BY <1>2, <1>3, <2>1
  <2>3. u[i + Len(s)] = x
    BY <1>2, <2>1, <2>2
  <2> QED
    BY <1>2, <2>2, <2>3, RangeOf
<1>8. ASSUME NoTwice(s), NoTwice(t), Range(s) \cap Range(t) = {} PROVE NoTwice(u)
  <2> SUFFICES ASSUME NEW i \in 1..Len(u), NEW j \in 1..Len(u), u[i] = u[j] PROVE i = j
    BY DEF NoTwice
  <2>1. \A n \in 1..Len(s), k \in 1..Len(t) : s[n] # t[k]
    BY <1>8 DEF Range
  <2>2. i \in Int /\ j \in Int
    BY <1>2, <1>3
  <2>3. CASE i \in 1..Len(s) /\ j \in 1..Len(s)
    BY <1>2, <1>8, <2>3 DEF NoTwice
  <2>4. CASE i - Len(s) \in 1..Len(t) /\ u[i] = t[i - Len(s)] /\ j - Len(s) \in 1..Len(t) /\ u[j] = t[j - Len(s)]
    <3>1. i - Len(s) = j - Len(s)
      BY <1>8, <2>4 DEF NoTwice
    <3> QED
      BY <1>3, <2>2, <3>1
  <2> QED
    BY <1>2, <1>4, <2>1, <2>3, <2>4
<1> QED
  BY <1>1, <1>2, <1>5, <1>6, <1>7, <1>8

-----------------------------------------------------------------------------
\* what holds at first and from each step to the next holds at the end
LEMMA Climb ==
  ASSUME NEW n \in Nat, NEW good, 0 \in good, \A i \in 1..n : i - 1 \in good => i \in good
  PROVE  \A i \in 0..n : i \in good
<1> DEFINE bad == {i \in 0..n : i \notin good}
<1> SUFFICES ASSUME bad # {} PROVE FALSE
  OBVIOUS
<1>1. bad \in SUBSET Nat
  OBVIOUS
<1>2. PICK i \in bad : \A j \in bad : i <= j
  <2> HIDE DEF bad
  <2> QED
    BY <1>1, Least
<1>3. i \in 1..n /\ i - 1 \in 0..n /\ i \notin good
  BY <1>2
<1>4. i - 1 \notin bad
  <2> HIDE DEF bad
  <2> QED
    BY <1>1, <1>2, <1>3
<1> QED
  BY <1>3, <1>4

-----------------------------------------------------------------------------
(* Searches: nested chunks                                                 *)

Covered(c, S) == \E d \in S : c = d \/ NestedIn(c, d)

\* What lies within a chunk lies within what that lies within.
LEMMA NestedOn ==
  ASSUME NEW c \in Chunk, NEW d \in Chunk, NEW e \in Chunk, NestedIn(c, d), NestedIn(d, e)
  PROVE  NestedIn(c, e)
<1>1. Lines[c] \in Nat \X Nat /\ Lines[d] \in Nat \X Nat /\ Lines[e] \in Nat \X Nat
  BY RetrievalAssumption
<1>2. Lines[c] # Lines[e]
  <2> SUFFICES ASSUME Lines[c] = Lines[e] PROVE FALSE
    OBVIOUS
  <2>1. Lines[c][1] = Lines[d][1] /\ Lines[c][2] = Lines[d][2]
    BY <1>1 DEF NestedIn
  <2> QED
    BY <1>1, <2>1 DEF NestedIn
<1> QED
  BY <1>1, <1>2 DEF NestedIn

\* One chunk more: it is held by what is kept, or those that it holds go.
LEMMA OneDedupeStep ==
  ASSUME NEW kept \in Seq(Chunk), NEW c \in Chunk
  PROVE  LET r == DedupeStep(kept, c) IN
         /\ r \in Seq(Chunk)
         /\ NoTwice(kept) /\ c \notin Range(kept) => NoTwice(r)
         /\ Range(r) \subseteq Range(kept) \cup {c}
         /\ \A x \in Range(kept) \cup {c} : Covered(x, Range(r))
<1>1. CASE \E k \in Range(kept) : NestedIn(c, k)
  <2>1. DedupeStep(kept, c) = kept
    BY <1>1 DEF DedupeStep
  <2> QED
    BY <1>1, <2>1 DEF Covered
<1>2. CASE ~ \E k \in Range(kept) : NestedIn(c, k)
  <2>1. PICK k : k = Keep(kept, {x \in Chunk : ~NestedIn(x, c)})
    OBVIOUS
  <2>2. /\ k \in Seq(Chunk) /\ Range(k) = Range(kept) \cap {x \in Chunk : ~NestedIn(x, c)}
        /\ NoTwice(kept) => NoTwice(k)
    BY <2>1, KeepFacts
  <2>3. PICK r : r = Append(k, c)
    OBVIOUS
  <2>4. DedupeStep(kept, c) = r
    BY <1>2, <2>1, <2>3 DEF DedupeStep
  <2>5. /\ r \in Seq(Chunk) /\ Len(r) = Len(k) + 1 /\ r[Len(k) + 1] = c
        /\ \A i \in 1..Len(k) : r[i] = k[i]
        /\ Len(k) \in Nat
    BY <2>2, <2>3
  <2>6. Range(r) = Range(k) \cup {c}
    <3>1. Range(r) \subseteq Range(k) \cup {c}
      <4> SUFFICES ASSUME NEW x \in Range(r) PROVE x \in Range(k) \cup {c}
        OBVIOUS
      <4>1. PICK i \in 1..Len(r) : r[i] = x
        BY <2>5, RangeOf
      <4>2. i = Len(k) + 1 \/ i \in 1..Len(k)
        BY <2>5
      <4> QED
        BY <2>2, <2>5, <4>1, <4>2, RangeOf
    <3>2. Range(k) \subseteq Range(r)
      <4> SUFFICES ASSUME NEW x \in Range(k) PROVE x \in Range(r)
        OBVIOUS
      <4>1. PICK i \in 1..Len(k) : k[i] = x
        BY <2>2, RangeOf
      <4>2. i \in 1..Len(r) /\ r[i] = x
        BY <2>5, <4>1
      <4> QED
        BY <2>5, <4>2, RangeOf
    <3>3. c \in Range(r)
      <4>1. Len(k) + 1 \in 1..Len(r)
        BY <2>5
      <4> QED
        BY <2>5, <4>1, RangeOf
    <3> QED
      BY <3>1, <3>2, <3>3
  <2>7. ASSUME NoTwice(kept), c \notin Range(kept) PROVE NoTwice(r)
    <3>1. \A i \in 1..Len(k) : k[i] # c
      BY <2>2, <2>7, RangeOf
    <3>2. NoTwice(k)
      BY <2>2, <2>7
    <3> SUFFICES ASSUME NEW i \in 1..Len(r), NEW j \in 1..Len(r), r[i] = r[j] PROVE i = j
      BY DEF NoTwice
    <3>3. (i \in 1..Len(k) \/ i = Len(k) + 1) /\ (j \in 1..Len(k) \/ j = Len(k) + 1)
      BY <2>5
    <3> QED
      BY <2>5, <3>1, <3>2, <3>3 DEF NoTwice
  <2>8. ASSUME NEW x \in Range(kept) \cup {c} PROVE Covered(x, Range(r))
    <3>1. x = c \/ (x \in Chunk /\ x \in Range(kept))
      BY RangeOf
    <3>2. CASE x \in Range(r)
      BY <3>2 DEF Covered
    <3>3. CASE x \notin Range(r)
      <4>1. NestedIn(x, c)
        BY <2>2, <2>6, <3>1, <3>3
      <4> QED
        BY <2>6, <4>1 DEF Covered
    <3> QED
      BY <3>2, <3>3
  <2> QED
    BY <2>2, <2>4, <2>5, <2>6, <2>7, <2>8
<1> QED
  BY <1>1, <1>2

\* What covers what covers, covers.
LEMMA CoveredOn ==
  ASSUME NEW x \in Chunk, NEW S \in SUBSET Chunk, NEW T \in SUBSET Chunk, Covered(x, S),
         \A y \in S : Covered(y, T)
  PROVE  Covered(x, T)
<1>1. PICK d \in S : x = d \/ NestedIn(x, d)
  BY DEF Covered
<1>2. PICK e \in T : d = e \/ NestedIn(d, e)
  BY DEF Covered
<1>3. d \in Chunk /\ e \in Chunk
  OBVIOUS
<1>4. x = e \/ NestedIn(x, e)
  BY <1>1, <1>2, <1>3, NestedOn
<1> QED
  BY <1>4 DEF Covered

\* Deduplication leaves a chunk for each, the same or a wider one.
LEMMA DedupeFacts ==
  ASSUME NEW items \in Seq(Chunk), NoTwice(items)
  PROVE  LET r == DedupeOverlapping(items) IN
         /\ r \in Seq(Chunk) /\ NoTwice(r) /\ Range(r) \subseteq Range(items)
         /\ \A x \in Range(items) : Covered(x, Range(r))
<1> DEFINE n == Len(items)
           V == Seq(Chunk)
           step == [i \in 1..n |-> [v \in V |-> DedupeStep(v, items[i])]]
           Body(f) == [i \in 0..n |-> IF i = 0 THEN <<>> ELSE DedupeStep(f[i - 1], items[i])]
           kept == CHOOSE f : f = Body(f)
<1>1. DedupeOverlapping(items) = kept[n]
  BY DEF DedupeOverlapping
<1>2. n \in Nat /\ \A i \in 1..n : items[i] \in Chunk
  BY RangeOf
<1>3. \E f : f = Body(f)
  <2>1. IsStep(step, V, 0, n)
    <3>1. \A v \in V, c \in Chunk : DedupeStep(v, c) \in V
      BY OneDedupeStep
    <3> HIDE DEF V, n
    <3>2. step \in [1..n -> [V -> V]]
      BY <1>2, <3>1
    <3> QED
      BY <3>2 DEF IsStep
  <2>2. <<>> \in V /\ 0 \in Nat /\ 0 <= n
    BY <1>2
  <2> HIDE DEF step, V, n
  <2>3. PICK f : IsRun(f, V, <<>>, 0, n, step)
    BY <1>2, <2>1, <2>2, Iterates
  <2>4. \A i \in 1..n : f[i] = DedupeStep(f[i - 1], items[i])
    <3> TAKE i \in 1..n
    <3>1. i - 1 \in 0..n /\ i \in (0 + 1)..n
      BY <1>2
    <3>2. f[i - 1] \in V
      BY <2>3, <3>1 DEF IsRun
    <3> QED
      BY <2>3, <3>1, <3>2 DEF step, IsRun
  <2>5. f = Body(f)
    BY <1>2, <2>3, <2>4 DEF IsRun
  <2> QED
    BY <2>5
<1>4. kept = Body(kept)
  <2> HIDE DEF Body
  <2> QED
    BY <1>3
<1> HIDE DEF kept, step, V
<1>5. kept[0] = <<>> /\ \A i \in 1..n : kept[i] = DedupeStep(kept[i - 1], items[i])
  BY <1>2, <1>4
<1> DEFINE Seen(i) == {items[j] : j \in 1..i}
           Good(i) == /\ kept[i] \in Seq(Chunk) /\ NoTwice(kept[i]) /\ Range(kept[i]) \subseteq Seen(i)
                      /\ \A x \in Seen(i) : Covered(x, Range(kept[i]))
           good == {i \in 0..n : Good(i)}
<1>6. 0 \in good
  <2>1. <<>> \in Seq(Chunk) /\ Range(<<>>) = {} /\ NoTwice(<<>>)
    BY DEF Range, NoTwice
  <2>2. Seen(0) = {}
    OBVIOUS
  <2>3. Good(0)
    BY <1>5, <2>1, <2>2
  <2> QED
    BY <1>2, <2>3
<1>7. ASSUME NEW i \in 1..n, i - 1 \in good PROVE i \in good
  <2>1. PICK k, r, c : k = kept[i - 1] /\ r = kept[i] /\ c = items[i]
    OBVIOUS
  <2>2. /\ k \in Seq(Chunk) /\ NoTwice(k) /\ Range(k) \subseteq Seen(i - 1)
        /\ \A x \in Seen(i - 1) : Covered(x, Range(k))
    BY <1>7, <2>1
  <2>3. c \in Chunk /\ r = DedupeStep(k, c)
    BY <1>2, <1>5, <2>1
  <2>4. Seen(i) = Seen(i - 1) \cup {c} /\ c \notin Seen(i - 1) /\ Seen(i - 1) \subseteq Chunk
    BY <1>2, <2>1 DEF NoTwice
  <2> HIDE DEF Seen
  <2>5. /\ r \in Seq(Chunk) /\ NoTwice(r) /\ Range(r) \subseteq Range(k) \cup {c}
        /\ \A x \in Range(k) \cup {c} : Covered(x, Range(r))
    BY <2>2, <2>3, <2>4, OneDedupeStep
  <2>6. Range(r) \subseteq Seen(i)
    BY <2>2, <2>4, <2>5
  <2>7. ASSUME NEW x \in Seen(i) PROVE Covered(x, Range(r))
    <3>1. CASE x = c
      BY <2>5, <3>1
    <3>2. CASE x \in Seen(i - 1)
      <4>1. Covered(x, Range(k)) /\ x \in Chunk
        BY <2>2, <2>4, <3>2
      <4>2. Range(k) \in SUBSET Chunk /\ Range(r) \in SUBSET Chunk
        BY <2>2, <2>5, RangeOf
      <4> QED
        BY <2>5, <4>1, <4>2, CoveredOn
    <3> QED
      BY <2>4, <2>7, <3>1, <3>2
  <2> QED
    BY <1>2, <2>1, <2>5, <2>6, <2>7
<1>8. n \in good
  <2> HIDE DEF good
  <2>1. n \in 0..n
    BY <1>2
  <2> QED
    BY <1>2, <1>6, <1>7, <2>1, Climb
<1>9. Seen(n) = Range(items)
  BY <1>2 DEF Range
<1> QED
  BY <1>1, <1>8, <1>9

-----------------------------------------------------------------------------
(* Searches: search_base                                                   *)

\* A list over a set is one over a larger set.
LEMMA Wider ==
  ASSUME NEW S, NEW T, S \subseteq T, NEW s \in Seq(S)
  PROVE  s \in Seq(T)
<1>1. Len(s) \in Nat /\ \A i \in 1..Len(s) : s[i] \in T
  OBVIOUS
<1>2. s = [i \in 1..Len(s) |-> s[i]]
  OBVIOUS
<1>3. s \in [1..Len(s) -> T]
  BY ONLY <1>1, <1>2
<1> QED
  BY ONLY <1>1, <1>3, MakesList

\* What only the graph knows is no hit.
LEMMA GraphOnlyFacts ==
  ASSUME NEW graph, NEW hits \in Seq(Chunk), NEW ceiling
  PROVE  LET g == GraphOnly(graph, hits, ceiling) IN
         g \in Seq(Chunk) /\ NoTwice(g) /\ Range(g) \cap Range(hits) = {}
<1>1. PICK S : S = {n \in Indexed : \E s \in Range(Take(hits, ceiling)) : {s, n} \in graph /\ s # n}
  OBVIOUS
<1>2. S \in SUBSET Nat /\ IsFiniteSet(S) /\ S \subseteq Chunk
  <2>1. S \in SUBSET Chunk /\ Chunk \subseteq Nat /\ IsFiniteSet(Chunk)
    BY <1>1, RetrievalAssumption
  <2> QED
    BY <2>1, FS_Subset
<1>3. PICK s : s = Ascending(S)
  OBVIOUS
<1>4. /\ s \in Seq(S) /\ Len(s) \in Nat
      /\ \A m, n \in 1..Len(s) : s[m] = s[n] => m = n
  BY ONLY <1>2, <1>3, AscendingFacts
<1>5. s \in Seq(Chunk) /\ NoTwice(s)
  <2>1. NoTwice(s)
    BY ONLY <1>4 DEF NoTwice
  <2>2. s \in Seq(Chunk)
    BY <1>2, <1>4, Wider
  <2> QED
    BY <2>1, <2>2
<1>6. Neighbours(graph, Take(hits, ceiling)) = s
  BY <1>1, <1>3 DEF Neighbours
<1>7. PICK g : g = Keep(s, Chunk \ Range(hits))
  OBVIOUS
<1>8. g \in Seq(Chunk) /\ NoTwice(g) /\ Range(g) = Range(s) \cap (Chunk \ Range(hits))
  BY <1>5, <1>7, KeepFacts
<1> QED
  BY <1>6, <1>7, <1>8 DEF GraphOnly

\* hits of a query that are near enough
LEMMA HitsFacts ==
  ASSUME NEW hits \in Listing, NEW far
  PROVE  LET h == Hits(hits, far) IN h \in Seq(Chunk) /\ NoTwice(h)
<1>1. hits \in Seq(Chunk) /\ NoTwice(hits)
  <2>1. hits \in Seq(Indexed) /\ Indexed \subseteq Chunk
    BY RetrievalAssumption DEF Listing
  <2>2. DOMAIN hits = 1..Len(hits)
    BY <2>1
  <2> QED
    BY <2>1, <2>2 DEF Listing, NoTwice
<1> QED
  BY <1>1, KeepFacts DEF Hits

\* The hits, without tests and deduplicated, in two lists.
LEMMA BaseItemsFacts ==
  ASSUME NEW q \in AnyBase
  PROVE  LET H == BaseHits(q)
             G == GraphOnly(q.graph, H, Ceiling(q))
             items == BaseItems(q)
         IN  /\ H \in Seq(Chunk) /\ G \in Seq(Chunk) /\ Range(H) \cap Range(G) = {}
             /\ items \in Seq(Chunk) /\ NoTwice(items)
             /\ \A c \in Range(items) : /\ c \in Range(H) \cup Range(G)
                                        /\ q.tests \/ PathOf[c] \notin TestPath
             /\ \A c \in Range(H) : q.tests \/ PathOf[c] \notin TestPath => Covered(c, Range(items))
<1>1. PICK H : H = BaseHits(q)
  OBVIOUS
<1>2. H \in Seq(Chunk) /\ NoTwice(H)
  BY <1>1, HitsFacts DEF BaseHits, AnyBase
<1>3. PICK G : G = GraphOnly(q.graph, H, Ceiling(q))
  OBVIOUS
<1>4. G \in Seq(Chunk) /\ NoTwice(G) /\ Range(G) \cap Range(H) = {}
  BY <1>2, <1>3, GraphOnlyFacts
<1>5. PICK u : u = H \o G
  OBVIOUS
<1>6. u \in Seq(Chunk) /\ NoTwice(u) /\ Range(u) = Range(H) \cup Range(G)
  BY <1>2, <1>4, <1>5, JoinFacts
<1>7. PICK E : E = {c \in Chunk : q.tests \/ PathOf[c] \notin TestPath}
  OBVIOUS
<1>8. PICK w : w = Keep(u, E)
  OBVIOUS
<1>9. w \in Seq(Chunk) /\ NoTwice(w) /\ Range(w) = (Range(H) \cup Range(G)) \cap E
  BY <1>6, <1>8, KeepFacts
<1>10. PICK items : items = DedupeOverlapping(w)
  OBVIOUS
<1>11. /\ items \in Seq(Chunk) /\ NoTwice(items) /\ Range(items) \subseteq Range(w)
       /\ \A x \in Range(w) : Covered(x, Range(items))
  BY <1>9, <1>10, DedupeFacts
<1>12. BaseItems(q) = items
  BY <1>1, <1>3, <1>5, <1>7, <1>8, <1>10 DEF BaseItems, WithoutTests
<1>13. \A c \in Range(items) : c \in Range(H) \cup Range(G) /\ (q.tests \/ PathOf[c] \notin TestPath)
  BY <1>7, <1>9, <1>11
<1>14. ASSUME NEW c \in Range(H), q.tests \/ PathOf[c] \notin TestPath
       PROVE  Covered(c, Range(items))
  <2>1. c \in Chunk
    BY <1>2, RangeOf
  <2> QED
    BY <1>7, <1>9, <1>11, <1>14, <2>1
<1> QED
  BY <1>1, <1>2, <1>3, <1>4, <1>11, <1>12, <1>13, <1>14

\* at most one element of a is no hit
OneMore(a, hybrid) == \E g : Range(a) \subseteq Range(hybrid) \cup {g}

\* Without the reranker all hits are shown, or as many as there may be and
\* with at most one that is no hit.
LEMMA DegradedFacts ==
  ASSUME NEW hybrid \in Seq(Chunk), NEW graph \in Seq(Chunk), NEW ceiling \in Nat
  PROVE  LET a == SelectDegraded(hybrid, graph, ceiling) IN
         /\ a \in Seq(Chunk) /\ Len(a) <= ceiling
         /\ hybrid # <<>> =>
              \/ Range(hybrid) \subseteq Range(a)
              \/ Len(a) = ceiling /\ OneMore(a, hybrid)
<1>1. PICK a : a = SelectDegraded(hybrid, graph, ceiling)
  OBVIOUS
<1>2. Len(hybrid) \in Nat /\ Len(graph) \in Nat
  OBVIOUS
<1>3. CASE ceiling = 0
  <2>1. a = <<>>
    BY <1>1, <1>3 DEF SelectDegraded
  <2>2. Range(a) = {} /\ Len(a) = 0 /\ a \in Seq(Chunk)
    BY <2>1 DEF Range
  <2>3. OneMore(a, hybrid)
    BY <2>2 DEF OneMore
  <2> QED
    BY <1>1, <1>3, <2>2, <2>3
<1>4. CASE ceiling > 0 /\ hybrid = <<>>
  <2>1. a = Take(graph, ceiling)
    BY <1>1, <1>4 DEF SelectDegraded
  <2> QED
    BY <1>1, <1>4, <2>1, TakeFacts
<1>5. CASE ceiling = 1 /\ hybrid # <<>>
  <2>1. a = Take(hybrid, 1)
    BY <1>1, <1>5 DEF SelectDegraded
  <2>2. Len(hybrid) >= 1
    BY <1>2, <1>5
  <2>3. /\ a \in Seq(Chunk) /\ Len(a) <= 1 /\ Range(a) \subseteq Range(hybrid)
        /\ Len(hybrid) <= 1 => a = hybrid
        /\ Len(hybrid) > 1 => Len(a) = 1
    BY <2>1, TakeFacts
  <2>4. Len(a) = 1
    <3>1. CASE Len(hybrid) = 1
      BY <2>3, <3>1
    <3>2. CASE Len(hybrid) > 1
      BY <2>3, <3>2
    <3>3. \A n \in Nat : n >= 1 => n = 1 \/ n > 1
      OBVIOUS
    <3> QED
      BY ONLY <1>2, <2>2, <3>1, <3>2, <3>3
  <2>5. OneMore(a, hybrid)
    BY <2>3 DEF OneMore
  <2> QED
    BY <1>1, <1>5, <2>3, <2>4, <2>5
<1>6. CASE ceiling > 1 /\ hybrid # <<>> /\ Len(hybrid) < ceiling
  <2>1. PICK t : t = Take(graph, ceiling - Len(hybrid))
    OBVIOUS
  <2>2. ceiling - Len(hybrid) \in Nat
    BY <1>2, <1>6
  <2>3. t \in Seq(Chunk) /\ Len(t) <= ceiling - Len(hybrid) /\ Len(t) \in Nat
    BY <2>1, <2>2, TakeFacts
  <2>4. a = hybrid \o t
    BY <1>1, <1>6, <2>1 DEF SelectDegraded
  <2>5. a \in Seq(Chunk) /\ Len(a) = Len(hybrid) + Len(t) /\ Range(hybrid) \subseteq Range(a)
    BY <2>3, <2>4, JoinFacts
  <2>6. Len(a) <= ceiling
    BY <1>2, <2>3, <2>5
  <2> QED
    BY <1>1, <2>5, <2>6
<1>7. CASE ceiling > 1 /\ hybrid # <<>> /\ Len(hybrid) >= ceiling /\ graph # <<>>
  <2>1. PICK t : t = Take(hybrid, ceiling - 1)
    OBVIOUS
  <2>2. /\ t \in Seq(Chunk) /\ Range(t) \subseteq Range(hybrid)
        /\ Len(t) = ceiling - 1
    <3>1. ceiling - 1 \in Nat /\ Len(hybrid) > ceiling - 1
      BY <1>2, <1>7
    <3> QED
      BY <2>1, <3>1, TakeFacts
  <2>3. graph[1] \in Chunk
    BY <1>2, <1>7
  <2>4. a = Append(t, graph[1])
    BY <1>1, <1>7, <1>2, <2>1 DEF SelectDegraded
  <2>5. a \in Seq(Chunk) /\ Len(a) = ceiling
    BY <2>2, <2>3, <2>4
  <2>6. Range(a) \subseteq Range(hybrid) \cup {graph[1]}
    <3> SUFFICES ASSUME NEW x \in Range(a), x # graph[1] PROVE x \in Range(t)
      BY <2>2
    <3>1. PICK i \in 1..Len(a) : a[i] = x
      BY <2>5, RangeOf
    <3>2. i \in 1..Len(t) /\ t[i] = x
      BY <2>2, <2>3, <2>4, <3>1
    <3> QED
      BY <2>2, <3>2, RangeOf
  <2>7. OneMore(a, hybrid)
    BY <2>6 DEF OneMore
  <2>8. Len(a) <= ceiling
    BY <2>5
  <2> QED
    BY <1>1, <2>5, <2>7, <2>8
<1>8. CASE ceiling > 1 /\ hybrid # <<>> /\ Len(hybrid) >= ceiling /\ graph = <<>>
  <2>1. a = Take(hybrid, ceiling)
    BY <1>1, <1>8, <1>2 DEF SelectDegraded
  <2>2. /\ a \in Seq(Chunk) /\ Range(a) \subseteq Range(hybrid)
        /\ Len(a) = ceiling
    <3>1. Len(hybrid) = ceiling \/ Len(hybrid) > ceiling
      BY <1>2, <1>8
    <3>2. /\ a \in Seq(Chunk) /\ Range(a) \subseteq Range(hybrid)
          /\ Len(hybrid) <= ceiling => a = hybrid
          /\ Len(hybrid) > ceiling => Len(a) = ceiling
      BY <2>1, TakeFacts
    <3>3. CASE Len(hybrid) = ceiling
      BY <3>2, <3>3
    <3>4. CASE Len(hybrid) > ceiling
      BY <3>2, <3>4
    <3> QED
      BY <3>1, <3>2, <3>3, <3>4
  <2>3. OneMore(a, hybrid)
    BY <2>2 DEF OneMore
  <2> QED
    BY <1>1, <2>2, <2>3
<1>9. \/ ceiling = 0
      \/ ceiling > 0 /\ hybrid = <<>>
      \/ ceiling = 1 /\ hybrid # <<>>
      \/ ceiling > 1 /\ hybrid # <<>> /\ Len(hybrid) < ceiling
      \/ ceiling > 1 /\ hybrid # <<>> /\ Len(hybrid) >= ceiling /\ graph # <<>>
      \/ ceiling > 1 /\ hybrid # <<>> /\ Len(hybrid) >= ceiling /\ graph = <<>>
  BY <1>2
<1> QED
  BY ONLY <1>9, <1>3, <1>4, <1>5, <1>6, <1>7, <1>8

-----------------------------------------------------------------------------
\* the numbers from 1 to n
LEMMA UpTo ==
  ASSUME NEW n \in Nat
  PROVE  IsFiniteSet(1..n) /\ Cardinality(1..n) = n /\ 1..n \in SUBSET Nat
BY FS_Interval

\* a set of places that has all before each of them is an interval
LEMMA FrontSet ==
  ASSUME NEW L \in Nat, NEW P \in SUBSET (1..L), \A i \in P : \A j \in 1..i : j \in P
  PROVE  Cardinality(P) \in 0..L /\ P = 1..Cardinality(P)
<1> DEFINE open == {i \in Nat : i + 1 \notin P}
<1>1. L \in open
  OBVIOUS
<1>2. PICK m \in open : \A i \in open : m <= i
  <2>1. open \in SUBSET Nat /\ open # {}
    BY <1>1
  <2> HIDE DEF open
  <2> QED
    BY <2>1, Least
<1>3. m \in Nat /\ m <= L /\ m + 1 \notin P
  BY <1>1, <1>2
<1>4. ASSUME NEW i \in 1..m PROVE i \in P
  <2>1. i - 1 \in Nat /\ ~(m <= i - 1)
    BY <1>3
  <2>2. i - 1 \notin open
    BY <1>2, <2>1
  <2>3. (i - 1) + 1 = i
    BY <1>3
  <2> QED
    BY <2>1, <2>2, <2>3
<1>5. ASSUME NEW i \in P PROVE i \in 1..m
  <2>1. i \in Nat /\ i >= 1
    OBVIOUS
  <2>2. i > m => m + 1 \in 1..i
    BY <1>3, <2>1
  <2> QED
    BY <1>3, <2>1, <2>2
<1>6. P = 1..m
  BY <1>4, <1>5
<1>7. Cardinality(1..m) = m
  BY <1>3, FS_Interval
<1> QED
  BY <1>3, <1>6, <1>7

\* The reranker puts the chunks in the order of their scores.
LEMMA RerankFacts ==
  ASSUME NEW score \in [Chunk -> Nat], NEW items \in Seq(Chunk)
  PROVE  LET r == RerankScored(score, items) IN
         /\ r \in Seq(Chunk) /\ Len(r) = Len(items)
         /\ \A x \in Range(items) : \E i \in 1..Len(r) : r[i] = x
         /\ Range(r) \subseteq Range(items)
         /\ \A i, j \in 1..Len(r) : i < j => score[r[i]] >= score[r[j]]
<1>1. PICK D : D = 1..Len(items)
  OBVIOUS
<1>2. D = DOMAIN items /\ D \in SUBSET Nat /\ IsFiniteSet(D) /\ Cardinality(D) = Len(items)
  <2>1. Len(items) \in Nat
    OBVIOUS
  <2>2. DOMAIN items = 1..Len(items)
    OBVIOUS
  <2>3. IsFiniteSet(1..Len(items)) /\ Cardinality(1..Len(items)) = Len(items)
        /\ 1..Len(items) \in SUBSET Nat
    BY <2>1, UpTo
  <2> QED
    BY <1>1, <2>2, <2>3
<1>3. PICK key : key = [i \in D |-> -score[items[i]]]
  OBVIOUS
<1>4. \A i \in D : items[i] \in Chunk /\ score[items[i]] \in Nat
  BY <1>1
<1>5. key \in [D -> Int] /\ \A i \in D : key[i] = -score[items[i]]
  BY <1>3, <1>4
<1>6. PICK p : p = Sorted(D, key)
  OBVIOUS
<1>7. /\ p \in Seq(D) /\ Len(p) = Cardinality(D) /\ Len(p) \in Nat
      /\ DOMAIN p = 1..Len(p)
      /\ \A n \in 1..Len(p) : p[n] \in D
      /\ \A i \in D : \E n \in 1..Len(p) : p[n] = i
      /\ \A m, n \in 1..Len(p) : m < n => Earlier(key, p[m], p[n])
      /\ \A m, n \in 1..Len(p) : p[m] = p[n] => m = n
  <2>1. D \in SUBSET Nat /\ IsFiniteSet(D) /\ key \in [D -> Int]
    BY <1>2, <1>5
  <2> QED
    BY <2>1, <1>6, SortedFacts
<1>8. PICK r : r = [i \in 1..Len(p) |-> items[p[i]]]
  OBVIOUS
<1>9. RerankScored(score, items) = r
  BY <1>2, <1>3, <1>6, <1>7, <1>8 DEF RerankScored, Chosen
<1>10. \A i \in 1..Len(p) : items[p[i]] \in Chunk
  BY <1>4, <1>7
<1>11. r \in [1..Len(p) -> Chunk]
  BY <1>8, <1>10
<1>12. r \in Seq(Chunk) /\ Len(r) = Len(items)
  <2>1. r \in Seq(Chunk) /\ Len(r) = Len(p)
    BY ONLY <1>7, <1>11, MakesList
  <2> QED
    BY <1>2, <1>7, <2>1
<1>13. ASSUME NEW x \in Range(items) PROVE \E i \in 1..Len(r) : r[i] = x
  <2>1. PICK j \in D : items[j] = x
    BY <1>1, RangeOf
  <2>2. PICK i \in 1..Len(p) : p[i] = j
    BY <1>7
  <2> QED
    BY <1>2, <1>7, <1>8, <1>12, <2>1, <2>2
<1>14. ASSUME NEW x \in Range(r) PROVE x \in Range(items)
  <2>1. PICK i \in 1..Len(r) : r[i] = x
    BY <1>12, RangeOf
  <2>2. p[i] \in 1..Len(items) /\ items[p[i]] = x
    BY <1>1, <1>2, <1>7, <1>8, <1>12, <2>1
  <2> QED
    BY <2>2, RangeOf
<1>15. ASSUME NEW i \in 1..Len(r), NEW j \in 1..Len(r), i < j
       PROVE  score[r[i]] >= score[r[j]]
  <2>1. i \in 1..Len(p) /\ j \in 1..Len(p)
    BY <1>2, <1>7, <1>12
  <2>2. Earlier(key, p[i], p[j]) /\ p[i] \in D /\ p[j] \in D
    BY <1>7, <1>15, <2>1
  <2>3. r[i] = items[p[i]] /\ r[j] = items[p[j]]
    BY <1>8, <2>1
  <2>4. score[items[p[i]]] \in Nat /\ score[items[p[j]]] \in Nat
    BY <1>4, <2>2
  <2>5. key[p[i]] = -score[items[p[i]]] /\ key[p[j]] = -score[items[p[j]]]
    BY <1>5, <2>2
  <2> QED
    BY <2>2, <2>3, <2>4, <2>5 DEF Earlier
<1> QED
  BY <1>9, <1>12, <1>13, <1>14, <1>15

\* its score is too low: for what is shown, or in itself
TooLow(score, c, shown) ==
  \/ score[c] < AbsFloor
  \/ \E d \in Range(shown) : 10 * score[c] < RatioTenths * score[d]
  \/ RatioTenths > 10 /\ shown = <<>>

\* What the cliff leaves out has a low score, or there is no more place.
LEMMA CliffFacts ==
  ASSUME NEW score \in [Chunk -> Nat], NEW items \in Seq(Chunk),
         NEW floor \in Nat, NEW ceiling \in Nat
  PROVE  LET a == SelectByCliff(score, RerankScored(score, items), floor, ceiling) IN
         /\ a \in Seq(Chunk) /\ Len(a) <= (IF floor > ceiling THEN floor ELSE ceiling)
         /\ \A x \in Range(items) :
              x \in Range(a) \/ Len(a) >= ceiling \/ TooLow(score, x, a)
<1>1. PICK r : r = RerankScored(score, items)
  OBVIOUS
<1>2. /\ r \in Seq(Chunk) /\ Len(r) \in Nat /\ DOMAIN r = 1..Len(r)
      /\ \A x \in Range(items) : \E i \in 1..Len(r) : r[i] = x
      /\ \A i, j \in 1..Len(r) : i < j => score[r[i]] >= score[r[j]]
  <2>1. r \in Seq(Chunk)
    BY <1>1, RerankFacts
  <2> QED
    BY <1>1, <2>1, RerankFacts, RangeOf
<1>3. PICK most : most = IF ceiling > floor THEN ceiling ELSE floor
  OBVIOUS
<1>4. most \in Nat /\ most >= ceiling /\ most >= floor
  BY <1>3
<1> DEFINE high(i) == /\ 10 * score[r[i]] >= RatioTenths * score[r[1]]
                      /\ score[r[i]] >= AbsFloor
           P == {i \in DOMAIN r : i <= floor \/ (i <= most /\ \A j \in (floor + 1)..i : high(j))}
           n == Cardinality(P)
           a == Take(r, n)
<1>5. SelectByCliff(score, r, floor, ceiling) = a
  BY <1>3 DEF SelectByCliff
<1>6. n \in 0..Len(r) /\ P = 1..n
  <2>1. P \in SUBSET (1..Len(r))
    BY <1>2
  <2>2. \A i \in P : \A j \in 1..i : j \in P
    <3> HIDE DEF high
    <3> QED
      BY <1>2, <1>4
  <2> HIDE DEF P
  <2> QED
    BY <1>2, <2>1, <2>2, FrontSet
<1>7. n <= most
  <2>1. CASE n = 0
    BY <1>4, <2>1
  <2>2. CASE n # 0
    <3>1. n \in P
      <4> HIDE DEF P, n
      <4> QED
        BY <1>2, <1>6, <2>2
    <3>2. \A i \in P : i <= most
      <4> HIDE DEF high
      <4> QED
        BY <1>2, <1>4
    <3> HIDE DEF P, n
    <3> QED
      BY <3>1, <3>2
  <2> QED
    BY <2>1, <2>2
<1> HIDE DEF n, a
<1>8. /\ a \in Seq(Chunk) /\ Len(a) = n
      /\ \A i \in 1..n : a[i] = r[i]
  <2>1. n \in Nat /\ n <= Len(r)
    BY <1>2, <1>6
  <2>2. /\ a \in Seq(Chunk)
        /\ Len(r) <= n => a = r
        /\ Len(r) > n => Len(a) = n
        /\ \A i \in 1..Len(a) : a[i] = r[i]
    BY <1>2, <2>1, TakeFacts DEF a
  <2>3. Len(a) = n
    <3>1. CASE Len(r) = n
      BY <2>2, <3>1, <1>2
    <3>2. CASE Len(r) > n
      BY <2>2, <3>2
    <3>3. \A k, l \in Nat : k <= l => l = k \/ l > k
      OBVIOUS
    <3> QED
      BY ONLY <1>2, <2>1, <3>1, <3>2, <3>3
  <2> QED
    BY <2>2, <2>3
<1>9. ASSUME NEW x \in Range(items), x \notin Range(a), n < ceiling
      PROVE  TooLow(score, x, a)
  <2>1. PICK k \in 1..Len(r) : r[k] = x
    BY <1>2
  <2>2. k > n
    <3> SUFFICES ASSUME k <= n PROVE FALSE
      BY <1>2, <1>6, <2>1
    <3>1. a[k] = x /\ k \in 1..Len(a)
      BY <1>2, <1>6, <1>8, <2>1
    <3>2. x \in Range(a)
      BY <1>8, <3>1, RangeOf
    <3> QED
      BY <1>9, <3>2
  <2>3. n + 1 \in DOMAIN r /\ n + 1 \notin P
    <3> HIDE DEF P
    <3> QED
      BY <1>2, <1>6, <2>1, <2>2
  <2>4. n + 1 <= most
    BY <1>4, <1>6, <1>9
  <2>5. PICK j \in (floor + 1)..(n + 1) : ~high(j)
    <3> HIDE DEF high
    <3> QED
      BY <2>3, <2>4
  <2>6. j \in 1..Len(r) /\ 1 \in 1..Len(r) /\ j <= k
    BY <1>2, <1>6, <2>1, <2>2, <2>5
  <2>7. /\ score[r[j]] \in Nat /\ score[x] \in Nat /\ score[r[1]] \in Nat
        /\ score[r[j]] >= score[x]
    <3>1. r[j] \in Chunk /\ r[1] \in Chunk /\ x \in Chunk
      BY <1>2, <2>1, <2>6
    <3>2. CASE j = k
      BY <2>1, <3>1, <3>2
    <3>3. CASE j # k
      <4>1. j < k
        BY <2>6, <3>3, <2>1
      <4> QED
        BY <1>2, <2>1, <2>6, <3>1, <4>1
    <3> QED
      BY <3>2, <3>3
  <2>8. CASE ~(score[r[j]] >= AbsFloor)
    BY <2>7, <2>8, RetrievalAssumption DEF TooLow
  <2>9. CASE ~(10 * score[r[j]] >= RatioTenths * score[r[1]])
    <3>1. PICK t : t = RatioTenths * score[r[1]]
      OBVIOUS
    <3>2. t \in Nat /\ RatioTenths \in Nat
      BY <3>1, <2>7, RetrievalAssumption
    <3>3. 10 * score[x] < t
      BY <2>7, <2>9, <3>1, <3>2
    <3>4. CASE n >= 1
      <4>1. a[1] = r[1] /\ 1 \in 1..Len(a)
        BY <1>2, <1>6, <1>8, <3>4
      <4>2. r[1] \in Range(a)
        BY <1>8, <4>1, RangeOf
      <4> QED
        BY <3>1, <3>3, <4>2 DEF TooLow
    <3>5. CASE n = 0
      <4>1. j = 1 /\ a = <<>>
        BY <1>8, <2>5, <3>5
      <4>2. RatioTenths > 10
        <5> SUFFICES ASSUME RatioTenths <= 10 PROVE FALSE
          BY <3>2
        <5>1. \A u \in Nat : RatioTenths * u <= 10 * u
          BY <3>2
        <5> QED
          BY <2>7, <2>9, <4>1, <5>1
      <4> QED
        BY <4>1, <4>2 DEF TooLow
    <3> QED
      BY <1>2, <1>6, <3>4, <3>5
  <2> QED
    BY <2>5, <2>8, <2>9
<1>10. Len(a) <= (IF floor > ceiling THEN floor ELSE ceiling)
  BY <1>3, <1>7, <1>8
<1>11. \A x \in Range(items) : x \in Range(a) \/ Len(a) >= ceiling \/ TooLow(score, x, a)
  <2>1. n \in Nat
    BY <1>2, <1>6
  <2> QED
    BY <1>8, <1>9, <2>1
<1> QED
  BY <1>1, <1>5, <1>8, <1>10, <1>11

-----------------------------------------------------------------------------
\* of a set that has at most one element in common
LEMMA AtMostOne ==
  ASSUME NEW S, NEW g, S \subseteq {g}
  PROVE  Cardinality(S) <= 1
<1>1. IsFiniteSet({g}) /\ Cardinality({g}) = 1
  BY FS_Singleton
<1>2. Cardinality(S) <= Cardinality({g})
  BY <1>1, FS_Subset
<1> QED
  BY <1>1, <1>2

\* A base search shows a hit, or has a reason not to.
LEMMA BaseLosesNothing ==
  ASSUME asked \in BaseAsked, answer = SearchBase(asked)
  PROVE  NothingFoundIsLost
<1>1. PICK q : q = asked
  OBVIOUS
<1>2. /\ q \in AnyBase
      /\ q.reranker = "works" => q.score \in [Chunk -> Nat]
  BY <1>1, AskedAssumption
<1>3. PICK C : C = Ceiling(q)
  OBVIOUS
<1>4. C \in Nat /\ q.floor \in Nat
  BY <1>2, <1>3 DEF Ceiling, AnyBase
<1>5. PICK H, G, items0 :
        H = BaseHits(q) /\ G = GraphOnly(q.graph, H, C) /\ items0 = BaseItems(q)
  OBVIOUS
<1>6. /\ H \in Seq(Chunk) /\ G \in Seq(Chunk) /\ Range(H) \cap Range(G) = {}
      /\ items0 \in Seq(Chunk) /\ NoTwice(items0)
      /\ \A c \in Range(items0) : /\ c \in Range(H) \cup Range(G)
                                  /\ q.tests \/ PathOf[c] \notin TestPath
      /\ \A c \in Range(H) : q.tests \/ PathOf[c] \notin TestPath => Covered(c, Range(items0))
  BY <1>2, <1>3, <1>5, BaseItemsFacts
<1>7. PICK hybrid, graph :
        hybrid = Keep(items0, Range(H)) /\ graph = Keep(items0, Chunk \ Range(H))
  OBVIOUS
<1>8. /\ hybrid \in Seq(Chunk) /\ Range(hybrid) = Range(items0) \cap Range(H)
      /\ graph \in Seq(Chunk) /\ Range(graph) = Range(items0) \cap (Chunk \ Range(H))
  BY <1>6, <1>7, KeepFacts
<1>9. PICK items : items = hybrid \o graph
  OBVIOUS
<1>10. items \in Seq(Chunk) /\ Range(items) = Range(items0)
  <2>1. items \in Seq(Chunk) /\ Range(items) = Range(hybrid) \cup Range(graph)
    BY <1>8, <1>9, JoinFacts
  <2>2. Range(items0) \subseteq Chunk
    BY <1>6, RangeOf
  <2> QED
    BY <1>8, <2>1, <2>2
<1>11. PICK degraded : degraded = SelectDegraded(hybrid, graph, C)
  OBVIOUS
<1>12. answer = CASE Len(items) <= q.floor -> IF Len(items) > C THEN degraded ELSE items
                  [] Len(items) > q.floor /\ q.reranker # "works" -> degraded
                  [] OTHER -> SelectByCliff(q.score, RerankScored(q.score, items), q.floor, C)
  BY <1>1, <1>3, <1>5, <1>7, <1>9, <1>11 DEF SearchBase
<1>13. Len(items) \in Nat
  BY <1>10
<1> DEFINE ranked == q.reranker = "works"
           hits == {c \in Range(H) : q.tests \/ PathOf[c] \notin TestPath}
           Full == ranked /\ Len(answer) >= C
           Fair == ~ranked /\ Len(answer) = C /\ Cardinality(Range(answer) \cap Range(G)) <= 1
           most == IF ranked /\ q.floor > C THEN q.floor ELSE C
           Why(d) == d \in Range(answer) \/ Full \/ Fair \/ (ranked /\ TooLow(q.score, d, answer))
<1>14. SUFFICES Len(answer) <= most /\ \A d \in Range(hybrid) : Why(d)
  <2>1. ASSUME NEW c \in hits, \A d \in Range(hybrid) : Why(d)
        PROVE  \/ IsShown(c)
               \/ \E d \in Range(G) : NestedIn(c, d)
               \/ ranked /\ (Len(answer) >= C \/ \E d \in hits : TooLow(q.score, d, answer) /\ (c = d \/ NestedIn(c, d)))
               \/ ~ranked /\ Len(answer) = C /\ Cardinality(Range(answer) \cap Range(G)) <= 1
    <3>1. PICK d \in Range(items0) : c = d \/ NestedIn(c, d)
      BY <1>6 DEF Covered
    <3>2. CASE d \in Range(H)
      <4>1. d \in Range(hybrid) /\ d \in hits
        BY <1>6, <1>8, <3>2
      <4>2. CASE d \in Range(answer)
        BY <3>1, <4>2 DEF IsShown
      <4>3. CASE Full \/ Fair
        BY <4>3
      <4>4. CASE ranked /\ TooLow(q.score, d, answer)
        BY <3>1, <4>1, <4>4
      <4> QED
        BY <2>1, <4>1, <4>2, <4>3, <4>4
    <3>3. CASE d \notin Range(H)
      <4>1. d \in Range(G)
        BY <1>6, <3>3
      <4>2. c # d
        BY <3>3
      <4> QED
        BY <3>1, <4>1, <4>2
    <3> QED
      BY <3>2, <3>3
  <2> SUFFICES ASSUME Len(answer) <= most, \A d \in Range(hybrid) : Why(d)
               PROVE  NothingFoundIsLost
    OBVIOUS
  <2>2. \A c \in hits :
               \/ IsShown(c)
               \/ \E d \in Range(G) : NestedIn(c, d)
               \/ ranked /\ (Len(answer) >= C \/ \E d \in hits : TooLow(q.score, d, answer) /\ (c = d \/ NestedIn(c, d)))
               \/ ~ranked /\ Len(answer) = C /\ Cardinality(Range(answer) \cap Range(G)) <= 1
    BY <2>1
  <2>3. Len(answer) <= most
    OBVIOUS
  <2> QED
    BY ONLY <1>1, <1>3, <1>5, <2>2, <2>3 DEF NothingFoundIsLost, MayShow, TooLow
<1> HIDE DEF most
<1>16. /\ degraded \in Seq(Chunk) /\ Len(degraded) <= C
       /\ \A d \in Range(hybrid) :
            \/ d \in Range(degraded)
            \/ Len(degraded) = C /\ Cardinality(Range(degraded) \cap Range(G)) <= 1
  <2>1. /\ degraded \in Seq(Chunk) /\ Len(degraded) <= C
        /\ hybrid # <<>> =>
             \/ Range(hybrid) \subseteq Range(degraded)
             \/ Len(degraded) = C /\ OneMore(degraded, hybrid)
    BY <1>4, <1>8, <1>11, DegradedFacts
  <2> SUFFICES ASSUME NEW d \in Range(hybrid), d \notin Range(degraded)
               PROVE  Len(degraded) = C /\ Cardinality(Range(degraded) \cap Range(G)) <= 1
    BY <2>1
  <2>2. hybrid # <<>>
    <3>1. Range(<<>>) = {}
      BY DEF Range
    <3> QED
      BY <3>1
  <2>3. PICK g : Range(degraded) \subseteq Range(hybrid) \cup {g}
    BY <2>1, <2>2 DEF OneMore
  <2>4. Range(degraded) \cap Range(G) \subseteq {g}
    BY <1>6, <1>8, <2>3
  <2> QED
    BY <2>1, <2>2, <2>4, AtMostOne
<1>17. C <= most
  BY <1>4 DEF most
<1>18. CASE answer = degraded
  <2>1. Len(answer) <= most
    <3>1. Len(degraded) \in Nat
      BY <1>16
    <3>2. most \in Nat
      BY <1>4 DEF most
    <3> QED
      BY <1>4, <1>16, <1>17, <1>18, <3>1, <3>2
  <2>2. \A d \in Range(hybrid) : Why(d)
    <3>1. C >= C
      BY <1>4
    <3> QED
      BY <1>16, <1>18, <3>1
  <2> QED
    BY <2>1, <2>2
<1>19. CASE answer = items /\ ~(Len(items) > C)
  <2>1. Len(answer) <= most
    <3>2. most \in Nat
      BY <1>4 DEF most
    <3> QED
      BY <1>4, <1>13, <1>17, <1>19, <3>2
  <2>2. \A d \in Range(hybrid) : Why(d)
    BY <1>8, <1>10, <1>19
  <2> QED
    BY <2>1, <2>2
<1>20. CASE ranked /\ answer = SelectByCliff(q.score, RerankScored(q.score, items), q.floor, C)
  <2>1. q.score \in [Chunk -> Nat]
    BY <1>2, <1>20
  <2>2. /\ Len(answer) <= (IF q.floor > C THEN q.floor ELSE C)
        /\ \A x \in Range(items) :
             x \in Range(answer) \/ Len(answer) >= C \/ TooLow(q.score, x, answer)
    BY <1>4, <1>10, <1>20, <2>1, CliffFacts
  <2>3. Len(answer) <= most
    BY <1>20, <2>2 DEF most
  <2>4. \A d \in Range(hybrid) : Why(d)
    BY <1>8, <1>10, <1>20, <2>2
  <2> QED
    BY <2>3, <2>4
<1>21. \/ answer = degraded
       \/ answer = items /\ ~(Len(items) > C)
       \/ ranked /\ answer = SelectByCliff(q.score, RerankScored(q.score, items), q.floor, C)
  BY <1>4, <1>12, <1>13
<1> QED
  BY <1>18, <1>19, <1>20, <1>21

-----------------------------------------------------------------------------
(* Searches: search_multi                                                  *)

\* what a chunk adds for its rank in a run
LEMMA ShareNat ==
  ASSUME NEW run \in Seq(Chunk), NEW c
  PROVE  Share(run, c) \in Nat
<1>1. RrfUnit \in Nat
  BY RetrievalAssumption DEF RrfUnit
<1>2. CASE c \in Range(run)
  <2>1. PICK rank : rank = CHOOSE r \in DOMAIN run : run[r] = c
    OBVIOUS
  <2>2. rank \in DOMAIN run
    BY <1>2, <2>1 DEF Range
  <2>3. rank \in Nat /\ rank >= 1 /\ RrfK \in Nat
    BY <2>2, RetrievalAssumption
  <2>4. \A u, v \in Nat : v >= 1 => u \div v \in Nat
    OBVIOUS
  <2>5. RrfUnit \div (RrfK + rank) \in Nat
    <3>1. PICK u, v : u = RrfUnit /\ v = RrfK + rank
      OBVIOUS
    <3>2. u \in Nat /\ v \in Nat /\ v >= 1
      BY <1>1, <2>3, <3>1
    <3> QED
      BY <2>4, <3>1, <3>2
  <2> QED
    BY <1>2, <2>1, <2>5 DEF Share
<1>3. CASE c \notin Range(run)
  BY <1>3 DEF Share
<1> QED
  BY <1>2, <1>3

\* The reciprocal ranks of a chunk add up to a number.
LEMMA ScoreNat ==
  ASSUME NEW lists \in Seq(Seq(Chunk)), NEW c
  PROVE  RrfScore(lists, c) \in Nat
<1> DEFINE n == Len(lists)
           step == [i \in 1..n |-> [v \in Nat |-> v + Share(lists[i], c)]]
           Body(f) == [i \in 0..n |-> IF i = 0 THEN 0 ELSE f[i - 1] + Share(lists[i], c)]
           sum == CHOOSE f : f = Body(f)
<1>1. RrfScore(lists, c) = sum[n]
  BY DEF RrfScore
<1>2. n \in Nat /\ \A i \in 1..n : Share(lists[i], c) \in Nat
  BY ShareNat
<1>3. PICK f : IsRun(f, Nat, 0, 0, n, step)
  <2>1. IsStep(step, Nat, 0, n)
    <3> HIDE DEF n
    <3>1. step \in [1..n -> [Nat -> Nat]]
      BY <1>2
    <3> QED
      BY <3>1 DEF IsStep
  <2>2. 0 \in Nat /\ 0 <= n
    BY <1>2
  <2> HIDE DEF step, n
  <2> QED
    BY <1>2, <2>1, <2>2, Iterates
<1>4. \A i \in 1..n : f[i] = f[i - 1] + Share(lists[i], c)
  <2> TAKE i \in 1..n
  <2>1. i - 1 \in 0..n /\ i \in (0 + 1)..n
    BY <1>2
  <2> HIDE DEF n
  <2>2. f[i - 1] \in Nat
    BY <1>3, <2>1 DEF IsRun
  <2> QED
    BY <1>3, <2>1, <2>2 DEF IsRun
<1> HIDE DEF step
<1>5. f = Body(f)
  <2> HIDE DEF n
  <2> QED
    BY <1>2, <1>3, <1>4 DEF IsRun
<1>6. sum = Body(sum)
  <2> HIDE DEF Body
  <2> QED
    BY <1>5
<1> HIDE DEF sum
<1>7. sum[0] = 0 /\ \A i \in 1..n : sum[i] = sum[i - 1] + Share(lists[i], c)
  <2> HIDE DEF n
  <2> QED
    BY <1>2, <1>6
<1> DEFINE good == {i \in 0..n : sum[i] \in Nat}
<1>8. 0 \in good /\ \A i \in 1..n : i - 1 \in good => i \in good
  <2> HIDE DEF n
  <2> QED
    BY <1>2, <1>7
<1>9. n \in good
  <2> HIDE DEF good, n
  <2>1. n \in 0..n
    BY <1>2
  <2> QED
    BY <1>2, <1>8, <2>1, Climb
<1> QED
  BY <1>1, <1>9

\* Merging lists each chunk that a query found once.
LEMMA MergeFacts ==
  ASSUME NEW lists \in Seq(Seq(Chunk))
  PROVE  LET m == RrfMerge(lists) IN m \in Seq(Chunk) /\ NoTwice(m)
<1>1. PICK F : F = UNION {Range(lists[i]) : i \in DOMAIN lists}
  OBVIOUS
<1>2. F \subseteq Chunk
  <2> SUFFICES ASSUME NEW i \in DOMAIN lists PROVE Range(lists[i]) \subseteq Chunk
    BY <1>1
  <2>1. lists[i] \in Seq(Chunk)
    OBVIOUS
  <2> QED
    BY <2>1, RangeOf
<1>3. F \in SUBSET Nat /\ IsFiniteSet(F)
  BY <1>2, FS_Subset, RetrievalAssumption
<1>4. PICK key : key = [c \in F |-> -RrfScore(lists, c)]
  OBVIOUS
<1>5. key \in [F -> Int]
  <2>1. \A c \in F : -RrfScore(lists, c) \in Int
    <3> TAKE c \in F
    <3>1. RrfScore(lists, c) \in Nat
      BY ScoreNat
    <3> QED
      BY <3>1
  <2> QED
    BY <1>4, <2>1
<1>6. PICK m : m = Sorted(F, key)
  OBVIOUS
<1>7. /\ m \in Seq(F) /\ Len(m) \in Nat
      /\ \A i, j \in 1..Len(m) : m[i] = m[j] => i = j
  BY <1>3, <1>5, <1>6, SortedFacts
<1>8. NoTwice(m)
  BY ONLY <1>7 DEF NoTwice
<1>9. m \in Seq(Chunk)
  BY <1>2, <1>7, Wider
<1> QED
  BY <1>1, <1>4, <1>6, <1>8, <1>9 DEF RrfMerge

\* the hits of each query, none of a query that fails
LEMMA RunsFacts ==
  ASSUME NEW q \in AnyMulti
  PROVE  Runs(q) \in Seq(Seq(Chunk))
<1> DEFINE Query == [hits : Listing, works : BOOLEAN]
<1>1. PICK pairs : pairs = EmbedPairs(q)
  OBVIOUS
<1>2. pairs \in Seq(Query)
  <2>1. q.queries \in Seq(Query)
    BY DEF AnyMulti
  <2>2. Take(q.queries, 1) \in Seq(Query)
    BY <2>1, TakeFacts
  <2>3. <<>> \in Seq(Query)
    OBVIOUS
  <2> QED
    BY <1>1, <2>1, <2>2, <2>3 DEF EmbedPairs
<1>3. Len(pairs) \in Nat /\ DOMAIN pairs = 1..Len(pairs)
  BY <1>2
<1>4. PICK r : r = [i \in 1..Len(pairs) |->
                      IF pairs[i].works THEN Hits(pairs[i].hits, q.far) ELSE <<>>]
  OBVIOUS
<1>5. Runs(q) = r
  BY <1>1, <1>3, <1>4 DEF Runs
<1>6. \A i \in 1..Len(pairs) :
        (IF pairs[i].works THEN Hits(pairs[i].hits, q.far) ELSE <<>>) \in Seq(Chunk)
  <2> TAKE i \in 1..Len(pairs)
  <2>1. pairs[i] \in Query
    <3> HIDE DEF Query
    <3> QED
      BY <1>2, RangeOf
  <2>2. pairs[i].hits \in Listing
    BY <2>1
  <2>3. Hits(pairs[i].hits, q.far) \in Seq(Chunk)
    BY <2>2, HitsFacts
  <2>4. <<>> \in Seq(Chunk)
    OBVIOUS
  <2> QED
    BY <2>3, <2>4
<1>7. r \in [1..Len(pairs) -> Seq(Chunk)]
  BY ONLY <1>4, <1>6
<1>8. r \in Seq(Seq(Chunk))
  BY ONLY <1>3, <1>7, MakesList
<1> QED
  BY <1>5, <1>8

\* The hits of all queries and what only the graph knows name no chunk twice.
LEMMA MultiItemsFacts ==
  ASSUME NEW q \in AnyMulti
  PROVE  MultiItems(q) \in Seq(Chunk) /\ NoTwice(MultiItems(q))
<1>1. PICK m, g : m = RrfMerge(Runs(q)) /\ g = GraphOnly(q.graph, m, q.ceiling)
  OBVIOUS
<1>2. m \in Seq(Chunk) /\ NoTwice(m)
  BY <1>1, RunsFacts, MergeFacts
<1>3. g \in Seq(Chunk) /\ NoTwice(g) /\ Range(g) \cap Range(m) = {}
  BY <1>1, <1>2, GraphOnlyFacts
<1>4. MultiItems(q) = m \o g
  BY <1>1 DEF MultiItems
<1> QED
  BY <1>2, <1>3, <1>4, JoinFacts

-----------------------------------------------------------------------------
(* Searches: one chunk of a file                                           *)

\* no two chunks of one file
Apart(s) == \A i, j \in 1..Len(s) : PathOf[s[i]] = PathOf[s[j]] => i = j

\* The files of a list are those of its chunks.
LEMMA PathsOf ==
  ASSUME NEW s \in Seq(Chunk)
  PROVE  /\ PathsIn(s) = {PathOf[x] : x \in Range(s)}
         /\ \A i \in 1..Len(s) : PathOf[s[i]] \in PathsIn(s)
         /\ \A p \in PathsIn(s) : \E i \in 1..Len(s) : PathOf[s[i]] = p
<1>1. DOMAIN s = 1..Len(s)
  OBVIOUS
<1> QED
  BY <1>1 DEF PathsIn, Range

\* a list that has one chunk of a file has as many files as chunks
LEMMA CountPaths ==
  ASSUME NEW s \in Seq(Chunk)
  PROVE  /\ IsFiniteSet(PathsIn(s)) /\ Cardinality(PathsIn(s)) \in Nat
         /\ Apart(s) => Cardinality(PathsIn(s)) = Len(s)
<1>1. PICK n : n = Len(s)
  OBVIOUS
<1>2. n \in Nat /\ IsFiniteSet(1..n) /\ Cardinality(1..n) = n
  BY <1>1, UpTo
<1>3. PICK T : T = PathsIn(s)
  OBVIOUS
<1>4. PICK f : f = [i \in 1..n |-> PathOf[s[i]]]
  OBVIOUS
<1>5. f \in [1..n -> T] /\ \A p \in T : \E i \in 1..n : f[i] = p
  BY <1>1, <1>3, <1>4, PathsOf
<1>6. f \in Surjection(1..n, T)
  BY ONLY <1>5 DEF Surjection
<1>7. IsFiniteSet(T) /\ (Cardinality(T) = Cardinality(1..n) <=> f \in Injection(1..n, T))
  BY ONLY <1>2, <1>6, FS_Surjection
<1>8. Cardinality(T) \in Nat
  BY <1>7, FS_CardinalityType
<1>9. ASSUME Apart(s) PROVE f \in Injection(1..n, T)
  <2>1. \A i, j \in 1..n : f[i] = f[j] => i = j
    BY <1>1, <1>4, <1>9 DEF Apart
  <2> QED
    BY ONLY <1>5, <2>1 DEF Injection, IsInjective
<1> QED
  BY <1>1, <1>2, <1>3, <1>7, <1>8, <1>9

\* One chunk more: it is taken when its file is new and there is space.
LEMMA OneFileStep ==
  ASSUME NEW kept \in Seq(Chunk), NEW c \in Chunk, NEW maxFiles \in Nat
  PROVE  LET r == DiversifyStep(kept, c, maxFiles, 1) IN
         /\ r \in Seq(Chunk) /\ Len(r) >= Len(kept)
         /\ PathsIn(r) \subseteq PathsIn(kept) \cup {PathOf[c]}
         /\ Apart(kept) => Apart(r)
         /\ Apart(kept) /\ Len(kept) <= maxFiles => Len(r) <= maxFiles
         /\ Apart(kept) /\ Len(r) < maxFiles => PathsIn(r) = PathsIn(kept) \cup {PathOf[c]}
<1>1. PICK r : r = DiversifyStep(kept, c, maxFiles, 1)
  OBVIOUS
<1>2. PICK S : S = {i \in DOMAIN kept : PathOf[kept[i]] = PathOf[c]}
  OBVIOUS
<1>3. Len(kept) \in Nat /\ DOMAIN kept = 1..Len(kept)
  OBVIOUS
<1>4. IsFiniteSet(S) /\ Cardinality(S) \in Nat /\ (Cardinality(S) = 0 <=> S = {})
  <2>1. S \in SUBSET (1..Len(kept)) /\ IsFiniteSet(1..Len(kept))
    BY <1>2, <1>3, UpTo
  <2>2. IsFiniteSet(S)
    BY <2>1, FS_Subset
  <2> QED
    BY <2>2, FS_CardinalityType, FS_EmptySet
<1>5. S = {} <=> PathOf[c] \notin PathsIn(kept)
  BY <1>2 DEF PathsIn
<1>6. /\ Cardinality(PathsIn(kept)) \in Nat
      /\ Apart(kept) => Cardinality(PathsIn(kept)) = Len(kept)
  BY CountPaths
<1>7. r = IF Cardinality(S) >= 1 \/ (Cardinality(S) = 0 /\ Cardinality(PathsIn(kept)) >= maxFiles)
          THEN kept ELSE Append(kept, c)
  BY <1>1, <1>2 DEF DiversifyStep
<1>8. CASE Cardinality(S) >= 1
  <2>1. r = kept /\ PathOf[c] \in PathsIn(kept)
    BY <1>4, <1>5, <1>7, <1>8
  <2> QED
    BY <1>1, <1>3, <2>1
<1>9. CASE Cardinality(S) = 0 /\ Cardinality(PathsIn(kept)) >= maxFiles
  <2>1. r = kept
    BY <1>7, <1>9
  <2>2. Apart(kept) => ~(Len(r) < maxFiles)
    BY <1>3, <1>6, <1>9, <2>1
  <2> QED
    BY <1>1, <1>3, <2>1, <2>2
<1>10. CASE Cardinality(S) = 0 /\ ~(Cardinality(PathsIn(kept)) >= maxFiles)
  <2>1. r = Append(kept, c)
    BY <1>7, <1>10
  <2>2. /\ r \in Seq(Chunk) /\ Len(r) = Len(kept) + 1 /\ r[Len(kept) + 1] = c
        /\ \A i \in 1..Len(kept) : r[i] = kept[i]
    BY <2>1
  <2>3. \A i \in 1..Len(r) : i \in 1..Len(kept) \/ i = Len(kept) + 1
    BY <1>3, <2>2
  <2>4. PathsIn(r) = PathsIn(kept) \cup {PathOf[c]}
    <3>1. ASSUME NEW p \in PathsIn(r) PROVE p \in PathsIn(kept) \cup {PathOf[c]}
      <4>1. PICK i \in 1..Len(r) : PathOf[r[i]] = p
        BY <2>2, PathsOf
      <4> QED
        BY <2>2, <2>3, <4>1, PathsOf
    <3>2. ASSUME NEW p \in PathsIn(kept) PROVE p \in PathsIn(r)
      <4>1. PICK i \in 1..Len(kept) : PathOf[kept[i]] = p
        BY PathsOf
      <4>2. i \in 1..Len(r) /\ r[i] = kept[i]
        BY <1>3, <2>2
      <4> QED
        BY <2>2, <4>1, <4>2, PathsOf
    <3>3. PathOf[c] \in PathsIn(r)
      <4>1. Len(kept) + 1 \in 1..Len(r)
        BY <1>3, <2>2
      <4> QED
        BY <2>2, <4>1, PathsOf
    <3> QED
      BY <3>1, <3>2, <3>3
  <2>5. ASSUME Apart(kept) PROVE Apart(r)
    <3> SUFFICES ASSUME NEW i \in 1..Len(r), NEW j \in 1..Len(r), PathOf[r[i]] = PathOf[r[j]]
                 PROVE  i = j
      BY DEF Apart
    <3>1. \A k \in 1..Len(kept) : PathOf[r[k]] # PathOf[c]
      BY <1>4, <1>5, <1>10, <2>2, PathsOf
    <3> QED
      BY <2>2, <2>3, <2>5, <3>1 DEF Apart
  <2>6. Apart(kept) => Len(r) <= maxFiles
    BY <1>3, <1>6, <1>10, <2>2
  <2> QED
    BY <1>1, <1>3, <2>2, <2>4, <2>5, <2>6
<1> QED
  BY <1>4, <1>8, <1>9, <1>10

\* One chunk of each file is left, until there are enough.
LEMMA DiversifyFacts ==
  ASSUME NEW items \in Seq(Chunk), NEW maxFiles \in Nat
  PROVE  LET r == DiversifyByFile(items, maxFiles, 1) IN
         /\ r \in Seq(Chunk) /\ Apart(r) /\ PathsIn(r) \subseteq PathsIn(items)
         /\ Len(r) = Lower(maxFiles, Cardinality(PathsIn(items)))
<1> DEFINE n == Len(items)
           V == Seq(Chunk)
           step == [i \in 1..n |-> [v \in V |-> DiversifyStep(v, items[i], maxFiles, 1)]]
           Body(f) == [i \in 0..n |-> IF i = 0 THEN <<>>
                                      ELSE DiversifyStep(f[i - 1], items[i], maxFiles, 1)]
           kept == CHOOSE f : f = Body(f)
<1>1. DiversifyByFile(items, maxFiles, 1) = kept[n]
  BY DEF DiversifyByFile
<1>2. n \in Nat /\ \A i \in 1..n : items[i] \in Chunk
  BY RangeOf
<1>3. \E f : f = Body(f)
  <2>1. IsStep(step, V, 0, n)
    <3>1. \A v \in V, c \in Chunk : DiversifyStep(v, c, maxFiles, 1) \in V
      BY OneFileStep
    <3> HIDE DEF V, n
    <3>2. step \in [1..n -> [V -> V]]
      BY <1>2, <3>1
    <3> QED
      BY <3>2 DEF IsStep
  <2>2. <<>> \in V /\ 0 \in Nat /\ 0 <= n
    BY <1>2
  <2> HIDE DEF step, V, n
  <2>3. PICK f : IsRun(f, V, <<>>, 0, n, step)
    BY <1>2, <2>1, <2>2, Iterates
  <2>4. \A i \in 1..n : f[i] = DiversifyStep(f[i - 1], items[i], maxFiles, 1)
    <3> TAKE i \in 1..n
    <3>1. i - 1 \in 0..n /\ i \in (0 + 1)..n
      BY <1>2
    <3>2. f[i - 1] \in V
      BY <2>3, <3>1 DEF IsRun
    <3> QED
      BY <2>3, <3>1, <3>2 DEF step, IsRun
  <2>5. f = Body(f)
    BY <1>2, <2>3, <2>4 DEF IsRun
  <2> QED
    BY <2>5
<1>4. kept = Body(kept)
  <2> HIDE DEF Body
  <2> QED
    BY <1>3
<1> HIDE DEF kept, step, V
<1>5. kept[0] = <<>> /\ \A i \in 1..n : kept[i] = DiversifyStep(kept[i - 1], items[i], maxFiles, 1)
  BY <1>2, <1>4
<1> DEFINE Seen(i) == {PathOf[items[j]] : j \in 1..i}
           Good(i) == /\ kept[i] \in Seq(Chunk) /\ Apart(kept[i]) /\ Len(kept[i]) <= maxFiles
                      /\ PathsIn(kept[i]) \subseteq Seen(i)
                      /\ Len(kept[i]) < maxFiles => PathsIn(kept[i]) = Seen(i)
           good == {i \in 0..n : Good(i)}
<1>6. 0 \in good
  <2>1. <<>> \in Seq(Chunk) /\ PathsIn(<<>>) = {} /\ Apart(<<>>) /\ Len(<<>>) = 0
    BY DEF PathsIn, Apart
  <2>2. Seen(0) = {}
    OBVIOUS
  <2>3. Good(0)
    BY <1>5, <2>1, <2>2
  <2> QED
    BY <1>2, <2>3
<1>7. ASSUME NEW i \in 1..n, i - 1 \in good PROVE i \in good
  <2>1. PICK k, r, c : k = kept[i - 1] /\ r = kept[i] /\ c = items[i]
    OBVIOUS
  <2>2. /\ k \in Seq(Chunk) /\ Apart(k) /\ Len(k) <= maxFiles
        /\ PathsIn(k) \subseteq Seen(i - 1)
        /\ Len(k) < maxFiles => PathsIn(k) = Seen(i - 1)
    BY <1>7, <2>1
  <2>3. c \in Chunk /\ r = DiversifyStep(k, c, maxFiles, 1)
    BY <1>2, <1>5, <2>1
  <2>4. Seen(i) = Seen(i - 1) \cup {PathOf[c]}
    BY <1>2, <2>1
  <2> HIDE DEF Seen
  <2>5. /\ r \in Seq(Chunk) /\ Len(r) >= Len(k)
        /\ PathsIn(r) \subseteq PathsIn(k) \cup {PathOf[c]}
        /\ Apart(r) /\ Len(r) <= maxFiles
        /\ Len(r) < maxFiles => PathsIn(r) = PathsIn(k) \cup {PathOf[c]}
    BY <2>2, <2>3, OneFileStep
  <2>6. Len(k) \in Nat /\ Len(r) \in Nat
    BY <2>2, <2>5
  <2>7. Len(r) < maxFiles => Len(k) < maxFiles
    BY <2>5, <2>6
  <2>8. /\ PathsIn(r) \subseteq Seen(i)
        /\ Len(r) < maxFiles => PathsIn(r) = Seen(i)
    BY <2>2, <2>4, <2>5, <2>7
  <2> QED
    BY <1>2, <2>1, <2>5, <2>8
<1>8. n \in good
  <2> HIDE DEF good
  <2>1. n \in 0..n
    BY <1>2
  <2> QED
    BY <1>2, <1>6, <1>7, <2>1, Climb
<1>9. Seen(n) = PathsIn(items)
  BY <1>2 DEF PathsIn
<1>10. PICK r : r = kept[n]
  OBVIOUS
<1>11. /\ r \in Seq(Chunk) /\ Apart(r) /\ Len(r) <= maxFiles
       /\ PathsIn(r) \subseteq PathsIn(items)
       /\ Len(r) < maxFiles => PathsIn(r) = PathsIn(items)
  BY <1>8, <1>9, <1>10
<1>12. Len(r) = Lower(maxFiles, Cardinality(PathsIn(items)))
  <2>1. Len(r) \in Nat /\ Cardinality(PathsIn(r)) = Len(r)
    BY <1>11, CountPaths
  <2>2. IsFiniteSet(PathsIn(items)) /\ Cardinality(PathsIn(items)) \in Nat
    BY CountPaths
  <2>3. Cardinality(PathsIn(r)) <= Cardinality(PathsIn(items))
    BY <1>11, <2>2, FS_Subset
  <2>4. CASE Len(r) < maxFiles
    BY <1>11, <2>1, <2>2, <2>4 DEF Lower
  <2>5. CASE ~(Len(r) < maxFiles)
    <3>1. Len(r) = maxFiles
      BY <1>11, <2>1, <2>5
    <3> QED
      BY <2>1, <2>2, <2>3, <3>1 DEF Lower
  <2> QED
    BY <2>4, <2>5
<1> QED
  BY <1>1, <1>10, <1>11, <1>12

-----------------------------------------------------------------------------
\* Deduplication loses no file: a chunk that holds another is of its file.
LEMMA SameFiles ==
  ASSUME NEW s \in Seq(Chunk), NEW r \in Seq(Chunk), Range(r) \subseteq Range(s),
         \A x \in Range(s) : Covered(x, Range(r))
  PROVE  PathsIn(r) = PathsIn(s)
<1>1. ASSUME NEW p \in PathsIn(s) PROVE p \in PathsIn(r)
  <2>1. PICK x \in Range(s) : PathOf[x] = p
    BY PathsOf
  <2>2. PICK d \in Range(r) : x = d \/ NestedIn(x, d)
    BY DEF Covered
  <2>3. PathOf[d] = p
    BY <2>1, <2>2 DEF NestedIn
  <2> QED
    BY <2>2, <2>3, PathsOf
<1>2. PathsIn(r) \subseteq PathsIn(s)
  BY PathsOf
<1> QED
  BY <1>1, <1>2

\* the files that a search of several queries finds
FilesFound(q) == {p \in PathsIn(MultiItems(q)) : q.tests \/ p \notin TestPath}

\* What the queries and the graph find is shown, one chunk of each file, as
\* many as there may be.
LEMMA HybridFacts ==
  ASSUME NEW q \in AnyMulti, q.perFile = 1
  PROVE  LET H == HybridFinal(q) IN
         /\ H \in Seq(Chunk) /\ Apart(H)
         /\ Len(H) = Lower(q.maxFiles, Cardinality(FilesFound(q)))
         /\ Len(H) \in Nat /\ Len(H) <= q.maxFiles
<1>1. PICK m : m = MultiItems(q)
  OBVIOUS
<1>2. m \in Seq(Chunk) /\ NoTwice(m)
  BY <1>1, MultiItemsFacts
<1>3. PICK E : E = {c \in Chunk : q.tests \/ PathOf[c] \notin TestPath}
  OBVIOUS
<1>4. PICK w : w = Keep(m, E)
  OBVIOUS
<1>5. w \in Seq(Chunk) /\ NoTwice(w) /\ Range(w) = Range(m) \cap E
  BY <1>2, <1>4, KeepFacts
<1>6. PICK d : d = DedupeOverlapping(w)
  OBVIOUS
<1>7. /\ d \in Seq(Chunk) /\ Range(d) \subseteq Range(w)
      /\ \A x \in Range(w) : Covered(x, Range(d))
  BY <1>5, <1>6, DedupeFacts
<1>8. PathsIn(d) = PathsIn(w)
  BY <1>5, <1>7, SameFiles
<1>9. PathsIn(w) = FilesFound(q)
  <2>1. PathsIn(w) = {PathOf[x] : x \in Range(m) \cap E}
    BY <1>5, PathsOf
  <2>2. PathsIn(m) = {PathOf[x] : x \in Range(m)} /\ Range(m) \subseteq Chunk
    BY <1>2, PathsOf, RangeOf
  <2> QED
    BY <1>1, <1>3, <2>1, <2>2 DEF FilesFound
<1>10. q.maxFiles \in Nat
  BY DEF AnyMulti
<1>11. PICK H : H = DiversifyByFile(d, q.maxFiles, 1)
  OBVIOUS
<1>12. /\ H \in Seq(Chunk) /\ Apart(H)
       /\ Len(H) = Lower(q.maxFiles, Cardinality(PathsIn(d)))
  BY <1>7, <1>10, <1>11, DiversifyFacts
<1>13. HybridFinal(q) = H
  BY <1>1, <1>3, <1>4, <1>6, <1>11 DEF HybridFinal, WithoutTests
<1>14. Len(H) \in Nat /\ Len(H) <= q.maxFiles
  <2>1. Cardinality(PathsIn(d)) \in Nat /\ Len(H) \in Nat
    BY <1>7, <1>12, CountPaths
  <2> QED
    BY <1>10, <1>12, <2>1 DEF Lower
<1> QED
  BY <1>8, <1>9, <1>12, <1>13, <1>14

-----------------------------------------------------------------------------
(* Searches: what sources bring in                                         *)

\* Of finitely many keys one is the lowest.
LEMMA LowestKey ==
  ASSUME NEW E \in SUBSET Nat, IsFiniteSet(E), E # {}, NEW key \in [E -> Int]
  PROVE  \E c \in E : \A d \in E : key[c] <= key[d]
<1>1. PICK s : s = Sorted(E, key)
  OBVIOUS
<1>2. /\ Len(s) \in Nat
      /\ \A n \in 1..Len(s) : s[n] \in E
      /\ \A i \in E : \E n \in 1..Len(s) : s[n] = i
      /\ \A m, n \in 1..Len(s) : m < n => Earlier(key, s[m], s[n])
  BY <1>1, SortedFacts
<1>3. 1 \in 1..Len(s)
  BY <1>2
<1>4. \A d \in E : key[s[1]] <= key[d]
  <2> TAKE d \in E
  <2>1. PICK n \in 1..Len(s) : s[n] = d
    BY <1>2
  <2>2. key[s[1]] \in Int /\ key[d] \in Int
    BY <1>2, <1>3
  <2>3. n = 1 \/ Earlier(key, s[1], d)
    BY <1>2, <1>3, <2>1
  <2> QED
    BY <2>1, <2>2, <2>3 DEF Earlier
<1> QED
  BY <1>2, <1>3, <1>4

\* The widest chunk of a file is one of its chunks.
LEMMA WidestFacts ==
  ASSUME NEW path \in Filed
  PROVE  Widest(path) \in Chunk /\ PathOf[Widest(path)] = path
<1> DEFINE mine == {c \in Indexed : PathOf[c] = path}
           width(c) == Lines[c][2] - Lines[c][1]
           Best(c) == \A d \in mine : width(c) > width(d)
                                      \/ (width(c) = width(d) /\ Lines[c][1] <= Lines[d][1])
<1>1. mine # {}
  BY DEF Filed
<1>2. mine \subseteq Chunk /\ mine \in SUBSET Nat /\ IsFiniteSet(mine)
  <2>1. mine \subseteq Chunk /\ Chunk \subseteq Nat /\ IsFiniteSet(Chunk)
    BY RetrievalAssumption
  <2> HIDE DEF mine
  <2> QED
    BY <2>1, FS_Subset
<1>3. \A c \in mine : Lines[c][1] \in Nat /\ Lines[c][2] \in Nat /\ width(c) \in Int
  <2> TAKE c \in mine
  <2>1. Lines[c] \in Nat \X Nat
    BY <1>2, RetrievalAssumption
  <2> QED
    BY <2>1
<1> HIDE DEF mine, width
<1>4. PICK b \in mine : \A d \in mine : width(d) <= width(b)
  <2> DEFINE key == [c \in mine |-> -width(c)]
  <2>1. key \in [mine -> Int]
    BY <1>3
  <2>2. \A c \in mine : key[c] = -width(c)
    OBVIOUS
  <2> HIDE DEF key
  <2>3. PICK b \in mine : \A d \in mine : key[b] <= key[d]
    BY <1>1, <1>2, <2>1, LowestKey
  <2>4. \A d \in mine : width(d) <= width(b)
    <3> TAKE d \in mine
    <3>1. width(b) \in Int /\ width(d) \in Int /\ -width(b) <= -width(d)
      BY <1>3, <2>2, <2>3
    <3> QED
      BY <3>1
  <2> QED
    BY <2>4
<1>5. PICK S : S = {c \in mine : width(c) = width(b)}
  OBVIOUS
<1>6. PICK c \in S : \A d \in S : Lines[c][1] <= Lines[d][1]
  <2> DEFINE key == [x \in S |-> Lines[x][1]]
  <2>1. key \in [S -> Int]
    BY <1>3, <1>5
  <2>2. \A x \in S : key[x] = Lines[x][1]
    OBVIOUS
  <2> HIDE DEF key
  <2>3. S # {} /\ S \in SUBSET Nat /\ S \subseteq mine
    BY <1>2, <1>4, <1>5
  <2>4. IsFiniteSet(S)
    BY <1>2, <2>3, FS_Subset
  <2>5. PICK y \in S : \A d \in S : key[y] <= key[d]
    BY <2>1, <2>3, <2>4, LowestKey
  <2> QED
    BY <2>2, <2>5
<1>7. c \in mine /\ Best(c)
  <2>1. c \in mine /\ width(c) = width(b)
    BY <1>5, <1>6
  <2>2. ASSUME NEW d \in mine
        PROVE  width(c) > width(d) \/ (width(c) = width(d) /\ Lines[c][1] <= Lines[d][1])
    <3>1. width(d) \in Int /\ width(b) \in Int /\ width(d) <= width(b)
      BY <1>3, <1>4
    <3>2. CASE width(d) = width(b)
      BY <1>5, <1>6, <2>1, <3>2
    <3>3. CASE width(d) < width(b)
      BY <2>1, <3>1, <3>3
    <3> QED
      BY <3>1, <3>2, <3>3
  <2> QED
    BY <2>1, <2>2
<1>8. Widest(path) = CHOOSE x \in mine : Best(x)
  BY DEF Widest, mine, width
<1> HIDE DEF Best
<1>9. Widest(path) \in mine
  BY <1>7, <1>8
<1> QED
  BY <1>2, <1>9 DEF mine

\* the rank of a path is a number
LEMMA RankInt ==
  ASSUME NEW items \in Seq(Chunk), NEW path
  PROVE  RankOf(items, path) \in Int
<1>1. CASE path \notin PathsIn(items)
  <2>1. Cardinality(PathsIn(items)) \in Nat
    BY CountPaths
  <2> QED
    BY <1>1, <2>1 DEF RankOf
<1>2. CASE path \in PathsIn(items)
  <2> DEFINE T == {i \in 1..Len(items) : PathOf[items[i]] = path}
             First(i) == /\ PathOf[items[i]] = path
                         /\ \A j \in 1..(i - 1) : PathOf[items[j]] # path
  <2>1. T # {} /\ T \in SUBSET Nat
    BY <1>2, PathsOf
  <2>2. PICK i \in T : \A j \in T : i <= j
    <3> HIDE DEF T
    <3> QED
      BY <2>1, Least
  <2>3. i \in DOMAIN items /\ i \in 1..Len(items) /\ Len(items) \in Nat
    OBVIOUS
  <2>4. First(i)
    <3> SUFFICES ASSUME NEW j \in 1..(i - 1), PathOf[items[j]] = path PROVE FALSE
      OBVIOUS
    <3>1. j \in 1..Len(items) /\ j < i
      BY <2>3
    <3>2. j \in T
      BY <3>1
    <3>3. i <= j
      BY <2>2, <3>2
    <3> QED
      BY <2>3, <3>1, <3>3
  <2>5. RankOf(items, path) = (CHOOSE x \in DOMAIN items : First(x)) - 1
    BY <1>2 DEF RankOf
  <2> HIDE DEF First
  <2>6. PICK r : r = CHOOSE x \in DOMAIN items : First(x)
    OBVIOUS
  <2>7. r \in 1..Len(items)
    BY <2>3, <2>4, <2>6
  <2> QED
    BY <2>5, <2>6, <2>7
<1> QED
  BY <1>1, <1>2

-----------------------------------------------------------------------------
\* what a source may be asked for
Allowed(path, known, tests) == path \notin known /\ (tests \/ path \notin TestPath)

\* The candidates of a source are what it names and nobody knows, each once;
\* all of it when the source names few.
LEMMA CandidatesFacts ==
  ASSUME NEW source \in Named, NEW items \in Seq(Chunk), NEW known, NEW tests
  PROVE  LET c == Candidates(source, items, known, tests) IN
         /\ c \in Seq(STRING) /\ NoTwice(c)
         /\ \A p \in Range(c) : p \in Range(source.paths) /\ Allowed(p, known, tests)
         /\ Len(source.paths) <= FetchLimit =>
              \A p \in Range(source.paths) : Allowed(p, known, tests) => p \in Range(c)
<1>1. PICK paths : paths = source.paths
  OBVIOUS
<1>2. paths \in Seq(STRING)
  BY <1>1 DEF Named
<1>3. Len(paths) \in Nat /\ DOMAIN paths = 1..Len(paths) /\ FetchLimit \in Nat
  BY <1>2, RetrievalAssumption
<1> DEFINE new == {i \in DOMAIN paths : /\ paths[i] \notin known
                                        /\ (tests \/ paths[i] \notin TestPath)
                                        /\ \A j \in 1..(i - 1) : paths[j] # paths[i]}
<1>4. /\ new \in SUBSET (1..Len(paths)) /\ new \in SUBSET Nat
      /\ \A i \in new : Allowed(paths[i], known, tests)
      /\ \A i \in new : \A j \in 1..(i - 1) : paths[j] # paths[i]
  BY <1>3 DEF Allowed
<1>5. \A p \in Range(paths) : Allowed(p, known, tests) => \E i \in new : paths[i] = p
  <2> SUFFICES ASSUME NEW p \in Range(paths), Allowed(p, known, tests)
               PROVE  \E i \in new : paths[i] = p
    OBVIOUS
  <2> DEFINE T == {i \in 1..Len(paths) : paths[i] = p}
  <2>1. T # {} /\ T \in SUBSET Nat
    BY <1>2, RangeOf
  <2>2. PICK i \in T : \A j \in T : i <= j
    <3> HIDE DEF T
    <3> QED
      BY <2>1, Least
  <2>3. \A j \in 1..(i - 1) : paths[j] # paths[i]
    <3> SUFFICES ASSUME NEW j \in 1..(i - 1), paths[j] = paths[i] PROVE FALSE
      OBVIOUS
    <3>1. j \in 1..Len(paths) /\ j < i
      BY <1>3
    <3>2. j \in T
      BY <3>1
    <3>3. i <= j
      BY <2>2, <3>2
    <3> QED
      BY <1>3, <3>1, <3>3
  <2> QED
    BY <1>3, <2>3 DEF Allowed
<1>6. PICK N, key : N = new /\ key = [i \in new |-> RankOf(items, paths[i])]
  OBVIOUS
<1>7. key \in [N -> Int]
  <2>1. \A i \in new : RankOf(items, paths[i]) \in Int
    BY RankInt
  <2> HIDE DEF new
  <2> QED
    BY <1>6, <2>1
<1>8. IsFiniteSet(N) /\ Cardinality(N) \in Nat /\ Cardinality(N) <= Len(paths)
  <2>1. IsFiniteSet(1..Len(paths)) /\ Cardinality(1..Len(paths)) = Len(paths)
    BY <1>3, UpTo
  <2>2. N \in SUBSET (1..Len(paths))
    BY <1>4, <1>6
  <2>3. IsFiniteSet(N) /\ Cardinality(N) <= Cardinality(1..Len(paths))
    BY <2>1, <2>2, FS_Subset
  <2> QED
    BY <2>1, <2>3, FS_CardinalityType
<1>9. PICK p : p = Sorted(N, key)
  OBVIOUS
<1>10. /\ Len(p) = Cardinality(N) /\ Len(p) \in Nat
       /\ DOMAIN p = 1..Len(p)
       /\ \A n \in 1..Len(p) : p[n] \in N
       /\ \A i \in N : \E n \in 1..Len(p) : p[n] = i
       /\ \A m, n \in 1..Len(p) : p[m] = p[n] => m = n
  <2>1. N \in SUBSET Nat
    BY <1>4, <1>6
  <2> QED
    BY <1>7, <1>8, <1>9, <2>1, SortedFacts
<1>11. PICK all : all = [i \in 1..Len(p) |-> paths[p[i]]]
  OBVIOUS
<1>12. Candidates(source, items, known, tests) = Take(all, FetchLimit)
  <2>1. Candidates(source, items, known, tests) =
          Take(Chosen(paths, Sorted(new, [i \in new |-> RankOf(items, paths[i])])), FetchLimit)
    BY ONLY <1>1 DEF Candidates
  <2>2. Chosen(paths, p) = all
    BY <1>10, <1>11 DEF Chosen
  <2> HIDE DEF new
  <2> QED
    BY ONLY <1>6, <1>9, <2>1, <2>2
<1> HIDE DEF new
<1>22. \A i \in N : i \in 1..Len(paths) /\ i \in Nat /\ i >= 1
  <2>1. N \in SUBSET (1..Len(paths))
    BY <1>4, <1>6
  <2> QED
    BY <1>3, <2>1
<1>13. all \in Seq(STRING) /\ Len(all) = Len(p)
  <2>1. \A i \in 1..Len(p) : paths[p[i]] \in STRING
    <3>1. \A i \in 1..Len(paths) : paths[i] \in STRING
      BY <1>2
    <3> QED
      BY <1>10, <1>22, <3>1
  <2>2. all \in [1..Len(p) -> STRING]
    BY <1>11, <2>1
  <2> QED
    BY ONLY <1>10, <2>2, MakesList
<1>14. NoTwice(all)
  <2> SUFFICES ASSUME NEW i \in 1..Len(all), NEW j \in 1..Len(all), all[i] = all[j] PROVE i = j
    BY DEF NoTwice
  <2>1. p[i] \in N /\ p[j] \in N /\ paths[p[i]] = paths[p[j]]
    BY <1>10, <1>11, <1>13
  <2>2. p[i] \in Nat /\ p[j] \in Nat /\ p[i] >= 1 /\ p[j] >= 1
    BY <1>22, <2>1
  <2>3. ~(p[i] < p[j]) /\ ~(p[j] < p[i])
    <3>1. ASSUME p[i] < p[j] PROVE FALSE
      <4>1. p[i] \in 1..(p[j] - 1)
        BY <2>2, <3>1
      <4> QED
        BY <1>4, <1>6, <2>1, <4>1
    <3>2. ASSUME p[j] < p[i] PROVE FALSE
      <4>1. p[j] \in 1..(p[i] - 1)
        BY <2>2, <3>2
      <4> QED
        BY <1>4, <1>6, <2>1, <4>1
    <3> QED
      BY <3>1, <3>2
  <2>4. p[i] = p[j]
    BY <2>2, <2>3
  <2> QED
    BY <1>10, <1>13, <2>4
<1>15. \A x \in Range(all) : x \in Range(paths) /\ Allowed(x, known, tests)
  <2> TAKE x \in Range(all)
  <2>1. PICK i \in 1..Len(all) : all[i] = x
    BY <1>13, RangeOf
  <2>2. p[i] \in N /\ paths[p[i]] = x
    BY <1>10, <1>11, <1>13, <2>1
  <2>3. p[i] \in 1..Len(paths)
    BY <1>4, <1>6, <2>2
  <2> QED
    BY <1>2, <1>4, <1>6, <2>2, <2>3, RangeOf
<1>16. \A x \in Range(paths) : Allowed(x, known, tests) => x \in Range(all)
  <2> SUFFICES ASSUME NEW x \in Range(paths), Allowed(x, known, tests) PROVE x \in Range(all)
    OBVIOUS
  <2>1. PICK j \in N : paths[j] = x
    BY <1>5, <1>6
  <2>2. PICK n \in 1..Len(p) : p[n] = j
    BY <1>10
  <2>3. n \in 1..Len(all) /\ all[n] = x
    BY <1>11, <1>13, <2>1, <2>2
  <2> QED
    BY <1>13, <2>3, RangeOf
<1>17. PICK c : c = Take(all, FetchLimit)
  OBVIOUS
<1>18. /\ c \in Seq(STRING) /\ NoTwice(c) /\ Range(c) \subseteq Range(all)
       /\ Len(all) <= FetchLimit => c = all
  BY <1>3, <1>13, <1>14, <1>17, TakeFacts
<1>19. Len(paths) <= FetchLimit => c = all
  BY <1>3, <1>8, <1>10, <1>13, <1>18
<1>20. \A x \in Range(c) : x \in Range(paths) /\ Allowed(x, known, tests)
  BY <1>15, <1>18
<1>21. Len(paths) <= FetchLimit =>
         \A x \in Range(paths) : Allowed(x, known, tests) => x \in Range(c)
  BY <1>16, <1>19
<1> QED
  BY ONLY <1>1, <1>12, <1>17, <1>18, <1>20, <1>21

-----------------------------------------------------------------------------
\* what a source could bring in of what nobody knows
Wanted(source, known, tests) ==
  {p \in Range(source.paths) : Allowed(p, known, tests) /\ p \in Filed}

\* as many of the files W as the quota allows are among P
Brings(P, W, quota) == Cardinality(P \cap W) >= Lower(quota, Cardinality(W))

\* More files bring in no less.
LEMMA BringsMore ==
  ASSUME NEW P, NEW Q, IsFiniteSet(Q), P \subseteq Q, NEW W, IsFiniteSet(W), NEW quota \in Nat,
         Brings(P, W, quota)
  PROVE  Brings(Q, W, quota)
<1>1. P \cap W \in SUBSET (Q \cap W) /\ Q \cap W \in SUBSET Q
  OBVIOUS
<1>2. IsFiniteSet(Q \cap W)
  BY <1>1, FS_Subset
<1>3. IsFiniteSet(P \cap W) /\ Cardinality(P \cap W) <= Cardinality(Q \cap W)
  BY <1>1, <1>2, FS_Subset
<1>4. Cardinality(P \cap W) \in Nat /\ Cardinality(Q \cap W) \in Nat /\ Cardinality(W) \in Nat
  BY <1>2, <1>3, FS_CardinalityType
<1> QED
  BY <1>3, <1>4 DEF Brings, Lower

\* A source names finitely many files.
LEMMA WantedFinite ==
  ASSUME NEW source \in Named, NEW known, NEW tests
  PROVE  IsFiniteSet(Wanted(source, known, tests))
<1>1. PICK s : s = source.paths
  OBVIOUS
<1>2. s \in Seq(STRING)
  BY <1>1 DEF Named
<1>3. PICK n : n = Len(s)
  OBVIOUS
<1>4. n \in Nat /\ IsFiniteSet(1..n)
  BY <1>2, <1>3, UpTo
<1>5. s \in Surjection(1..n, Range(s))
  <2>1. s \in [1..n -> Range(s)] /\ \A x \in Range(s) : \E i \in 1..n : s[i] = x
    <3>1. DOMAIN s = 1..n /\ s = [i \in 1..n |-> s[i]]
      BY <1>2, <1>3
    <3> QED
      BY <1>2, <1>3, <3>1, RangeOf
  <2> QED
    BY ONLY <2>1 DEF Surjection
<1>6. IsFiniteSet(Range(s))
  BY ONLY <1>4, <1>5, FS_Surjection
<1>7. Wanted(source, known, tests) \in SUBSET Range(s)
  BY <1>1 DEF Wanted
<1> QED
  BY <1>6, <1>7, FS_Subset

\* One source more adds no more than its quota.
LEMMA MoreQuotas ==
  ASSUME NEW sources \in Seq(Named), NEW I, NEW k \in 1..Len(sources), NEW J,
         J \subseteq I \cup {k}, IsFiniteSet(Quotas(sources, I))
  PROVE  /\ IsFiniteSet(Quotas(sources, J))
         /\ Cardinality(Quotas(sources, J)) <= Cardinality(Quotas(sources, I)) + sources[k].quota
         /\ J \subseteq I => Cardinality(Quotas(sources, J)) <= Cardinality(Quotas(sources, I))
<1>1. PICK n : n = sources[k].quota
  OBVIOUS
<1>2. n \in Nat
  <2>1. sources[k] \in Named
    OBVIOUS
  <2> QED
    BY <1>1, <2>1 DEF Named
<1>3. PICK S, T, R : S = Quotas(sources, I) /\ T = {k} \X (1..n) /\ R = Quotas(sources, J)
  OBVIOUS
<1>4. IsFiniteSet(S) /\ Cardinality(S) \in Nat
  BY <1>3, FS_CardinalityType
<1>5. IsFiniteSet(T) /\ Cardinality(T) = n
  <2>1. IsFiniteSet({k}) /\ Cardinality({k}) = 1
    BY FS_Singleton
  <2>2. IsFiniteSet(1..n) /\ Cardinality(1..n) = n
    BY <1>2, UpTo
  <2>3. IsFiniteSet({k} \X (1..n)) /\ Cardinality({k} \X (1..n)) = 1 * n
    BY ONLY <2>1, <2>2, FS_Product
  <2> QED
    BY <1>2, <1>3, <2>3
<1>6. IsFiniteSet(S \cup T) /\ Cardinality(S \cup T) <= Cardinality(S) + n
  <2>1. S \cap T \in SUBSET S
    OBVIOUS
  <2>2. IsFiniteSet(S \cap T)
    BY <1>4, <2>1, FS_Subset
  <2>3. Cardinality(S \cap T) \in Nat
    BY <2>2, FS_CardinalityType
  <2>4. /\ IsFiniteSet(S \cup T)
        /\ Cardinality(S \cup T) = Cardinality(S) + Cardinality(T) - Cardinality(S \cap T)
    BY ONLY <1>4, <1>5, FS_Union
  <2> QED
    BY <1>2, <1>4, <1>5, <2>3, <2>4
<1>7. R \in SUBSET (S \cup T)
  BY <1>1, <1>3 DEF Quotas
<1>8. IsFiniteSet(R) /\ Cardinality(R) <= Cardinality(S \cup T)
  BY ONLY <1>6, <1>7, FS_Subset
<1>9. Cardinality(R) \in Nat /\ Cardinality(S \cup T) \in Nat
  BY <1>6, <1>8, FS_CardinalityType
<1>10. J \subseteq I => Cardinality(R) <= Cardinality(S)
  <2>1. J \subseteq I => R \in SUBSET S
    BY <1>3 DEF Quotas
  <2> QED
    BY <1>4, <2>1, FS_Subset
<1>11. Cardinality(R) <= Cardinality(S) + n
  BY <1>2, <1>4, <1>6, <1>8, <1>9
<1> QED
  BY <1>1, <1>3, <1>8, <1>10, <1>11

-----------------------------------------------------------------------------
\* what is joined from lists of different files
LEMMA JoinApart ==
  ASSUME NEW s \in Seq(Chunk), NEW t \in Seq(Chunk)
  PROVE  /\ PathsIn(s \o t) = PathsIn(s) \cup PathsIn(t)
         /\ Apart(s) /\ Apart(t) /\ PathsIn(s) \cap PathsIn(t) = {} => Apart(s \o t)
<1>1. PICK u : u = s \o t
  OBVIOUS
<1>2. /\ u \in Seq(Chunk) /\ Len(u) = Len(s) + Len(t)
      /\ \A i \in 1..Len(s) : u[i] = s[i]
      /\ \A i \in (Len(s) + 1)..(Len(s) + Len(t)) : u[i] = t[i - Len(s)]
      /\ Range(u) = Range(s) \cup Range(t)
  BY <1>1, JoinFacts
<1>3. Len(s) \in Nat /\ Len(t) \in Nat
  OBVIOUS
<1>4. PathsIn(u) = PathsIn(s) \cup PathsIn(t)
  <2>1. /\ PathsIn(u) = {PathOf[x] : x \in Range(u)}
        /\ PathsIn(s) = {PathOf[x] : x \in Range(s)}
        /\ PathsIn(t) = {PathOf[x] : x \in Range(t)}
    BY <1>2, PathsOf
  <2> QED
    BY ONLY <1>2, <2>1
<1>5. ASSUME NEW i \in 1..Len(u)
      PROVE  \/ i \in 1..Len(s) /\ u[i] = s[i]
             \/ i - Len(s) \in 1..Len(t) /\ u[i] = t[i - Len(s)]
  BY <1>2, <1>3
<1>6. ASSUME Apart(s), Apart(t), PathsIn(s) \cap PathsIn(t) = {} PROVE Apart(u)
  <2> SUFFICES ASSUME NEW i \in 1..Len(u), NEW j \in 1..Len(u), PathOf[u[i]] = PathOf[u[j]]
               PROVE  i = j
    BY DEF Apart
  <2>1. \A n \in 1..Len(s), k \in 1..Len(t) : PathOf[s[n]] # PathOf[t[k]]
    BY <1>6, PathsOf
  <2>2. i \in Int /\ j \in Int
    BY <1>2, <1>3
  <2>3. CASE i \in 1..Len(s) /\ j \in 1..Len(s)
    BY <1>2, <1>6, <2>3 DEF Apart
  <2>4. CASE /\ i - Len(s) \in 1..Len(t) /\ u[i] = t[i - Len(s)]
             /\ j - Len(s) \in 1..Len(t) /\ u[j] = t[j - Len(s)]
    <3>1. i - Len(s) = j - Len(s)
      BY <1>6, <2>4 DEF Apart
    <3> QED
      BY <1>3, <2>2, <3>1
  <2>5. \/ i \in 1..Len(s) /\ u[i] = s[i]
        \/ i - Len(s) \in 1..Len(t) /\ u[i] = t[i - Len(s)]
    BY ONLY <1>5, i \in 1..Len(u)
  <2>8. \/ j \in 1..Len(s) /\ u[j] = s[j]
        \/ j - Len(s) \in 1..Len(t) /\ u[j] = t[j - Len(s)]
    BY ONLY <1>5, j \in 1..Len(u)
  <2>6. ~(/\ i \in 1..Len(s) /\ u[i] = s[i]
          /\ j - Len(s) \in 1..Len(t) /\ u[j] = t[j - Len(s)])
    BY <2>1
  <2>7. ~(/\ j \in 1..Len(s) /\ u[j] = s[j]
          /\ i - Len(s) \in 1..Len(t) /\ u[i] = t[i - Len(s)])
    BY <2>1
  <2> QED
    BY ONLY <2>3, <2>4, <2>5, <2>6, <2>7, <2>8
<1> QED
  BY <1>1, <1>4, <1>6

\* The widest chunks of files
LEMMA WidestOf ==
  ASSUME NEW taken \in Seq(STRING), NoTwice(taken), Range(taken) \subseteq Filed
  PROVE  LET w == [i \in DOMAIN taken |-> Widest(taken[i])] IN
         /\ w \in Seq(Chunk) /\ Len(w) = Len(taken) /\ Apart(w) /\ PathsIn(w) = Range(taken)
<1>1. PICK w : w = [i \in DOMAIN taken |-> Widest(taken[i])]
  OBVIOUS
<1>2. Len(taken) \in Nat /\ DOMAIN taken = 1..Len(taken)
  OBVIOUS
<1>3. \A i \in 1..Len(taken) : w[i] \in Chunk /\ PathOf[w[i]] = taken[i]
  <2> TAKE i \in 1..Len(taken)
  <2>1. taken[i] \in Filed
    BY RangeOf
  <2> QED
    BY <1>1, <1>2, <2>1, WidestFacts
<1>4. w \in [1..Len(taken) -> Chunk]
  BY <1>1, <1>2, <1>3
<1>5. w \in Seq(Chunk) /\ Len(w) = Len(taken)
  BY ONLY <1>2, <1>4, MakesList
<1>6. Apart(w)
  BY <1>3, <1>5 DEF Apart, NoTwice
<1>7. PathsIn(w) = Range(taken)
  <2>1. \A p \in PathsIn(w) : p \in Range(taken)
    <3> TAKE p \in PathsIn(w)
    <3>1. PICK i \in 1..Len(w) : PathOf[w[i]] = p
      BY <1>5, PathsOf
    <3> QED
      BY <1>3, <1>5, <3>1, RangeOf
  <2>2. \A p \in Range(taken) : p \in PathsIn(w)
    <3> TAKE p \in Range(taken)
    <3>1. PICK i \in 1..Len(taken) : taken[i] = p
      BY RangeOf
    <3>2. PathOf[w[i]] = p /\ i \in 1..Len(w)
      BY <1>3, <1>5, <3>1
    <3> QED
      BY <1>5, <3>2, PathsOf
  <2> QED
    BY <2>1, <2>2
<1> QED
  BY <1>1, <1>5, <1>6, <1>7

\* A source brings in files that are not there yet: all that it could, or as
\* many as its quota allows.
LEMMA OneSource ==
  ASSUME NEW brought \in Seq(Chunk), NEW source \in Named, NEW items \in Seq(Chunk),
         NEW known, NEW tests, Apart(brought), PathsIn(brought) \cap known = {}
  PROVE  LET r == AugmentBy(brought, source, items, known, tests) IN
         /\ r \in Seq(Chunk) /\ Apart(r) /\ PathsIn(r) \cap known = {}
         /\ PathsIn(brought) \subseteq PathsIn(r)
         /\ Len(brought) \in Nat /\ Len(r) \in Nat /\ Len(r) >= Len(brought)
         /\ source.works /\ Len(source.paths) <= FetchLimit
              => \/ Wanted(source, known, tests) \subseteq PathsIn(r)
                 \/ Len(r) = Len(brought) + source.quota
         /\ source.works /\ Len(source.paths) <= FetchLimit
              => Brings(PathsIn(r), Wanted(source, known, tests), source.quota)
<1>1. PICK r : r = AugmentBy(brought, source, items, known, tests)
  OBVIOUS
<1>2. CASE ~source.works
  BY <1>1, <1>2 DEF AugmentBy
<1>3. CASE source.works
  <2>1. PICK seen : seen = known \cup PathsIn(brought)
    OBVIOUS
  <2>2. PICK tried : tried = Candidates(source, items, seen, tests)
    OBVIOUS
  <2>3. /\ tried \in Seq(STRING) /\ NoTwice(tried)
        /\ \A p \in Range(tried) : p \in Range(source.paths) /\ Allowed(p, seen, tests)
        /\ Len(source.paths) <= FetchLimit =>
             \A p \in Range(source.paths) : Allowed(p, seen, tests) => p \in Range(tried)
    BY <2>2, CandidatesFacts
  <2>4. PICK there : there = Keep(tried, Filed)
    OBVIOUS
  <2>5. there \in Seq(STRING) /\ NoTwice(there) /\ Range(there) = Range(tried) \cap Filed
    BY <2>3, <2>4, KeepFacts
  <2>6. PICK quota : quota = source.quota
    OBVIOUS
  <2>7. quota \in Nat
    BY <2>6 DEF Named
  <2>8. PICK taken : taken = Take(there, quota)
    OBVIOUS
  <2>9. /\ taken \in Seq(STRING) /\ NoTwice(taken) /\ Range(taken) \subseteq Range(there)
        /\ Len(there) <= quota => taken = there
        /\ Len(there) > quota => Len(taken) = quota
    BY <2>5, <2>7, <2>8, TakeFacts
  <2>10. PICK w : w = [i \in DOMAIN taken |-> Widest(taken[i])]
    OBVIOUS
  <2>11. /\ w \in Seq(Chunk) /\ Len(w) = Len(taken) /\ Apart(w) /\ PathsIn(w) = Range(taken)
    BY <2>5, <2>9, <2>10, WidestOf
  <2>12. r = brought \o w
    BY <1>1, <1>3, <2>1, <2>2, <2>4, <2>6, <2>8, <2>10 DEF AugmentBy
  <2>13. \A p \in PathsIn(w) :
           p \in Range(source.paths) /\ Allowed(p, known, tests) /\ p \in Filed /\ p \notin seen
    BY <2>1, <2>3, <2>5, <2>9, <2>11 DEF Allowed
  <2>14. /\ r \in Seq(Chunk) /\ Apart(r) /\ PathsIn(r) = PathsIn(brought) \cup PathsIn(w)
         /\ Len(r) = Len(brought) + Len(w)
    <3>1. PathsIn(brought) \cap PathsIn(w) = {}
      BY <2>1, <2>13
    <3> QED
      BY <2>11, <2>12, <3>1, JoinApart, JoinFacts
  <2>15. PathsIn(r) \cap known = {}
    BY <2>13, <2>14 DEF Allowed
  <2>17. Len(brought) \in Nat /\ Len(r) \in Nat /\ Len(w) \in Nat /\ Len(r) >= Len(brought)
    BY <2>11, <2>14
  <2>18. ASSUME Len(source.paths) <= FetchLimit, Len(there) <= quota
         PROVE  Wanted(source, known, tests) \subseteq PathsIn(r)
    <3> SUFFICES ASSUME NEW p \in Wanted(source, known, tests), p \notin PathsIn(brought)
                 PROVE  p \in PathsIn(w)
      BY <2>14
    <3>1. p \in Range(source.paths) /\ Allowed(p, seen, tests) /\ p \in Filed
      BY <2>1 DEF Wanted, Allowed
    <3> QED
      BY <2>3, <2>5, <2>9, <2>11, <2>18, <3>1
  <2>19. ASSUME Len(source.paths) <= FetchLimit
         PROVE  \/ Wanted(source, known, tests) \subseteq PathsIn(r)
                \/ Len(r) = Len(brought) + quota
    <3>1. CASE Len(there) <= quota
      BY <2>18, <2>19, <3>1
    <3>2. CASE Len(there) > quota
      BY <2>9, <2>11, <2>14, <3>2
    <3>3. Len(there) \in Nat
      BY <2>5
    <3> QED
      BY <2>7, <3>1, <3>2, <3>3
  <2>16. ASSUME Len(source.paths) <= FetchLimit
         PROVE  Brings(PathsIn(r), Wanted(source, known, tests), quota)
    <3>1. PICK W : W = Wanted(source, known, tests)
      OBVIOUS
    <3>2. IsFiniteSet(W) /\ Cardinality(W) \in Nat
      BY <3>1, WantedFinite, FS_CardinalityType
    <3>3. CASE Len(there) <= quota
      <4>1. W \subseteq PathsIn(r)
        BY <2>16, <2>18, <3>1, <3>3
      <4>2. PathsIn(r) \cap W = W
        BY <4>1
      <4>3. \A m, n \in Nat : n >= Lower(m, n)
        BY DEF Lower
      <4> QED
        BY <2>7, <3>1, <3>2, <4>2, <4>3 DEF Brings
    <3>4. CASE Len(there) > quota
      <4>1. PathsIn(w) \in SUBSET (PathsIn(r) \cap W)
        BY <2>13, <2>14, <3>1 DEF Wanted
      <4>2. IsFiniteSet(PathsIn(r) \cap W)
        <5>1. PathsIn(r) \cap W \in SUBSET W
          OBVIOUS
        <5> QED
          BY <3>2, <5>1, FS_Subset
      <4>3. /\ Cardinality(PathsIn(w)) <= Cardinality(PathsIn(r) \cap W)
            /\ Cardinality(PathsIn(r) \cap W) \in Nat
        BY <4>1, <4>2, FS_Subset, FS_CardinalityType
      <4>4. Cardinality(PathsIn(w)) = quota
        BY <2>9, <2>11, <3>4, CountPaths
      <4> QED
        BY <2>7, <3>1, <3>2, <4>3, <4>4 DEF Brings, Lower
    <3>5. Len(there) \in Nat
      BY <2>5
    <3> QED
      BY <2>7, <3>3, <3>4, <3>5
  <2> QED
    BY <1>1, <2>6, <2>14, <2>15, <2>16, <2>17, <2>19
<1> QED
  BY <1>2, <1>3

-----------------------------------------------------------------------------
\* the sources that count, and those that could bring in more than P
Able(q) == {i \in DOMAIN q.sources :
              q.sources[i].works /\ Len(q.sources[i].paths) <= FetchLimit}
Unserved(q, known, P) == {i \in Able(q) : ~(Wanted(q.sources[i], known, q.tests) \subseteq P)}

\* What all sources together bring in
LEMMA AugmentFacts ==
  ASSUME NEW q \in AnyMulti, NEW items \in Seq(Chunk), NEW known
  PROVE  LET r == AugmentItems(q, items, known) IN
         /\ r \in Seq(Chunk) /\ Apart(r) /\ PathsIn(r) \cap known = {}
         /\ q.sources = <<>> => r = <<>>
         /\ \A i \in Able(q) :
              Brings(PathsIn(r), Wanted(q.sources[i], known, q.tests), q.sources[i].quota)
         /\ Cardinality(Quotas(q.sources, Unserved(q, known, PathsIn(r)))) <= Len(r)
<1> DEFINE n == Len(q.sources)
           V == {v \in Seq(Chunk) : Apart(v) /\ PathsIn(v) \cap known = {}}
           By(v, i) == AugmentBy(v, q.sources[i], items, known, q.tests)
           step == [i \in 1..n |-> [v \in V |-> By(v, i)]]
           Body(f) == [i \in 0..n |-> IF i = 0 THEN <<>> ELSE By(f[i - 1], i)]
           brought == CHOOSE f : f = Body(f)
           Served(i, P) == q.sources[i].works /\ Len(q.sources[i].paths) <= FetchLimit
                           => Brings(P, Wanted(q.sources[i], known, q.tests), q.sources[i].quota)
           Behind(i, P) == {j \in 1..i : j \in Unserved(q, known, P)}
           Paid(i, v) == /\ IsFiniteSet(Quotas(q.sources, Behind(i, PathsIn(v))))
                         /\ Cardinality(Quotas(q.sources, Behind(i, PathsIn(v)))) <= Len(v)
<1>1. AugmentItems(q, items, known) = brought[n]
  BY DEF AugmentItems
<1>2. n \in Nat /\ DOMAIN q.sources = 1..n /\ \A i \in 1..n : q.sources[i] \in Named
  <2>1. q.sources \in Seq(Named)
    BY DEF AnyMulti
  <2> QED
    BY <2>1, RangeOf
<1>3. \A i \in 1..n : \A v \in V :
        /\ By(v, i) \in V /\ PathsIn(v) \subseteq PathsIn(By(v, i))
        /\ Served(i, PathsIn(By(v, i)))
        /\ Len(v) \in Nat /\ Len(By(v, i)) \in Nat /\ Len(By(v, i)) >= Len(v)
        /\ i \in Unserved(q, known, PathsIn(By(v, i))) => Len(By(v, i)) = Len(v) + q.sources[i].quota
  <2> TAKE i \in 1..n
  <2> TAKE v \in V
  <2>1. PICK s, r : s = q.sources[i] /\ r = By(v, i)
    OBVIOUS
  <2>2. s \in Named /\ i \in DOMAIN q.sources /\ v \in Seq(Chunk) /\ Apart(v) /\ PathsIn(v) \cap known = {}
    BY <1>2, <2>1
  <2>3. r = AugmentBy(v, s, items, known, q.tests)
    BY <2>1
  <2> HIDE DEF By
  <2>4. /\ r \in Seq(Chunk) /\ Apart(r) /\ PathsIn(r) \cap known = {}
        /\ PathsIn(v) \subseteq PathsIn(r)
        /\ Len(v) \in Nat /\ Len(r) \in Nat /\ Len(r) >= Len(v)
    BY ONLY <2>2, <2>3, OneSource, items \in Seq(Chunk)
  <2>5. s.works /\ Len(s.paths) <= FetchLimit
          => \/ Wanted(s, known, q.tests) \subseteq PathsIn(r)
             \/ Len(r) = Len(v) + s.quota
    BY ONLY <2>2, <2>3, OneSource, items \in Seq(Chunk)
  <2>6. s.works /\ Len(s.paths) <= FetchLimit
          => Brings(PathsIn(r), Wanted(s, known, q.tests), s.quota)
    BY ONLY <2>2, <2>3, OneSource, items \in Seq(Chunk)
  <2>7. i \in Unserved(q, known, PathsIn(r)) => Len(r) = Len(v) + s.quota
    BY <2>1, <2>5 DEF Unserved, Able
  <2>8. Served(i, PathsIn(r))
    BY <2>1, <2>6
  <2> QED
    BY <2>1, <2>4, <2>7, <2>8
<1> HIDE DEF By
<1>4. <<>> \in V
  BY DEF Apart, PathsIn
<1>5. \E f : f = Body(f)
  <2>1. IsStep(step, V, 0, n)
    <3> HIDE DEF V, n
    <3>1. step \in [1..n -> [V -> V]]
      BY <1>3
    <3> QED
      BY <1>2, <3>1 DEF IsStep
  <2>2. 0 \in Nat /\ 0 <= n
    BY <1>2
  <2> HIDE DEF step, V, n
  <2>3. PICK f : IsRun(f, V, <<>>, 0, n, step)
    BY <1>2, <1>4, <2>1, <2>2, Iterates
  <2>4. \A i \in 1..n : f[i] = By(f[i - 1], i)
    <3> TAKE i \in 1..n
    <3>1. i - 1 \in 0..n /\ i \in (0 + 1)..n
      BY <1>2
    <3>2. f[i - 1] \in V
      BY <2>3, <3>1 DEF IsRun
    <3> QED
      BY <2>3, <3>1, <3>2 DEF step, IsRun
  <2>5. f = Body(f)
    BY <1>2, <2>3, <2>4 DEF IsRun
  <2> QED
    BY <2>5
<1>6. brought = Body(brought)
  <2> HIDE DEF Body
  <2> QED
    BY <1>5
<1> HIDE DEF brought, step, Served, Behind, Paid
<1>7. brought[0] = <<>> /\ \A i \in 1..n : brought[i] = By(brought[i - 1], i)
  <2> HIDE DEF n
  <2> QED
    BY <1>2, <1>6
<1> DEFINE Good(k) == brought[k] \in V /\ Paid(k, brought[k]) /\ \A i \in 1..k : Served(i, PathsIn(brought[k]))
           good == {k \in 0..n : Good(k)}
<1>8. 0 \in good
  <2> HIDE DEF V, n
  <2>1. \A i \in 1..0 : FALSE
    OBVIOUS
  <2>2. Paid(0, <<>>)
    <3>1. Behind(0, PathsIn(<<>>)) = {}
      BY DEF Behind
    <3>2. Quotas(q.sources, {}) = {}
      BY DEF Quotas
    <3>3. IsFiniteSet({}) /\ Cardinality({}) = 0 /\ Len(<<>>) = 0 /\ 0 <= 0
      BY FS_EmptySet
    <3>4. Quotas(q.sources, Behind(0, PathsIn(<<>>))) = {}
      BY <3>1, <3>2
    <3>5. PICK Q : Q = Quotas(q.sources, Behind(0, PathsIn(<<>>)))
      OBVIOUS
    <3>6. IsFiniteSet(Q) /\ Cardinality(Q) <= Len(<<>>)
      BY <3>3, <3>4, <3>5
    <3> QED
      BY ONLY <3>5, <3>6 DEF Paid
  <2> QED
    BY <1>2, <1>4, <1>7, <2>1, <2>2
<1>9. ASSUME NEW k \in 1..n, k - 1 \in good PROVE k \in good
  <2>1. PICK v, r : v = brought[k - 1] /\ r = brought[k]
    OBVIOUS
  <2>2. v \in V /\ Paid(k - 1, v) /\ \A i \in 1..(k - 1) : Served(i, PathsIn(v))
    <3> HIDE DEF V, n
    <3> QED
      BY <1>9, <2>1
  <2>3. r = By(v, k)
    BY <1>7, <2>1
  <2>4. /\ r \in V /\ PathsIn(v) \subseteq PathsIn(r) /\ Served(k, PathsIn(r))
        /\ Len(v) \in Nat /\ Len(r) \in Nat /\ Len(r) >= Len(v)
        /\ k \in Unserved(q, known, PathsIn(r)) => Len(r) = Len(v) + q.sources[k].quota
    <3> HIDE DEF V, n
    <3> QED
      BY <1>3, <2>2, <2>3
  <2>5. ASSUME NEW i \in 1..(k - 1) PROVE Served(i, PathsIn(r))
    <3>1. i \in 1..n
      BY <1>2
    <3>2. PICK s : s = q.sources[i]
      OBVIOUS
    <3>3. s \in Named /\ s.quota \in Nat
      <4>1. s \in Named
        BY <1>2, <3>1, <3>2
      <4> QED
        BY <4>1 DEF Named
    <3>4. r \in Seq(Chunk) /\ v \in Seq(Chunk)
      BY <2>2, <2>4
    <3>5. IsFiniteSet(PathsIn(r))
      BY <3>4, CountPaths
    <3>6. IsFiniteSet(Wanted(s, known, q.tests))
      BY <3>3, WantedFinite
    <3>7. Brings(PathsIn(v), Wanted(s, known, q.tests), s.quota)
            => Brings(PathsIn(r), Wanted(s, known, q.tests), s.quota)
      BY ONLY <2>4, <3>3, <3>5, <3>6, BringsMore
    <3>8. Served(i, PathsIn(v))
      BY <2>2
    <3> QED
      BY ONLY <3>2, <3>7, <3>8 DEF Served
  <2>6. \A i \in 1..k : i = k \/ i \in 1..(k - 1)
    BY <1>2
  <2>8. Paid(k, r)
    <3>1. PICK I, J : I = Behind(k - 1, PathsIn(v)) /\ J = Behind(k, PathsIn(r))
      OBVIOUS
    <3>2. q.sources \in Seq(Named) /\ k \in 1..Len(q.sources)
      BY DEF AnyMulti
    <3>3. J \subseteq I \cup {k} /\ (k \notin J => J \subseteq I)
      <4>1. \A j \in Unserved(q, known, PathsIn(r)) : j \in Unserved(q, known, PathsIn(v))
        BY <2>4 DEF Unserved
      <4> QED
        BY <2>6, <3>1, <4>1 DEF Behind
    <3>4. IsFiniteSet(Quotas(q.sources, I)) /\ Cardinality(Quotas(q.sources, I)) <= Len(v)
      BY <2>2, <3>1 DEF Paid
    <3>5. Cardinality(Quotas(q.sources, I)) \in Nat
      BY <3>4, FS_CardinalityType
    <3>6. /\ IsFiniteSet(Quotas(q.sources, J))
          /\ Cardinality(Quotas(q.sources, J))
                <= Cardinality(Quotas(q.sources, I)) + q.sources[k].quota
          /\ J \subseteq I => Cardinality(Quotas(q.sources, J)) <= Cardinality(Quotas(q.sources, I))
      BY ONLY <3>2, <3>3, <3>4, MoreQuotas
    <3>7. Cardinality(Quotas(q.sources, J)) \in Nat
      BY <3>6, FS_CardinalityType
    <3>8. q.sources[k].quota \in Nat
      <4>1. q.sources[k] \in Named
        BY ONLY <3>2
      <4> QED
        BY <4>1 DEF Named
    <3>9. Cardinality(Quotas(q.sources, J)) <= Len(r)
      <4>1. CASE k \in J
        <5>1. Len(r) = Len(v) + q.sources[k].quota
          BY <2>4, <3>1, <4>1 DEF Behind
        <5> QED
          BY ONLY <2>4, <3>4, <3>5, <3>6, <3>7, <3>8, <5>1
      <4>2. CASE k \notin J
        <5>1. Cardinality(Quotas(q.sources, J)) <= Cardinality(Quotas(q.sources, I))
          BY <3>3, <3>6, <4>2
        <5> QED
          BY ONLY <2>4, <3>4, <3>5, <3>7, <5>1
      <4> QED
        BY <4>1, <4>2
    <3> QED
      BY <3>1, <3>6, <3>9 DEF Paid
  <2>7. Good(k)
    BY ONLY <2>1, <2>4, <2>5, <2>6, <2>8
  <2> HIDE DEF Good, n
  <2> QED
    BY <1>2, <2>7
<1>10. n \in good
  <2> HIDE DEF good, n
  <2>1. n \in 0..n
    BY <1>2
  <2> QED
    BY <1>2, <1>8, <1>9, <2>1, Climb
<1>11. PICK r : r = brought[n]
  OBVIOUS
<1>12. r \in V /\ Paid(n, r) /\ \A i \in 1..n : Served(i, PathsIn(r))
  BY <1>10, <1>11
<1>15. Cardinality(Quotas(q.sources, Unserved(q, known, PathsIn(r)))) <= Len(r)
  <2>1. Behind(n, PathsIn(r)) = Unserved(q, known, PathsIn(r))
    <3> HIDE DEF n
    <3> QED
      BY <1>2 DEF Behind, Unserved, Able
  <2> QED
    BY <1>12, <2>1 DEF Paid
<1>16. \A i \in Able(q) :
         Brings(PathsIn(r), Wanted(q.sources[i], known, q.tests), q.sources[i].quota)
  BY <1>2, <1>12 DEF Served, Able
<1>13. q.sources = <<>> => r = <<>>
  BY <1>7, <1>11
<1>14. r \in Seq(Chunk) /\ Apart(r) /\ PathsIn(r) \cap known = {}
  BY <1>12
<1> HIDE DEF V, n
<1> QED
  BY ONLY <1>1, <1>11, <1>13, <1>14, <1>15, <1>16

-----------------------------------------------------------------------------
(* Searches: the section                                                   *)

\* Without sources a search shows what the queries and the graph find.
LEMMA PlainFacts ==
  ASSUME NEW q \in AnyMulti, q.perFile = 1
  PROVE  SearchMulti([q EXCEPT !.sources = <<>>]) = HybridFinal(q)
<1>1. PICK p : p = [q EXCEPT !.sources = <<>>]
  OBVIOUS
<1>2. /\ p \in AnyMulti /\ p.sources = <<>>
      /\ p.queries = q.queries /\ p.far = q.far /\ p.graph = q.graph
      /\ p.embedder = q.embedder /\ p.ceiling = q.ceiling
      /\ p.maxFiles = q.maxFiles /\ p.perFile = q.perFile /\ p.tests = q.tests
  <2>1. <<>> \in Seq(Named)
    OBVIOUS
  <2> QED
    BY <1>1, <2>1 DEF AnyMulti
<1>3. EmbedPairs(p) = EmbedPairs(q)
  BY <1>2 DEF EmbedPairs
<1>4. Runs(p) = Runs(q)
  BY <1>2, <1>3 DEF Runs
<1>5. MultiItems(p) = MultiItems(q)
  BY <1>2, <1>4 DEF MultiItems
<1>6. HybridFinal(p) = HybridFinal(q)
  BY <1>2, <1>5 DEF HybridFinal
<1>7. PICK H, m : H = HybridFinal(p) /\ m = MultiItems(p)
  OBVIOUS
<1>8. H \in Seq(Chunk) /\ Len(H) \in Nat /\ Len(H) <= p.maxFiles /\ m \in Seq(Chunk)
  BY <1>2, <1>7, HybridFacts, MultiItemsFacts
<1>9. PICK B : B = AugmentItems(p, m, PathsIn(H))
  OBVIOUS
<1>10. B = <<>>
  BY <1>2, <1>8, <1>9, AugmentFacts
<1>11. PICK n : n = p.maxFiles
  OBVIOUS
<1>12. n \in Nat
  BY <1>2, <1>11 DEF AnyMulti
<1>13. Take(B, n) = <<>> /\ Len(<<>>) = 0
  <2>1. <<>> \in Seq(Chunk) /\ Len(<<>>) = 0 /\ Len(<<>>) <= n
    BY <1>12
  <2> QED
    BY <1>10, <1>12, <2>1, TakeFacts
<1>14. Take(H, n - 0) = H
  <2>1. n - 0 = n
    BY <1>12
  <2> QED
    BY <1>8, <1>11, <1>12, <2>1, TakeFacts
<1>15. SearchMulti(p) = Take(H, n - 0) \o <<>>
  BY ONLY <1>7, <1>9, <1>11, <1>13 DEF SearchMulti, Promoting, Reserving
<1>16. H \o <<>> = H
  BY <1>8
<1> QED
  BY <1>1, <1>6, <1>7, <1>14, <1>15, <1>16

\* The code section loses only what it has no space for.
LEMMA SectionSpends ==
  ASSUME asked \in MultiAsked, answer = SearchMulti(asked)
  PROVE  SectionSpendsItsBudget
<1> SUFFICES ASSUME asked.perFile = 1
             PROVE  BudgetIsSpent(SearchMulti([asked EXCEPT !.sources = <<>>]),
                                  {p \in PathsIn(MultiItems(asked)) : MayShow(p)})
  BY DEF SectionSpendsItsBudget
<1>1. PICK q : q = asked
  OBVIOUS
<1>2. q \in AnyMulti /\ q.perFile = 1 /\ q.maxFiles \in Nat
  <2>1. q \in AnyMulti
    BY <1>1, AskedAssumption
  <2> QED
    BY <1>1, <2>1 DEF AnyMulti
<1>3. PICK H, m, mf : H = HybridFinal(q) /\ m = MultiItems(q) /\ mf = q.maxFiles
  OBVIOUS
<1>4. /\ H \in Seq(Chunk) /\ Apart(H) /\ Len(H) \in Nat /\ Len(H) <= mf
      /\ Len(H) = Lower(mf, Cardinality(FilesFound(q)))
      /\ m \in Seq(Chunk) /\ mf \in Nat
  BY <1>2, <1>3, HybridFacts, MultiItemsFacts
<1>5. PICK B : B = AugmentItems(q, m, PathsIn(H))
  OBVIOUS
<1>6. /\ B \in Seq(Chunk) /\ Apart(B) /\ PathsIn(B) \cap PathsIn(H) = {}
      /\ \A i \in Able(q) :
           Brings(PathsIn(B), Wanted(q.sources[i], PathsIn(H), q.tests), q.sources[i].quota)
      /\ Cardinality(Quotas(q.sources, Unserved(q, PathsIn(H), PathsIn(B)))) <= Len(B)
  BY <1>2, <1>4, <1>5, AugmentFacts
<1>7. PICK T : T = Take(B, mf)
  OBVIOUS
<1>8. /\ T \in Seq(Chunk) /\ Len(T) \in Nat /\ Len(T) <= mf
      /\ \A i \in 1..Len(T) : T[i] = B[i]
      /\ Range(T) \subseteq Range(B) /\ Len(T) <= Len(B)
      /\ Len(T) < mf => T = B
  <2>1. /\ T \in Seq(Chunk) /\ Len(T) \in Nat /\ Len(T) <= mf
        /\ \A i \in 1..Len(T) : T[i] = B[i]
        /\ Range(T) \subseteq Range(B) /\ Len(T) <= Len(B)
        /\ Len(B) <= mf => T = B
        /\ Len(B) > mf => Len(T) = mf
    <3>1. B \in Seq(Chunk) /\ mf \in Nat
      BY <1>4, <1>6
    <3> QED
      BY ONLY <1>7, <3>1, TakeFacts
  <2>2. Len(B) \in Nat
    BY <1>6
  <2> QED
    BY <1>4, <2>1, <2>2
<1>9. PICK K : K = Take(H, mf - Len(T))
  OBVIOUS
<1>10. /\ K \in Seq(Chunk) /\ Len(K) \in Nat /\ Len(K) <= mf - Len(T) /\ Len(K) <= Len(H)
       /\ \A i \in 1..Len(K) : K[i] = H[i]
       /\ Range(K) \subseteq Range(H)
       /\ Len(K) < Len(H) => Len(K) = mf - Len(T)
  <2>1. mf - Len(T) \in Nat
    BY <1>4, <1>8
  <2>2. /\ K \in Seq(Chunk) /\ Len(K) \in Nat /\ Len(K) <= mf - Len(T) /\ Len(K) <= Len(H)
        /\ \A i \in 1..Len(K) : K[i] = H[i]
        /\ Range(K) \subseteq Range(H)
        /\ Len(H) <= mf - Len(T) => K = H
        /\ Len(H) > mf - Len(T) => Len(K) = mf - Len(T)
    BY <1>4, <1>9, <2>1, TakeFacts
  <2> QED
    BY <1>4, <2>1, <2>2
<1>11. answer = K \o T
  BY <1>1, <1>3, <1>5, <1>7, <1>9 DEF SearchMulti, Promoting, Reserving
<1>12. /\ answer \in Seq(Chunk) /\ Len(answer) = Len(K) + Len(T)
       /\ \A i \in 1..Len(K) : answer[i] = K[i]
       /\ \A i \in (Len(K) + 1)..(Len(K) + Len(T)) : answer[i] = T[i - Len(K)]
  BY <1>8, <1>10, <1>11, JoinFacts
<1>13. Apart(K) /\ Apart(T)
  <2>1. Len(B) \in Nat
    BY <1>6
  <2>2. \A i \in 1..Len(K) : i \in 1..Len(H)
    BY <1>4, <1>10
  <2>3. \A i \in 1..Len(T) : i \in 1..Len(B)
    BY <1>8, <2>1
  <2>4. Apart(K)
    BY <1>4, <1>10, <2>2 DEF Apart
  <2>5. Apart(T)
    BY <1>6, <1>8, <2>3 DEF Apart
  <2> QED
    BY <2>4, <2>5
<1>14. PathsIn(K) \subseteq PathsIn(H) /\ PathsIn(T) \subseteq PathsIn(B)
  <2>1. /\ PathsIn(K) = {PathOf[x] : x \in Range(K)} /\ PathsIn(H) = {PathOf[x] : x \in Range(H)}
        /\ PathsIn(T) = {PathOf[x] : x \in Range(T)} /\ PathsIn(B) = {PathOf[x] : x \in Range(B)}
    BY <1>4, <1>6, <1>8, <1>10, PathsOf
  <2> QED
    BY ONLY <1>8, <1>10, <2>1
<1>15. /\ Apart(answer) /\ PathsIn(answer) = PathsIn(K) \cup PathsIn(T)
       /\ Cardinality(PathsIn(answer)) = Len(answer) /\ IsFiniteSet(PathsIn(answer))
  <2>1. PathsIn(K) \cap PathsIn(T) = {}
    BY <1>6, <1>14
  <2>2. Apart(answer) /\ PathsIn(answer) = PathsIn(K) \cup PathsIn(T)
    BY <1>8, <1>10, <1>11, <1>13, <2>1, JoinApart
  <2> QED
    BY <1>12, <2>2, CountPaths
<1>16. Keep(answer, Range(H)) = K
  <2>1. \A i \in 1..Len(K) : answer[i] \in Range(H)
    <3> TAKE i \in 1..Len(K)
    <3>1. K[i] \in Range(K)
      BY <1>10, RangeOf
    <3> QED
      BY <1>10, <1>12, <3>1
  <2>2. \A i \in (Len(K) + 1)..Len(answer) : answer[i] \notin Range(H)
    <3> SUFFICES ASSUME NEW i \in (Len(K) + 1)..Len(answer), answer[i] \in Range(H) PROVE FALSE
      OBVIOUS
    <3>1. i - Len(K) \in 1..Len(T) /\ answer[i] = T[i - Len(K)]
      BY <1>8, <1>10, <1>12
    <3>2. PathOf[answer[i]] \in PathsIn(T)
      BY <1>8, <3>1, PathsOf
    <3>3. PathOf[answer[i]] \in PathsIn(H)
      BY <1>4, PathsOf
    <3> QED
      BY <1>6, <1>14, <3>2, <3>3
  <2>3. Len(K) \in 0..Len(answer)
    BY <1>8, <1>10, <1>12
  <2>4. Keep(answer, Range(H)) = [i \in 1..Len(K) |-> answer[i]]
    BY <1>12, <2>1, <2>2, <2>3, KeepFront
  <2>5. K = [i \in 1..Len(K) |-> K[i]]
    BY <1>10
  <2> QED
    BY <1>12, <2>4, <2>5
<1>17. K = Take(H, Len(K))
  <2>1. PICK n : n = mf - Len(T)
    OBVIOUS
  <2>2. n \in Nat
    BY <1>4, <1>8, <2>1
  <2>3. PICK u : u = IF n < Len(H) THEN n ELSE Len(H)
    OBVIOUS
  <2>4. u \in Nat /\ u <= Len(H) /\ K = SubSeq(H, 1, u)
    BY <1>4, <1>9, <2>1, <2>2, <2>3 DEF Take
  <2>5. Len(K) = u
    BY <1>4, <2>4
  <2>6. (IF u < Len(H) THEN u ELSE Len(H)) = u
    BY <1>4, <2>4
  <2>7. Take(H, u) = SubSeq(H, 1, u)
    BY ONLY <2>6 DEF Take
  <2> QED
    BY <2>4, <2>5, <2>7
<1>18. Len(K) < Len(H) => Len(answer) = mf
  BY <1>4, <1>8, <1>10, <1>12
<1>26. ASSUME PathsIn(K) # {} PROVE T = B
  <2>1. Len(K) >= 1
    <3>1. PICK j \in 1..Len(K) : TRUE
      BY <1>10, <1>26, PathsOf
    <3> QED
      BY <1>10, <3>1
  <2> QED
    BY <1>4, <1>8, <1>10, <2>1
<1>19. ASSUME NEW i \in Able(q), PathsIn(K) # {}
       PROVE  Brings(PathsIn(answer), Wanted(q.sources[i], PathsIn(H), q.tests), q.sources[i].quota)
  <2>2. T = B
    BY <1>19, <1>26
  <2>3. PICK s : s = q.sources[i]
    OBVIOUS
  <2>4. s \in Named /\ s.quota \in Nat
    <3>1. q.sources \in Seq(Named) /\ i \in DOMAIN q.sources
      BY <1>2 DEF AnyMulti, Able
    <3>2. s \in Named
      BY <2>3, <3>1
    <3> QED
      BY <3>2 DEF Named
  <2>5. IsFiniteSet(Wanted(s, PathsIn(H), q.tests))
    BY <2>4, WantedFinite
  <2>6. Brings(PathsIn(B), Wanted(s, PathsIn(H), q.tests), s.quota)
    BY <1>6, <1>19, <2>3
  <2>7. PathsIn(B) \subseteq PathsIn(answer)
    BY <1>15, <2>2
  <2>8. Brings(PathsIn(answer), Wanted(s, PathsIn(H), q.tests), s.quota)
    BY ONLY <1>15, <2>4, <2>5, <2>6, <2>7, BringsMore
  <2> QED
    BY <2>3, <2>8
<1>20. SearchMulti([asked EXCEPT !.sources = <<>>]) = H
  BY <1>1, <1>2, <1>3, PlainFacts
<1>21. {p \in PathsIn(MultiItems(asked)) : MayShow(p)} = FilesFound(q)
  BY <1>1 DEF MayShow, FilesFound
<1>22. \A i \in DOMAIN asked.sources :
         {p \in Range(asked.sources[i].paths) : MayShow(p) /\ p \in Filed} \ PathsIn(H)
         = Wanted(q.sources[i], PathsIn(H), q.tests)
  BY <1>1 DEF MayShow, Wanted, Allowed
<1>23. /\ Cardinality(PathsIn(answer)) = Len(answer)
       /\ Len(H) = Lower(asked.maxFiles, Cardinality(FilesFound(q)))
       /\ Keep(answer, Range(H)) = Take(H, Len(Keep(answer, Range(H))))
       /\ Len(Keep(answer, Range(H))) < Len(H) => Len(answer) = asked.maxFiles
  BY <1>1, <1>3, <1>4, <1>15, <1>16, <1>17, <1>18
<1>27. ASSUME PathsIn(K) # {}
       PROVE  Len(answer) - Len(K) >= Cardinality(Quotas(q.sources, Unserved(q, PathsIn(H), PathsIn(answer))))
  <2>1. T = B
    BY <1>26, <1>27
  <2>2. Unserved(q, PathsIn(H), PathsIn(answer)) = Unserved(q, PathsIn(H), PathsIn(B))
    <3>1. \A i : \A p \in Wanted(q.sources[i], PathsIn(H), q.tests) : p \notin PathsIn(K)
      BY <1>14 DEF Wanted, Allowed
    <3>2. \A i : Wanted(q.sources[i], PathsIn(H), q.tests) \subseteq PathsIn(answer)
                 <=> Wanted(q.sources[i], PathsIn(H), q.tests) \subseteq PathsIn(B)
      BY <1>15, <2>1, <3>1
    <3> QED
      BY <3>2 DEF Unserved
  <2>3. Len(answer) - Len(K) = Len(B)
    BY <1>8, <1>10, <1>12, <2>1
  <2> QED
    BY <1>6, <2>2, <2>3
<1> DEFINE new(i) == {p \in Range(asked.sources[i].paths) : MayShow(p) /\ p \in Filed} \ PathsIn(H)
           able == {i \in DOMAIN asked.sources :
                      asked.sources[i].works /\ Len(asked.sources[i].paths) <= FetchLimit}
           left == {i \in able : ~(new(i) \subseteq PathsIn(answer))}
<1>28. able = Able(q) /\ \A i \in able : new(i) = Wanted(q.sources[i], PathsIn(H), q.tests)
  BY <1>1, <1>22 DEF Able
<1>29. left = Unserved(q, PathsIn(H), PathsIn(answer))
  <2> HIDE DEF able, new
  <2> QED
    BY <1>28 DEF Unserved
<1>24. ASSUME PathsIn(Keep(answer, Range(H))) # {}
       PROVE  /\ \A i \in able : Cardinality(PathsIn(answer) \cap new(i)) >=
                                  Lower(asked.sources[i].quota, Cardinality(new(i)))
              /\ Len(answer) - Len(Keep(answer, Range(H))) >= Cardinality(Quotas(asked.sources, left))
  <2>1. PathsIn(K) # {}
    BY <1>16, <1>24
  <2>2. \A i \in Able(q) :
          Brings(PathsIn(answer), Wanted(q.sources[i], PathsIn(H), q.tests), q.sources[i].quota)
    BY <1>19, <2>1
  <2>3. Len(answer) - Len(K) >= Cardinality(Quotas(q.sources, Unserved(q, PathsIn(H), PathsIn(answer))))
    BY <1>27, <2>1
  <2> HIDE DEF able, new, left
  <2>4. \A i \in able : Cardinality(PathsIn(answer) \cap new(i)) >=
                        Lower(asked.sources[i].quota, Cardinality(new(i)))
    BY ONLY <1>1, <1>28, <2>2 DEF Brings
  <2> QED
    BY ONLY <1>1, <1>16, <1>29, <2>3, <2>4
<1>25. BudgetIsSpent(H, FilesFound(q))
  BY ONLY <1>23, <1>24 DEF BudgetIsSpent
<1> QED
  BY <1>20, <1>21, <1>25

-----------------------------------------------------------------------------
SearchSpec == SearchInit /\ [][SearchNext]_searching

\* what was asked was answered
SearchOK ==
  \/ asked = NotAsked
  \/ asked \in BaseAsked /\ answer = SearchBase(asked)
  \/ asked \in MultiAsked /\ answer = SearchMulti(asked)

(* Neither search loses what it found but for the reasons that the         *)
(* invariant names: a hit is left out because a wider chunk of the graph   *)
(* holds it, its score is low or the answer is full; a file of the section *)
(* only for want of space, and each source spends its quota                *)
(* (Retriever.search_base, multiquery.search_multi).                       *)
THEOREM SearchKeeps == SearchSpec => []SearchKeepsWhatItFinds
<1>1. SearchInit => SearchOK
  BY DEF SearchInit, SearchOK
<1>2. SearchOK /\ [SearchNext]_searching => SearchOK'
  <2> SUFFICES ASSUME SearchOK, [SearchNext]_searching PROVE SearchOK'
    OBVIOUS
  <2>1. CASE SearchCodebase
    BY <2>1 DEF SearchCodebase, SearchOK
  <2>2. CASE SearchCodebaseMulti
    BY <2>2 DEF SearchCodebaseMulti, SearchOK
  <2>3. CASE UNCHANGED searching
    BY <2>3 DEF searching, SearchOK
  <2> QED
    BY <2>1, <2>2, <2>3 DEF SearchNext
<1>3. SearchOK => SearchKeepsWhatItFinds
  <2> SUFFICES ASSUME SearchOK PROVE NothingFoundIsLost /\ SectionSpendsItsBudget
    BY DEF SearchKeepsWhatItFinds
  <2>1. CASE asked = NotAsked
    <3>1. asked.kind = "nothing"
      BY <2>1 DEF NotAsked
    <3> QED
      BY <3>1, SMT DEF NothingFoundIsLost, SectionSpendsItsBudget
  <2>2. CASE asked \in BaseAsked /\ answer = SearchBase(asked)
    <3>1. asked.kind = "base"
      BY <2>2, AskedAssumption DEF AnyBase
    <3>2. SectionSpendsItsBudget
      BY <3>1, SMT DEF SectionSpendsItsBudget
    <3> QED
      BY <2>2, <3>2, BaseLosesNothing
  <2>3. CASE asked \in MultiAsked /\ answer = SearchMulti(asked)
    <3>1. asked.kind = "multi"
      BY <2>3, AskedAssumption DEF AnyMulti
    <3>2. NothingFoundIsLost
      BY <3>1, SMT DEF NothingFoundIsLost
    <3> QED
      BY <2>3, <3>2, SectionSpends
  <2> QED
    BY <2>1, <2>2, <2>3 DEF SearchOK
<1> QED
  BY <1>1, <1>2, <1>3, PTL DEF SearchSpec
=============================================================================
