--------------------------- MODULE ReviewSessions ---------------------------
(***************************************************************************)
(* Sessions of pull-request reviews and the ephemeral index overlays that  *)
(* go with them (reviewer/mcp/service.py, mcp/session_store.py,            *)
(* services/review_service.py, services/gc.py).                            *)
(*                                                                         *)
(* Every AI client runs a reviewer-mcp process of its own; all of them     *)
(* share one Postgres.  A review of pull request k owns                    *)
(*   - a session in the memory of the process that prepared it,            *)
(*   - a row in review_sessions that outlives the process, and             *)
(*   - the overlay pr:k in the chunk table: the code at the head of k.     *)
(* A process serves one call at a time, but each of its SQL statements is  *)
(* a transaction of its own, so other processes come between any two.      *)
(*                                                                         *)
(* Time is counted in units so coarse that no call lasts as long as one:   *)
(* a call takes seconds or minutes, the TTL is a day.                      *)
(*                                                                         *)
(* Left out: what a review contains (the overlay and the session are told  *)
(* apart by the head commit they were made of), the base index, VCS        *)
(* clients, candidates and verdicts, publication itself.                   *)
(***************************************************************************)
EXTENDS Integers, FiniteSets

CONSTANTS
  Process,      \* reviewer-mcp processes, and runs of `reviewer gc'
  PR,           \* pull requests
  NoPR,         \* a garbage collection that no prepare_review started
  Reviews,      \* the pull requests that each process reviews
  Ttl,          \* review_session_ttl_hours, in units of time
  Trouble,      \* what may go wrong: see TroubleKind
  MaxTime,      \* BOUND: the time of the last tick
  MaxFailed,    \* BOUND: the PRs that database failures concern
  MaxHead       \* BOUND: the commits that are pushed to a pull request

TroubleKind == {"crash", "torn_cleanup", "prepare_error", "db_error"}

ASSUME ReviewsAssumption == Reviews \in [Process -> SUBSET PR]
ASSUME NoPRAssumption == NoPR \notin PR
ASSUME TroubleAssumption == Trouble \subseteq TroubleKind
ASSUME NumberAssumption == Ttl \in Nat \ {0} /\ MaxTime \in Nat /\ MaxFailed \in Nat
                           /\ MaxHead \in Nat \ {0}

VARIABLES
  sessions,     \* table review_sessions
  chunks,       \* the heads whose chunks the overlay of each PR holds
  mem,          \* _sessions of each process
  loc,          \* the call that each process serves, and where it is in it
  head,         \* the head commit of each PR
  now,          \* the time
  lapsed,       \* HISTORY: the PRs whose row has ever expired or been deleted
  failed        \* HISTORY: the PRs whose row or overlay a statement failed on

vars == <<sessions, chunks, mem, loc, head, now, lapsed, failed>>
rows == <<sessions, failed>>

-----------------------------------------------------------------------------
(* Data.  A payload is the head that was prepared; 0 is the empty payload  *)
(* {} of a reservation.  -1 is the None of db_touched_at.                  *)

Time == 0..MaxTime
Commit == 1..MaxHead
Row == [there: BOOLEAN, payload: 0..MaxHead, seen: Time]
Session == [there: BOOLEAN, head: 0..MaxHead, seen: Time, touched: Time \cup {-1}]
NoRow == [there |-> FALSE, payload |-> 0, seen |-> 0]
NoSession == [there |-> FALSE, head |-> 0, seen |-> 0, touched |-> -1]

\* the steps of a garbage collection, of prepare_review, and of the rest
GcStep == {"overlays", "live", "purge", "expire"}
PrepareStep == {"reserve", "heal", "fetch", "embed", "upsert", "units", "save",
                "undo_overlay", "undo_row"}
Call == [pc: {"idle", "touch", "clean_overlay", "clean_row"} \cup GcStep \cup PrepareStep,
         pr: PR \cup {NoPR},
         todo: SUBSET PR,           \* overlays: listed, then found orphaned
         head: 0..MaxHead,          \* prq.head_sha
         seen: SUBSET Commit]         \* existing_hashes
Idle == [pc |-> "idle", pr |-> NoPR, todo |-> {}, head |-> 0, seen |-> {}]

TypeOK ==
  /\ sessions \in [PR -> Row]
  /\ chunks \in [PR -> SUBSET Commit]
  /\ mem \in [Process -> [PR -> Session]]
  /\ loc \in [Process -> Call]
  /\ head \in [PR -> Commit]
  /\ now \in Time
  /\ lapsed \subseteq PR /\ failed \subseteq PR

Init ==
  /\ sessions = [k \in PR |-> NoRow]
  /\ chunks = [k \in PR |-> {}]
  /\ mem = [p \in Process |-> [k \in PR |-> NoSession]]
  /\ loc = [p \in Process |-> Idle]
  /\ head = [k \in PR |-> 1]
  /\ now = 0
  /\ lapsed = {} /\ failed = {}

\* within the TTL, by the clock of the process or of the database
Recent(seen) == seen + Ttl > now
Live(k) == sessions[k].there /\ Recent(sessions[k].seen)
Active(p, k) == mem[p][k].there /\ Recent(mem[p][k].seen)

DbMayFail == "db_error" \in Trouble /\ Cardinality(failed) < MaxFailed
At(p, pc) == loc[p].pc = pc
Goto(p, pc) == loc' = [loc EXCEPT ![p].pc = pc]
Return(p) == loc' = [loc EXCEPT ![p] = Idle]

-----------------------------------------------------------------------------
(* SessionStore: one statement each; a failure is logged and swallowed.    *)

\* the statement on k fails
Fails(k) == DbMayFail /\ failed' = failed \cup {k}
SetRow(k, row) ==
  \/ sessions' = [sessions EXCEPT ![k] = row] /\ UNCHANGED failed
  \/ Fails(k) /\ UNCHANGED sessions
SaveRow(k, payload) ==
  SetRow(k, [there |-> TRUE, payload |-> payload, seen |-> now])
DeleteRow(k) == SetRow(k, NoRow)
\* seeded fault: keepalive stays in memory
TouchRowNever(k) == UNCHANGED rows
TouchRow(k) ==
  IF sessions[k].there
  THEN SetRow(k, [sessions[k] EXCEPT !.seen = now])
  ELSE UNCHANGED rows
DeleteExpired ==
  \/ sessions' = [k \in PR |-> IF Live(k) THEN sessions[k] ELSE NoRow]
  \/ DbMayFail /\ UNCHANGED sessions

\* HISTORY: the rows that vouch for their overlay no more after this step
NoteLapsed ==
  lapsed' = lapsed \cup {k \in PR : /\ sessions[k].there
                                    /\ ~(sessions'[k].there /\ sessions'[k].seen + Ttl > now')}

(* ChunkStore.delete_ref where its caller swallows the failure.            *)
DropOverlay(k) ==
  \/ chunks' = [chunks EXCEPT ![k] = {}] /\ UNCHANGED failed
  \/ Fails(k) /\ UNCHANGED chunks

-----------------------------------------------------------------------------
(* purge_orphaned_overlays.  A failure ends it; _gc_overlays swallows the  *)
(* error and prepare_review goes on, the CLI command exits.                *)

StartGc(p, k) ==
  /\ At(p, "idle")
  /\ loc' = [loc EXCEPT ![p] = [Idle EXCEPT !.pc = "overlays", !.pr = k]]
  /\ UNCHANGED <<rows, chunks, mem, head, now, lapsed>>

\* `reviewer gc', in the place of a server process that has no session
CliGc(p) == (\A k \in PR : ~mem[p][k].there) /\ StartGc(p, NoPR)

EndGc(p) ==
  loc' = [loc EXCEPT ![p] =
            IF loc[p].pr = NoPR THEN Idle
            ELSE [Idle EXCEPT !.pc = "reserve", !.pr = loc[p].pr]]

\* T1: the overlays that exist
ListOverlays(p) ==
  /\ At(p, "overlays")
  /\ \/ /\ loc' = [loc EXCEPT ![p].pc = "live",
                              ![p].todo = {k \in PR : chunks[k] # {}}]
        /\ UNCHANGED rows
     \/ /\ DbMayFail /\ DeleteExpired /\ EndGc(p)
        /\ failed' = failed \cup {k \in PR : chunks[k] # {}}
  /\ UNCHANGED <<chunks, mem, head, now, lapsed>>

\* seeded fault: any session in memory counts, however old
LiveKeysAllSessions(p) ==
  /\ At(p, "live")
  /\ loc' = [loc EXCEPT ![p].pc = "purge",
                        ![p].todo = {k \in @ : ~Live(k) /\ ~mem[p][k].there}]
  /\ UNCHANGED <<rows, chunks, mem, head, now, lapsed>>

\* T2: the sessions that are alive, in the table or in this process
LiveKeys(p) ==
  /\ At(p, "live")
  /\ \/ loc' = [loc EXCEPT ![p].pc = "purge",
                           ![p].todo = {k \in @ : ~Live(k) /\ ~Active(p, k)}]
     \/ DbMayFail /\ EndGc(p)
  /\ UNCHANGED <<rows, chunks, mem, head, now, lapsed>>

\* seeded fault: the two reads swapped, "live, then list"
SurveyLiveFirst(p) ==
  /\ \/ /\ At(p, "overlays")
        /\ loc' = [loc EXCEPT ![p].pc = "live",
                              ![p].todo = {k \in PR : ~Live(k) /\ ~Active(p, k)}]
     \/ /\ At(p, "live")
        /\ loc' = [loc EXCEPT ![p].pc = "purge", ![p].todo = {k \in @ : chunks[k] # {}}]
  /\ UNCHANGED <<rows, chunks, mem, head, now, lapsed>>

Survey(p) == ListOverlays(p) \/ LiveKeys(p)

Purge(p) ==
  /\ At(p, "purge")
  /\ \/ \E k \in loc[p].todo :
          /\ chunks' = [chunks EXCEPT ![k] = {}]
          /\ loc' = [loc EXCEPT ![p].todo = @ \ {k}]
     \/ loc[p].todo = {} /\ Goto(p, "expire") /\ UNCHANGED chunks
     \/ DbMayFail /\ loc[p].todo # {} /\ EndGc(p) /\ UNCHANGED chunks
  /\ UNCHANGED <<rows, mem, head, now, lapsed>>

Expire(p) ==
  /\ At(p, "expire")
  /\ DeleteExpired
  /\ EndGc(p)
  /\ UNCHANGED <<chunks, mem, head, now, lapsed, failed>>

-----------------------------------------------------------------------------
(* prepare_review, with ReviewService.prepare and build_overlay.           *)

StartPrepare(p) == \E k \in Reviews[p] : StartGc(p, k)

\* the row is there before the overlay is
Reserve(p) ==
  /\ At(p, "reserve")
  /\ SaveRow(loc[p].pr, 0)
  /\ Goto(p, "heal")
  /\ UNCHANGED <<chunks, mem, head, now, lapsed>>

\* delete_ref outside the try block: a failure skips the overlay's undo
SelfHeal(p) ==
  /\ At(p, "heal")
  /\ \/ /\ chunks' = [chunks EXCEPT ![loc[p].pr] = {}]
        /\ Goto(p, "fetch") /\ UNCHANGED failed
     \/ Fails(loc[p].pr) /\ Goto(p, "undo_row") /\ UNCHANGED chunks
  /\ UNCHANGED <<sessions, mem, head, now, lapsed>>

\* any failure inside the try block, and a branch that is not tracked
PrepareFails(p) ==
  /\ "prepare_error" \in Trouble
  /\ loc[p].pc \in {"fetch", "embed", "upsert", "units"}
  /\ Goto(p, "undo_overlay")
  /\ UNCHANGED <<rows, chunks, mem, head, now, lapsed>>

Fetch(p) ==
  /\ At(p, "fetch")
  /\ loc' = [loc EXCEPT ![p].pc = "embed", ![p].head = head[loc[p].pr]]
  /\ UNCHANGED <<rows, chunks, mem, head, now, lapsed>>

\* existing_hashes is read before the chunks are embedded
Embed(p) ==
  /\ At(p, "embed")
  /\ loc' = [loc EXCEPT ![p].pc = "upsert", ![p].seen = chunks[loc[p].pr]]
  /\ UNCHANGED <<rows, chunks, mem, head, now, lapsed>>

Upsert(p) ==
  /\ At(p, "upsert")
  /\ chunks' = [chunks EXCEPT ![loc[p].pr] = @ \cup ({loc[p].head} \ loc[p].seen)]
  /\ Goto(p, "units")
  /\ UNCHANGED <<rows, mem, head, now, lapsed>>

Prepared(p) ==
  /\ At(p, "units")
  /\ mem' = [mem EXCEPT ![p][loc[p].pr] =
               [there |-> TRUE, head |-> loc[p].head, seen |-> now, touched |-> -1]]
  /\ Goto(p, "save")
  /\ UNCHANGED <<rows, chunks, head, now, lapsed>>

Save(p) ==
  /\ At(p, "save")
  /\ SaveRow(loc[p].pr, loc[p].head)
  /\ Return(p)
  /\ UNCHANGED <<chunks, mem, head, now, lapsed>>

UndoOverlay(p) ==
  /\ At(p, "undo_overlay")
  /\ DropOverlay(loc[p].pr)
  /\ Goto(p, "undo_row")
  /\ UNCHANGED <<sessions, mem, head, now, lapsed>>

UndoRow(p) ==
  /\ At(p, "undo_row")
  /\ DeleteRow(loc[p].pr)
  /\ Return(p)
  /\ UNCHANGED <<chunks, mem, head, now>>
  /\ NoteLapsed

-----------------------------------------------------------------------------
(* Every other tool call finds its session first.                          *)

\* _touch_session: the row is touched unless that was done a minute ago
TouchSession(p, k) ==
  \/ /\ mem[p][k].touched = now
     /\ mem' = [mem EXCEPT ![p][k].seen = now]
     /\ UNCHANGED rows
  \/ /\ mem' = [mem EXCEPT ![p][k].seen = now, ![p][k].touched = now]
     /\ TouchRow(k)

\* a tool call on a session in memory, however long it has been idle
Tool(p, k) ==
  /\ At(p, "idle") /\ mem[p][k].there
  /\ TouchSession(p, k)
  /\ UNCHANGED <<chunks, loc, head, now, lapsed>>

\* _rehydrate_session: an empty payload is a miss
Rehydrate(p, k) ==
  /\ At(p, "idle") /\ k \in Reviews[p] /\ ~mem[p][k].there
  /\ Live(k) /\ sessions[k].payload # 0
  /\ mem' = [mem EXCEPT ![p][k] = [there |-> TRUE, head |-> sessions[k].payload,
                                   seen |-> now, touched |-> -1]]
  /\ loc' = [loc EXCEPT ![p] = [Idle EXCEPT !.pc = "touch", !.pr = k]]
  /\ UNCHANGED <<rows, chunks, head, now, lapsed>>

TouchRehydrated(p) ==
  /\ At(p, "touch")
  /\ TouchSession(p, loc[p].pr)
  /\ Return(p)
  /\ UNCHANGED <<chunks, head, now, lapsed>>

\* publish_review up to _cleanup: it ends there however publication went
Publish(p, k) ==
  /\ At(p, "idle") /\ mem[p][k].there
  /\ TouchSession(p, k)
  /\ loc' = [loc EXCEPT ![p] = [Idle EXCEPT !.pc = "clean_overlay", !.pr = k]]
  /\ UNCHANGED <<chunks, head, now, lapsed>>

\* _cleanup
CleanOverlay(p) ==
  /\ At(p, "clean_overlay")
  /\ mem' = [mem EXCEPT ![p][loc[p].pr] = NoSession]
  /\ DropOverlay(loc[p].pr)
  /\ Goto(p, "clean_row")
  /\ UNCHANGED <<sessions, head, now, lapsed>>

CleanRow(p) ==
  /\ At(p, "clean_row")
  /\ DeleteRow(loc[p].pr)
  /\ Return(p)
  /\ UNCHANGED <<chunks, mem, head, now>>
  /\ NoteLapsed

-----------------------------------------------------------------------------
(* The world.                                                              *)

\* the process dies: the client restarts it with an empty memory
Crash(p) ==
  /\ "crash" \in Trouble
  /\ At(p, "clean_row") => "torn_cleanup" \in Trouble
  /\ mem' = [mem EXCEPT ![p] = [k \in PR |-> NoSession]]
  /\ Return(p)
  /\ UNCHANGED <<rows, chunks, head, now, lapsed>>

Push(k) ==
  /\ head[k] < MaxHead
  /\ head' = [head EXCEPT ![k] = @ + 1]
  /\ UNCHANGED <<rows, chunks, mem, loc, now, lapsed>>

\* no call lasts a unit of time
Tick ==
  /\ now < MaxTime
  /\ \A p \in Process : At(p, "idle")
  /\ now' = now + 1
  /\ UNCHANGED <<rows, chunks, mem, loc, head>>
  /\ NoteLapsed

Gc(p) == CliGc(p) \/ Survey(p) \/ Purge(p) \/ Expire(p)
Prepare(p) ==
  \/ StartPrepare(p) \/ Reserve(p) \/ SelfHeal(p) \/ Fetch(p) \/ Embed(p) \/ Upsert(p)
  \/ Prepared(p) \/ Save(p) \/ PrepareFails(p) \/ UndoOverlay(p) \/ UndoRow(p)
Use(p) ==
  \/ \E k \in PR : Tool(p, k) \/ Rehydrate(p, k) \/ Publish(p, k)
  \/ TouchRehydrated(p) \/ CleanOverlay(p) \/ CleanRow(p)

Next ==
  \/ \E p \in Process : Gc(p) \/ Prepare(p) \/ Use(p) \/ Crash(p)
  \/ \E k \in PR : Push(k)
  \/ Tick

Spec == Init /\ [][Next]_vars

-----------------------------------------------------------------------------
(* Properties.                                                             *)

\* some process serves a call that changes the row or the overlay of k
Handled(k) == \E p \in Process : loc[p].pr = k /\ loc[p].pc \notin GcStep

(* A session that can be resumed has its overlay, and it is the code that  *)
(* the session was prepared from.  As long as the PR has been under review *)
(* since its first prepare_review and was never idle for a TTL, neither a  *)
(* garbage collection of any process, nor a new prepare_review, failed or  *)
(* cut off, nor a push takes the overlay away or mixes it.  This and what  *)
(* follows excepts the PRs that a database statement failed on.            *)
SessionHasItsOverlay ==
  \A k \in PR :
    (Live(k) /\ sessions[k].payload # 0 /\ k \notin lapsed \cup failed /\ ~Handled(k))
      => chunks[k] = {sessions[k].payload}

(* While a review goes on in some process, its overlay is vouched for by a *)
(* row that every other process's garbage collection sees: keepalive keeps *)
(* up with the activity in memory.                                         *)
ActiveOverlayIsGuarded ==
  \A p \in Process, k \in PR :
    (Active(p, k) /\ chunks[k] # {} /\ k \notin failed /\ ~Handled(k)) => Live(k)

(* A garbage collection that runs to its end leaves no overlay without a   *)
(* living session, whatever other processes did meanwhile: an abandoned    *)
(* review does not keep its overlay for ever.                              *)
GcLeavesNoOrphans ==
  [][\A p \in Process :
       (At(p, "purge") /\ loc'[p].pc = "expire") =>
         \A k \in PR \ failed : chunks[k] # {} => Live(k) \/ Active(p, k)]_vars

(* Though the row of a review may be missing because the database refused  *)
(* it, the process that does the review never collects its overlay.        *)
GcSparesOwnSessions ==
  [][\A p \in Process, k \in PR :
       (At(p, "purge") /\ loc'[p] # loc[p] /\ chunks[k] # {} /\ chunks'[k] = {})
         => ~Active(p, k)]_vars

(* A garbage collection takes what nobody reviews and nothing else.        *)
GcIsExact == GcLeavesNoOrphans /\ GcSparesOwnSessions
=============================================================================
