----------------------------- MODULE BoardCalls -----------------------------
(***************************************************************************)
(* finish_task, create_task, get_board_targets and the connection check:   *)
(* agents call a board through its adapter, read after read and write      *)
(* after write, while other agents and people change the same cards        *)
(* (reviewer/mcp/service.py, tasks/boards/*.py, tasks/pr_backlink.py).     *)
(*                                                                         *)
(* Every request is a step.  A read is tried up to three times, in one     *)
(* step, as only the last answer counts.  A write is never repeated, and   *)
(* may have been executed although the answer is lost.  There is no crash: *)
(* an agent that dies leaves what a call leaves whose last answer is lost. *)
(***************************************************************************)
EXTENDS Boards, Naturals

CONSTANTS
  Agent,        \* who calls the tools
  Card,         \* cards of one board
  Given,        \* those that are there at first
  Pr,           \* pull requests
  Cases,        \* configurations, with what each agent calls, again and again
  People,       \* what people do to cards: see PeopleKind
  MaxTrouble    \* BOUND: how often a request fails or people step in

PeopleKind == {"reopen", "remove", "unlink"}
Op == {"finish", "create", "targets", "validate"}
Query == [op : Op, card : Card, pr : Pr, mark_done : BOOLEAN,
          target : {"none", "done", "gone"}]

ASSUME CallAssumption ==
  /\ Given \subseteq Card /\ Cases \subseteq Conf \X [Agent -> Query]
  /\ People \subseteq PeopleKind
  /\ MaxTrouble \in Nat

VARIABLES
  conf,         \* the board and how it is configured
  job,          \* the calls of this run
  card,         \* what the board holds
  prs,          \* the cards that the body of a pull request names
  stored,       \* the row of a card: none, as the card is, or older
  call,         \* the call of every agent
  able,         \* the operations that a connection check reported
  spent         \* how often a request failed or people stepped in

vars == <<conf, job, card, prs, stored, call, able, spent>>

Contents == [there : BOOLEAN, place : {"todo", "done"}, closed : BOOLEAN,
             links : SUBSET Pr, marked : BOOLEAN]
Absent == [there |-> FALSE, place |-> "todo", closed |-> FALSE,
           links |-> {}, marked |-> FALSE]
Fresh == [Absent EXCEPT !.there = TRUE]

NoQuery == [op |-> "none"]
\* found: the target, if one is needed, can be moved to; did: what the writes
\* of the call did; sent, made: some write, the creation, may be executed;
\* lost: an answer is missing; calm: no request failed; alone: nobody else
\* wrote what this call reads; fresh: the read for the store is still true.
Quiet == [pc |-> "idle", q |-> NoQuery, seen |-> Absent, todo |-> << >>,
          found |-> TRUE, listed |-> "none", did |-> {}, warned |-> FALSE,
          body |-> {}, brief |-> FALSE, task |-> "failed",
          status |-> "ok", retryable |-> FALSE, sent |-> FALSE,
          already |-> FALSE, made |-> FALSE, lost |-> FALSE, calm |-> TRUE, alone |-> TRUE,
          fresh |-> TRUE]

TypeOK ==
  /\ <<conf, job>> \in Cases
  /\ card \in [Card -> Contents]
  /\ prs \in [Pr -> SUBSET Card]
  /\ stored \in [Card -> {"none", "current", "older"}]
  /\ DOMAIN call = Agent
  /\ \A c \in Agent : LET r == call[c] IN
       /\ r.pc \in {"idle", "read", "steps", "fetch", "index", "pr_read",
                    "pr_write", "returned"}
       /\ r.q \in {job[c], NoQuery} /\ r.seen \in Contents
       /\ r.did \subseteq {"link", "place", "closed"}
       /\ r.body \subseteq Card
       /\ {r.found, r.warned, r.already, r.brief, r.retryable, r.sent, r.made, r.lost,
           r.calm, r.alone, r.fresh} \subseteq BOOLEAN
       /\ r.listed \in {"none", "part", "all"}
       /\ r.task \in {"failed", "added", "already_present"}
       /\ r.status \in {"ok", "error"}
  /\ able \subseteq Op
  /\ spent \in 0..MaxTrouble

Init ==
  /\ \E x \in Cases : conf = x[1] /\ job = x[2]
  /\ card = [k \in Card |-> IF k \in Given THEN Fresh ELSE Absent]
  /\ prs = [p \in Pr |-> {}]
  /\ stored = [k \in Card |-> IF card[k].there THEN "current" ELSE "none"]
  /\ call = [c \in Agent |-> Quiet]
  /\ able = {}
  /\ spent = 0

Wrong == spent < MaxTrouble /\ spent' = spent + 1
At(c, pc) == call[c].pc = pc
Set(c, r) == call' = [call EXCEPT ![c] = r]
\* What is read is forgotten, the answer is kept.
Forget(r) == [r EXCEPT !.seen = Absent, !.todo = << >>, !.found = TRUE,
                !.did = {}, !.body = {}]
Returned(r) == [Forget(r) EXCEPT !.pc = "returned"]

\* _board_error: what is no BoardProviderError is not to be repeated.
Raise(r, retryable) ==
  [Returned(r) EXCEPT !.status = "error", !.retryable = retryable]

\* Card k becomes v by the call of c, or by people: the other calls are not
\* alone, and what was read for the store, or is stored, is older.
Touched(r, k) == IF r.pc # "idle" /\ r.q.card = k
                 THEN [r EXCEPT !.alone = FALSE, !.fresh = FALSE] ELSE r
Aged(k) == stored' =
  [stored EXCEPT ![k] = IF @ = "none" THEN "none" ELSE "older"]

Wants(s) == {c \in Agent : At(c, "steps") /\ call[c].todo # << >>
                           /\ Head(call[c].todo).op \in s}
Then(r) == [r EXCEPT !.todo = Tail(@)]

---------------------------------------------------------------------------
(* The calls. *)

\* What is needed before the first request.
_require(q) == q.op = "finish" /\ conf.board \in {"github", "trello"}

Begin(c) ==
  LET q == job[c]
      r == [Quiet EXCEPT !.q = q]
  IN
  /\ At(c, "idle")
  /\ Set(c,
       CASE _require(q) /\ ~conf.option -> Raise(r, FALSE)
         [] q.op = "finish" -> [r EXCEPT !.pc = "read"]
         [] q.op = "create" ->
              [r EXCEPT !.pc = "steps", !.todo = create(conf, r)]
         [] q.op = "targets" ->
              [r EXCEPT !.pc = "steps", !.todo = list_targets(conf)]
         [] q.op = "validate" ->
              [r EXCEPT !.pc = "steps", !.todo = validate_connection(conf)])
  /\ q.op = "create" => ~card[q.card].there
  /\ UNCHANGED <<conf, job, card, prs, stored, able, spent>>

\* The first read of finish; a card that is gone is an error at every board.
ReadCard(c) ==
  LET r == [call[c] EXCEPT !.seen = card[call[c].q.card],
                           !.alone = TRUE]
  IN /\ At(c, "read")
     /\ Set(c, IF r.seen.there
               THEN [r EXCEPT !.pc = "steps", !.todo = finish(conf, r)]
               ELSE [Raise(r, FALSE) EXCEPT !.calm = FALSE])
     /\ UNCHANGED <<conf, job, card, prs, stored, able, spent>>

\* A read that failed has been tried again, unless the reason will not pass:
\* then the caller is told not to repeat the call either.
HardFailure(r) ==
  {Raise([r EXCEPT !.calm = FALSE], retryable) : retryable \in BOOLEAN}

ReadCardFails(c) ==
  /\ At(c, "read") /\ Wrong
  /\ \E r \in HardFailure(call[c]) : Set(c, r)
  /\ UNCHANGED <<conf, job, card, prs, stored, able>>

\* Seeded fault: a target that is not found is passed over.
UnresolvedSilently(r) == FALSE

\* Whether there is something to tell about a target that was looked for.
Unresolved(r) ==
  /\ r.q.op \in {"finish", "create"}
  /\ \/ Wanted(r) /\ ~TargetKnown(conf, r)
     \/ r.q.op = "finish" /\ ~Wanted(r)
        /\ (conf.board = "kaiten" \/ ~TargetKnown(conf, r))

\* A read of targets, of the fields of a card, of a team or project.
LookUp(c) ==
  LET r == Then(call[c]) IN
  /\ c \in Wants({"look", "take"})
  /\ Set(c, [r EXCEPT !.found = @ /\ TargetKnown(conf, r),
               !.listed = "all", !.warned = @ \/ Unresolved(r)])
  /\ UNCHANGED <<conf, job, card, prs, stored, able, spent>>

LookUpFails(c) ==
  LET r == call[c]
      soft == [Then(r) EXCEPT !.found = FALSE, !.warned = TRUE, !.calm = FALSE]
  IN /\ c \in Wants({"look"}) /\ Wrong
     /\ \E s \in IF Head(r.todo).hard THEN HardFailure(r) ELSE {soft} : Set(c, s)
     /\ UNCHANGED <<conf, job, card, prs, stored, able>>

\* A search through all boards ends with what it found, and so does one that
\* fails; create needs a column.
AfterScan(r, got) ==
  IF got = "none" /\ r.q.op = "create" THEN Raise(r, FALSE)
  ELSE LET s == Then(r) IN
       [s EXCEPT !.listed = got, !.found = got = "all" /\ TargetKnown(conf, r),
          !.warned = @ \/ got = "none"
                       \/ (Wanted(r) /\ ~(got = "all" /\ TargetKnown(conf, r)))]

ScanBoards(c) ==
  /\ c \in Wants({"scan"})
  /\ \/ /\ \E got \in Scanned(conf) : Set(c, AfterScan(call[c], got))
        /\ UNCHANGED spent
     \/ /\ Wrong
        /\ \E got \in {"part", "none"} :
             Set(c, AfterScan([call[c] EXCEPT !.warned = TRUE, !.calm = FALSE],
                              got))
  /\ UNCHANGED <<conf, job, card, prs, stored, able>>

Remark(c) ==
  /\ c \in Wants({"warn"})
  /\ Set(c, [Then(call[c]) EXCEPT !.warned = TRUE])
  /\ UNCHANGED <<conf, job, card, prs, stored, able, spent>>

Stop(c) ==
  /\ c \in Wants({"halt"})
  /\ Set(c, Raise(call[c], FALSE))
  /\ UNCHANGED <<conf, job, card, prs, stored, able, spent>>

\* The part of a write that there is something to write for.
What(r) ==
  {w \in Head(r.todo).what : w = "place" => r.found /\ r.seen.place # "done"}

\* A description is written as it was read, with the link added.
Written(r, v) ==
  [v EXCEPT !.links = IF "link" \in What(r) THEN r.seen.links \cup {r.q.pr} ELSE @,
     !.marked = IF "link" \in What(r) THEN conf.board \in Marking ELSE @,
     !.place = IF "place" \in What(r) THEN "done" ELSE @,
     !.closed = @ \/ "closed" \in What(r)]

\* The board executes the write of c.
Execute(c) ==
  LET r == call[c] IN
  /\ card[r.q.card].there
  /\ "place" \in What(r) => r.q.target # "gone"
  /\ card' = [card EXCEPT ![r.q.card] = Written(r, @)]
  /\ Aged(r.q.card)

\* call', when the write leaves c with r.
After(c, r, executed) ==
  call' = [a \in Agent |->
    IF a = c THEN r
    ELSE IF executed THEN Touched(call[a], r.q.card) ELSE call[a]]

Writing(c) == c \in Wants({"put"}) /\ What(call[c]) # {}

Write(c) ==
  LET r == call[c] IN
  /\ Writing(c) /\ Execute(c)
  /\ After(c, [Then(r) EXCEPT !.did = @ \cup What(r), !.sent = TRUE], TRUE)
  /\ UNCHANGED <<conf, job, prs, able, spent>>

NothingToWrite(c) ==
  /\ c \in Wants({"put"}) /\ What(call[c]) = {}
  /\ Set(c, Then(call[c]))
  /\ UNCHANGED <<conf, job, card, prs, stored, able, spent>>

\* Only Linear's refusal for its rate limit asks to be repeated.
WriteFails(r, lost) ==
  LET s == [r EXCEPT !.calm = FALSE, !.lost = @ \/ lost, !.sent = @ \/ lost] IN
  IF Head(r.todo).hard
  THEN {Raise(s, retryable) : retryable \in
          IF conf.board = "linear" /\ ~lost THEN BOOLEAN ELSE {FALSE}}
  ELSE {[Then(s) EXCEPT !.warned = TRUE]}

\* The board refuses: for a reason of its own, or because the card, or the
\* target, is gone.
Refused(c) ==
  LET r == call[c] IN
  /\ Writing(c)
  /\ \/ Wrong
     \/ /\ ~card[r.q.card].there \/ ("place" \in What(r) /\ r.q.target = "gone")
        /\ UNCHANGED spent
  /\ \E s \in WriteFails(r, FALSE) : Set(c, s)
  /\ UNCHANGED <<conf, job, card, prs, stored, able>>

LostWrite(c) ==
  LET r == call[c] IN
  /\ Writing(c) /\ Wrong
  /\ \E s \in WriteFails(r, TRUE) :
       \/ Execute(c) /\ After(c, s, TRUE)
       \/ Set(c, s) /\ UNCHANGED <<card, stored>>
  /\ UNCHANGED <<conf, job, prs, able>>

---------------------------------------------------------------------------
(* create: the card appears. *)

Posted(r) ==
  [Fresh EXCEPT !.place = IF Head(r.todo).what # {} /\ Wanted(r) /\ r.found
                             /\ r.q.target = "done"
                          THEN "done" ELSE "todo"]

Posting(c) == c \in Wants({"post"}) /\ ~card[call[c].q.card].there

Post1(c) ==
  LET r == call[c] IN
  /\ Posting(c)
  /\ card' = [card EXCEPT ![r.q.card] = Posted(r)]
  /\ Set(c, [Then(r) EXCEPT !.made = TRUE, !.sent = TRUE, !.found = TRUE,
               !.alone = TRUE, !.seen = Posted(r)])
  /\ UNCHANGED <<conf, job, prs, stored, able, spent>>

PostFails(c) ==
  LET r == call[c] IN
  /\ Posting(c) /\ Wrong
  /\ \/ \E s \in WriteFails(r, FALSE) : Set(c, s) /\ UNCHANGED card
     \/ \E s \in WriteFails(r, TRUE) :
          \/ Set(c, s) /\ UNCHANGED card
          \/ /\ Set(c, [s EXCEPT !.made = TRUE])
             /\ card' = [card EXCEPT ![r.q.card] = Posted(r)]
  /\ UNCHANGED <<conf, job, prs, stored, able>>

---------------------------------------------------------------------------
(* _write_through and _backlink_pr. *)

\* The board has answered; only a write is reindexed.
Answered(c) ==
  LET r == call[c] IN
  /\ At(c, "steps") /\ r.todo = << >>
  /\ Set(c, IF r.q.op \in {"finish", "create"}
            THEN [Forget(r) EXCEPT !.pc = "fetch", !.already =
                    r.q.op = "finish" /\ already_closed(conf, r)]
            ELSE Returned(r))
  /\ able' = IF r.q.op = "validate" THEN able \cup capabilities(conf) ELSE able
  /\ UNCHANGED <<conf, job, card, prs, stored, spent>>

\* Without a brief there is no URL of the task to link to.
NoBrief(r) == Returned([r EXCEPT !.warned = @ \/ r.q.op = "finish"])

\* Adapters that cannot make a brief of the card that they wrote.
Keyless == \/ conf.board = "trello" /\ ~conf.detail
           \/ conf.board = "asana" /\ ~conf.option

\* fetch_one: a failure, or a card that is gone, is no brief.
Fetch(c) ==
  LET r == call[c] IN
  /\ At(c, "fetch")
  /\ \/ /\ ~Keyless /\ card[r.q.card].there
        /\ Set(c, [r EXCEPT !.pc = "index", !.fresh = TRUE])
        /\ UNCHANGED spent
     \/ /\ Keyless \/ ~card[r.q.card].there
        /\ Set(c, NoBrief(r))
        /\ UNCHANGED spent
     \/ Wrong /\ Set(c, NoBrief([r EXCEPT !.calm = FALSE]))
  /\ UNCHANGED <<conf, job, card, prs, stored, able>>

\* index_task swallows what the store answers: the brief comes back all the
\* same, and "reindexed" is said of a row that may be as it was.
Index(c) ==
  LET r == [call[c] EXCEPT !.brief = TRUE]
      then == IF r.q.op = "finish" THEN [r EXCEPT !.pc = "pr_read"] ELSE Returned(r)
  IN
  /\ At(c, "index")
  /\ \/ /\ stored' = [stored EXCEPT ![r.q.card] =
                        IF r.fresh THEN "current" ELSE "older"]
        /\ Set(c, then)
        /\ UNCHANGED spent
     \/ Wrong /\ Set(c, [then EXCEPT !.calm = FALSE]) /\ UNCHANGED stored
  /\ UNCHANGED <<conf, job, card, prs, able>>

NoBacklink(r) == Returned([r EXCEPT !.warned = TRUE, !.calm = FALSE])

\* apply_backlink: the marker does not say which task it is of.
ReadPr(c) ==
  LET r == [call[c] EXCEPT !.body = prs[call[c].q.pr]] IN
  /\ At(c, "pr_read")
  /\ \/ /\ Set(c, IF r.body = {} THEN [r EXCEPT !.pc = "pr_write"]
                  ELSE Returned([r EXCEPT !.task = "already_present"]))
        /\ UNCHANGED spent
     \/ Wrong /\ Set(c, NoBacklink(call[c]))
  /\ UNCHANGED <<conf, job, card, prs, stored, able>>

\* The whole body is written, as it was read with the link in front.
WritePr(c) ==
  LET r == call[c]
      linked == [prs EXCEPT ![r.q.pr] = r.body \cup {r.q.card}]
  IN /\ At(c, "pr_write")
     /\ \/ /\ prs' = linked
           /\ Set(c, Returned([r EXCEPT !.task = "added"]))
           /\ UNCHANGED spent
        \/ /\ Wrong /\ prs' \in {prs, linked}
           /\ Set(c, NoBacklink(r))
     /\ UNCHANGED <<conf, job, card, stored, able>>

Done(c) ==
  /\ At(c, "returned")
  /\ Set(c, Quiet)
  /\ UNCHANGED <<conf, job, card, prs, stored, able, spent>>

---------------------------------------------------------------------------
(* People. *)

PersonDoes(kind, v) ==
  CASE kind = "reopen" -> [v EXCEPT !.place = "todo", !.closed = FALSE]
    [] kind = "remove" -> Absent
    [] kind = "unlink" -> [v EXCEPT !.links = {}, !.marked = FALSE]

StepIn(k, kind) ==
  /\ card[k].there /\ kind \in People /\ Wrong
  /\ card' = [card EXCEPT ![k] = PersonDoes(kind, @)]
  /\ Aged(k)
  /\ call' = [c \in Agent |-> Touched(call[c], k)]
  /\ UNCHANGED <<conf, job, prs, able>>

CallStep(c) ==
  \/ ReadCard(c) \/ ReadCardFails(c)
  \/ LookUp(c) \/ LookUpFails(c) \/ ScanBoards(c) \/ Remark(c) \/ Stop(c)
  \/ Write(c) \/ NothingToWrite(c) \/ Refused(c) \/ LostWrite(c)
  \/ Post1(c) \/ PostFails(c)
  \/ Answered(c) \/ Fetch(c) \/ Index(c) \/ ReadPr(c) \/ WritePr(c)
  \/ Done(c)

Next ==
  \/ \E c \in Agent : Begin(c) \/ CallStep(c)
  \/ \E k \in Card, kind \in PeopleKind : StepIn(k, kind)

Spec == Init /\ [][Next]_vars

\* A call comes to its end, and is made again.
Fairness == \A c \in Agent : WF_vars(CallStep(c)) /\ WF_vars(Begin(c))

FairSpec == Spec /\ Fairness

---------------------------------------------------------------------------
(* Properties. *)

Finished(r) == r.pc = "returned" /\ r.q.op = "finish" /\ r.status = "ok"

\* An error that says "retryable" comes before anything was written: the
\* agent that repeats the call as it is creates no second card and does not
\* write twice.  No adapter reads, and fails by that read, after a write.
RetryableMeansNothingWritten ==
  \A c \in Agent :
    call[c].pc = "returned" /\ call[c].retryable => ~call[c].sent

LinkThere(q, v) == q.pr \in v.links \/ (conf.board \in Marking /\ v.marked)
DoneThere(v) == IF conf.board \in Flagged THEN v.closed ELSE v.place = "done"
\* Boards with a flag also move the card to a target that is given.
MovedThere(q, v) ==
  q.target = "done" /\ (q.mark_done \/ conf.board \in Flagged \ {"github"})
    => v.place = "done"
Satisfied(q, v) ==
  LinkThere(q, v) /\ MovedThere(q, v) /\ (q.mark_done => DoneThere(v))

\* A finish_task that ends without a warning has done what it was asked, at
\* every board, unless somebody else wrote to the card meanwhile: no failure
\* of a single step is passed over in silence.
CleanFinishIsDone ==
  \A c \in Agent : LET r == call[c] IN
    Finished(r) /\ ~r.warned /\ r.alone => Satisfied(r.q, card[r.q.card])

\* already_closed is said of a card that is linked and done.  YouTrack's
\* adapter also says it when the status could not be set: a warning tells.
AlreadyClosedIsTrue ==
  \A c \in Agent : LET r == call[c] IN
    /\ Finished(r) /\ r.already /\ r.alone
    /\ conf.board = "youtrack" => ~r.warned
    => LinkThere(r.q, card[r.q.card])
       /\ (r.q.mark_done => DoneThere(card[r.q.card]))

\* The configurations of which the connection check promises too much: the
\* key of a Trello card, Jira's issue type and YouTrack's project are asked
\* for by create alone.
Unchecked ==
  \/ conf.board \in {"trello", "jira"} /\ ~conf.detail
  \/ conf.board = "youtrack" /\ ~conf.option

\* create_task fails only when there is no card, as its contract says: but
\* for an answer that was lost, and for Trello without a key prefix.
CreateErrorMeansNone ==
  \A c \in Agent : LET r == call[c] IN
    /\ r.pc = "returned" /\ r.q.op = "create" /\ r.status = "error"
    /\ ~r.lost /\ ~(conf.board = "trello" /\ ~conf.detail)
    => ~r.made

\* What a connection check reports as possible does not fail for reasons of
\* configuration afterwards.
CapableIsAble ==
  \A c \in Agent : LET r == call[c] IN
    /\ r.pc = "returned" /\ r.q.op \in able /\ r.calm
    /\ ~(Unchecked /\ r.q.op = "create")
    => r.status = "ok"

\* An answer of get_board_targets without a warning names all targets: not
\* so at YouGile with a project beyond the scan, and at YouTrack without a
\* project, where a part is taken for the whole.
SilentListingIsComplete ==
  \A c \in Agent : LET r == call[c] IN
    /\ r.pc = "returned" /\ r.q.op = "targets" /\ r.status = "ok"
    /\ ~r.warned
    /\ conf.board \in {"yougile", "youtrack"} => "all" \in Scanned(conf)
    => r.listed = "all"

\* Calls of finish_task that are repeated bring the card to what all of them
\* ask for, although each of them may overwrite what another one added to
\* the description.
FinishCatchesUp ==
  <>[](\A c \in Agent : LET q == job[c] IN
         /\ q.op = "finish" /\ q.target = "done"
         /\ conf.option /\ conf.detail /\ card[q.card].there
         => Satisfied(q, card[q.card]))

\* What a call answers is true of the board: finished, already closed, not
\* created, complete.
AnswersAreTrue ==
  /\ CleanFinishIsDone /\ AlreadyClosedIsTrue
  /\ CreateErrorMeansNone /\ SilentListingIsComplete
=============================================================================
