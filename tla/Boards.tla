------------------------------- MODULE Boards -------------------------------
(***************************************************************************)
(* The eleven board adapters (reviewer/tasks/boards/*.py): what each of    *)
(* their operations asks of the service behind it, and in which order.     *)
(*                                                                         *)
(* An operation is a sequence of steps, computed from the configuration b  *)
(* of the adapter and from the call r: its arguments r.q, the card as the  *)
(* first read showed it, r.seen.  Module BoardCalls performs the steps.    *)
(*                                                                         *)
(* A card is in one of two places, "todo" and "done" (a column, list,      *)
(* status or section, at GitHub a label), and at some boards it is closed  *)
(* by a flag of its own.  A target is the name of the done place, a name   *)
(* that the board does not know ("gone"), or not given ("none").           *)
(* Markup, names, URLs and the other fields of the answers are left out.   *)
(***************************************************************************)
EXTENDS Sequences

Board == {"github", "yougile", "weeek", "clickup", "trello", "kaiten",
          "jira", "asana", "yandex_tracker", "linear", "youtrack"}

\* option: the place that cards are created in is configured or given (the
\* repository, project, list, board, queue or team).  detail: the second thing
\* that a board may lack: Weeek's board_id, Trello's key_prefix, Jira's
\* issue_type, a status field on YouTrack's issues, a column or state of type
\* done at Kaiten and Linear; at YouGile, that no project is larger than the
\* number of tasks that discovery looks at.
Conf == [board : Board, option : BOOLEAN, detail : BOOLEAN]

---------------------------------------------------------------------------
(* Steps.                                                                  *)
(*   look   a read of targets, fields, teams or types                      *)
(*   take   the target is found in what was read already                   *)
(*   scan   a search through all boards, which may end with a part of them *)
(*   put    a write to the card; without a target there is nothing to move *)
(*   post   the card is created                                            *)
(*   warn   a warning and nothing else                                     *)
(*   halt   an error of configuration                                      *)
(* A hard step that fails ends the call, another one adds a warning.       *)

Step(op, what, hard) == [op |-> op, what |-> what, hard |-> hard]
Look == Step("look", {}, FALSE)
HardLook == Step("look", {}, TRUE)
Take == Step("take", {}, FALSE)
Scan == Step("scan", {}, FALSE)
Put(what) == Step("put", what, FALSE)
HardPut(what) == Step("put", what, TRUE)
Post(what) == Step("post", what, TRUE)
Warn == Step("warn", {}, FALSE)
Halt == Step("halt", {}, TRUE)

When(cond, steps) == IF cond THEN steps ELSE << >>
Only(cond, set) == IF cond THEN set ELSE {}

Wanted(r) == r.q.target # "none"

\* Boards where a hidden marker tells that a link was added.
Marking == {"github", "weeek", "kaiten"}
\* Seeded fault: any pull request will do.
LinkPresentAny(b, r) == r.seen.links # {}

LinkPresent(b, r) ==
  r.q.pr \in r.seen.links \/ (b.board \in Marking /\ r.seen.marked)
Link(b, r) == Only(~LinkPresent(b, r), {"link"})

\* The card already is where the call wants it.
AtTarget(r) == r.q.target = "done" /\ r.seen.place = "done"

\* The target that a look finds: the one given, or one of type done.
DefaultTarget(b) == b.board \in {"kaiten", "linear"} /\ b.detail
TargetKnown(b, r) ==
  IF Wanted(r) THEN r.q.target = "done" ELSE DefaultTarget(b)

---------------------------------------------------------------------------
(* finish: the link to the pull request, then the card is moved or closed. *)

_done_payload(r) == When(r.q.mark_done /\ Wanted(r), <<Look>>)

finish_github(b, r) ==
  _done_payload(r)
  \o <<Put(Link(b, r) \cup Only(r.q.mark_done /\ Wanted(r), {"place"})
           \cup Only(r.q.mark_done /\ ~r.seen.closed, {"closed"}))>>

finish_yougile(b, r) ==
  When(Wanted(r), <<Look>>)
  \o <<HardPut(Link(b, r) \cup Only(Wanted(r), {"place"})
               \cup Only(r.q.mark_done /\ ~r.seen.closed, {"closed"}))>>

\* Weeek's columns cannot be listed without a board.
_resolve_column(b, r) ==
  When(Wanted(r), IF b.detail THEN <<Look>> ELSE <<Warn>>)

finish_weeek(b, r) ==
  <<Put(Link(b, r))>>
  \o _resolve_column(b, r) \o <<Put(Only(Wanted(r), {"place"}))>>
  \o <<Put(Only(r.q.mark_done /\ ~r.seen.closed, {"closed"}))>>

\* The boards that do not guess what "done" is called.
Move(r, steps) ==
  When(r.q.mark_done /\ ~AtTarget(r), IF Wanted(r) THEN steps ELSE <<Warn>>)

finish_clickup(b, r) ==
  <<Put(Link(b, r))>> \o Move(r, <<Put({"place"})>>)

finish_trello(b, r) ==
  When(r.q.mark_done, IF Wanted(r) THEN <<HardLook>> ELSE <<Warn>>)
  \o <<Put(Link(b, r) \cup Only(r.q.mark_done /\ Wanted(r), {"place"}))>>

finish_kaiten(b, r) ==
  When(r.q.mark_done, <<Look>>)
  \o <<HardPut(Link(b, r) \cup Only(r.q.mark_done, {"place"}))>>

\* Of the transitions that the card has now, the one to the target.
_apply_transition_jira == <<Look, Put({"place"})>>
_apply_transition_yandex == <<Look, Put({"place"})>>

finish_jira(b, r) == <<Put(Link(b, r))>> \o Move(r, _apply_transition_jira)

finish_yandex_tracker(b, r) ==
  <<Put(Link(b, r))>> \o Move(r, _apply_transition_yandex)

_move_to_section == <<Look, Put({"place"})>>

\* Seeded fault: a section that cannot be read ends the call.
finish_asana_strict(b, r) ==
  <<Put(Link(b, r))>>
  \o When(r.q.mark_done /\ ~r.seen.closed, <<HardPut({"closed"})>>)
  \o When(Wanted(r), <<HardLook, Put({"place"})>>)

finish_asana(b, r) ==
  <<Put(Link(b, r))>>
  \o When(r.q.mark_done /\ ~r.seen.closed, <<HardPut({"closed"})>>)
  \o When(Wanted(r), When(~b.option, <<Halt>>) \o _move_to_section)

finish_linear(b, r) ==
  <<Put(Link(b, r))>> \o When(r.q.mark_done, <<Take, Put({"place"})>>)

\* "Fixed" is the default target.
_set_status(b) == IF b.detail THEN <<Put({"place"})>> ELSE <<Warn>>

finish_youtrack(b, r) ==
  <<HardPut(Link(b, r))>>
  \o When(r.q.mark_done /\ ~(b.detail /\ r.seen.place = "done"
                             /\ r.q.target \in {"none", "done"}),
          _set_status(b))

finish(b, r) ==
  CASE b.board = "github" -> finish_github(b, r)
    [] b.board = "yougile" -> finish_yougile(b, r)
    [] b.board = "weeek" -> finish_weeek(b, r)
    [] b.board = "clickup" -> finish_clickup(b, r)
    [] b.board = "trello" -> finish_trello(b, r)
    [] b.board = "kaiten" -> finish_kaiten(b, r)
    [] b.board = "jira" -> finish_jira(b, r)
    [] b.board = "asana" -> finish_asana(b, r)
    [] b.board = "yandex_tracker" -> finish_yandex_tracker(b, r)
    [] b.board = "linear" -> finish_linear(b, r)
    [] b.board = "youtrack" -> finish_youtrack(b, r)

\* The boards where done is a flag, and what the first read says of it.
Flagged == {"github", "yougile", "weeek", "asana"}
DoneSeen(b, r) ==
  CASE b.board \in Flagged -> r.seen.closed
    [] b.board \in {"kaiten", "linear"} -> r.found /\ r.seen.place = "done"
    [] OTHER -> AtTarget(r)

\* already_closed of the answer; r.did is what the writes of the call did.
already_closed(b, r) ==
  /\ r.did = {}
  /\ b.board \notin {"yougile", "youtrack"} =>
       LinkPresent(b, r) /\ (r.q.mark_done => DoneSeen(b, r))

---------------------------------------------------------------------------
(* create: the card, and its target before or after it.                    *)

create_github(b, r) ==
  When(~b.option, <<Halt>>) \o When(Wanted(r), <<Look>>) \o <<Post({"place"})>>

\* The project's code is read after the card is there.
create_yougile(b, r) == <<Scan, Post({"place"}), Look>>

create_weeek(b, r) ==
  When(~b.option, <<Halt>>)
  \o (IF b.detail THEN <<Look>> ELSE <<Warn>>)
  \o <<Post({"place"})>>

create_clickup(b, r) ==
  When(~b.option, <<Halt>>) \o When(Wanted(r), <<Look>>) \o <<Post({"place"})>>

\* The key of the new card is made when the card is there already.
create_trello(b, r) ==
  When(~b.option, <<Halt>>) \o <<HardLook, Post({"place"})>>
  \o When(~b.detail, <<Halt>>)

create_kaiten(b, r) ==
  When(~b.option, <<Halt>>) \o When(Wanted(r), <<Look>>) \o <<Post({"place"})>>

create_jira(b, r) ==
  When(~b.option \/ ~b.detail, <<Halt>>) \o <<HardLook, Post({})>>
  \o When(Wanted(r), _apply_transition_jira)

create_asana(b, r) ==
  When(~b.option, <<Halt>>) \o When(Wanted(r), <<Look>>) \o <<Post({"place"})>>

create_yandex_tracker(b, r) ==
  When(~b.option, <<Halt>>) \o <<Post({})>>
  \o When(Wanted(r), _apply_transition_yandex)

\* A team is needed, unless the workspace has one only.
_resolve_team(b, otherwise) == <<HardLook>> \o When(~b.option, otherwise)

create_linear(b, r) ==
  _resolve_team(b, <<Halt>>) \o <<Post({"place"})>>

create_youtrack(b, r) ==
  When(~b.option, <<Halt>>) \o <<HardLook, Post({})>>
  \o When(Wanted(r), <<Look>> \o _set_status(b))

create(b, r) ==
  CASE b.board = "github" -> create_github(b, r)
    [] b.board = "yougile" -> create_yougile(b, r)
    [] b.board = "weeek" -> create_weeek(b, r)
    [] b.board = "clickup" -> create_clickup(b, r)
    [] b.board = "trello" -> create_trello(b, r)
    [] b.board = "kaiten" -> create_kaiten(b, r)
    [] b.board = "jira" -> create_jira(b, r)
    [] b.board = "asana" -> create_asana(b, r)
    [] b.board = "yandex_tracker" -> create_yandex_tracker(b, r)
    [] b.board = "linear" -> create_linear(b, r)
    [] b.board = "youtrack" -> create_youtrack(b, r)

\* What a scan can end with.  YouGile: the columns of the boards that hold a
\* task of the project, among the first 500 tasks.  YouTrack: the fields of a
\* project, or else those that a sample of issues has.
_columns_of_project(b) ==
  IF b.option /\ ~b.detail THEN {"part", "none"} ELSE {"all"}
_discover_status_fields(b) == IF b.option THEN {"all"} ELSE {"part"}

Scanned(b) ==
  IF b.board = "yougile" THEN _columns_of_project(b)
  ELSE _discover_status_fields(b)

---------------------------------------------------------------------------
(* list_targets: the places that an agent may name.                        *)

targets_github(b) == IF b.option THEN <<Look, Look>> ELSE <<Warn>>
targets_yougile(b) == <<Scan>>
targets_weeek(b) == IF b.detail THEN <<Look>> ELSE <<Warn>>
targets_clickup(b) == IF b.option THEN <<HardLook>> ELSE <<Warn>>
targets_trello(b) == IF b.option THEN <<Look>> ELSE <<Warn>>
targets_kaiten(b) ==
  IF b.option THEN <<Look>> \o When(~b.detail, <<Warn>>) ELSE <<Warn>>
targets_jira(b) == IF b.option THEN <<HardLook, HardLook>> ELSE <<Warn>>
targets_asana(b) == IF b.option THEN <<Look>> ELSE <<Warn>>
targets_yandex_tracker(b) == <<HardLook, Look>> \o When(~b.option, <<Warn>>)
targets_linear(b) == _resolve_team(b, <<Warn>>)
\* A project's fields, or else the fields of a sample of issues.
targets_youtrack(b) == <<Scan>> \o When(~b.detail, <<Warn>>)

list_targets(b) ==
  CASE b.board = "github" -> targets_github(b)
    [] b.board = "yougile" -> targets_yougile(b)
    [] b.board = "weeek" -> targets_weeek(b)
    [] b.board = "clickup" -> targets_clickup(b)
    [] b.board = "trello" -> targets_trello(b)
    [] b.board = "kaiten" -> targets_kaiten(b)
    [] b.board = "jira" -> targets_jira(b)
    [] b.board = "asana" -> targets_asana(b)
    [] b.board = "yandex_tracker" -> targets_yandex_tracker(b)
    [] b.board = "linear" -> targets_linear(b)
    [] b.board = "youtrack" -> targets_youtrack(b)

---------------------------------------------------------------------------
(* validate_connection: the identity, then what the configuration gives.   *)

Checked(b, steps) ==
  <<HardLook>> \o (IF b.option THEN steps ELSE <<Warn>>)

validate_github(b) == Checked(b, <<HardLook>>)
validate_yougile(b) == <<HardLook, HardLook>>
validate_weeek(b) ==
  Checked(b, << >>) \o (IF b.detail THEN <<Look>> ELSE <<Warn>>)
validate_clickup(b) == Checked(b, <<HardLook>>)
validate_trello(b) == Checked(b, <<HardLook, HardLook>>)
validate_kaiten(b) == Checked(b, <<HardLook>> \o When(~b.detail, <<Warn>>))
validate_jira(b) == Checked(b, <<HardLook, HardLook>>)
validate_asana(b) == Checked(b, <<HardLook>>)
validate_yandex_tracker(b) == Checked(b, <<HardLook>>)
validate_linear(b) == <<HardLook>> \o _resolve_team(b, <<Warn>>)
validate_youtrack(b) == <<HardLook>> \o When(b.option, <<HardLook>>)

validate_connection(b) ==
  CASE b.board = "github" -> validate_github(b)
    [] b.board = "yougile" -> validate_yougile(b)
    [] b.board = "weeek" -> validate_weeek(b)
    [] b.board = "clickup" -> validate_clickup(b)
    [] b.board = "trello" -> validate_trello(b)
    [] b.board = "kaiten" -> validate_kaiten(b)
    [] b.board = "jira" -> validate_jira(b)
    [] b.board = "asana" -> validate_asana(b)
    [] b.board = "yandex_tracker" -> validate_yandex_tracker(b)
    [] b.board = "linear" -> validate_linear(b)
    [] b.board = "youtrack" -> validate_youtrack(b)

\* Seeded fault: the check does not look at the configuration.
capabilities_eager(b) == {"create", "finish"}

\* The operations that the answer says will work.
capabilities(b) ==
  CASE b.board = "yougile" -> {}
    [] b.board = "youtrack" -> {"create", "finish"}
    [] b.board \in {"weeek", "yandex_tracker"} ->
         {"finish"} \cup Only(b.option, {"create"})
    [] b.board = "linear" ->
         Only(b.option, {"create"} \cup Only(b.detail, {"finish"}))
    [] OTHER -> Only(b.option, {"create", "finish"})
=============================================================================
