---------------------------- MODULE TaskContext ----------------------------
(***************************************************************************)
(* prepare_task_context: nine sections from Postgres, Neo4j and the        *)
(* embedder in one answer, of which any may be out or go out on the way    *)
(* (reviewer/mcp/task_context.py, the providers of its sections in         *)
(* reviewer/mcp/service.py, and the classes of reviewer/storage_health.py).*)
(*                                                                         *)
(* A section is one step.  It calls its sources in a fixed order; what a   *)
(* failed call does is its mode: it `raises' out of the section, is        *)
(* `absorbed' into the section's answer and taken out of it again,         *)
(* `reported' as a field of the answer, `swallowed', so that the section   *)
(* goes on without, or `empties' the answer.                               *)
(*                                                                         *)
(* Left out: the texts, the verdict on the kind of an outage and its       *)
(* remedy, errors that are no outage (a generic gap of the same section),  *)
(* notes of the files that are mixed into the code section.                *)
(***************************************************************************)
EXTENDS Integers, Sequences, FiniteSets

CONSTANTS
  MaxChanges    \* BOUND: how often a source goes out or comes back on the way

ASSUME ContextAssumption == MaxChanges \in Nat

VARIABLES
  asking,       \* the call: warm_board, a board is configured, the task is in
                \* the store, the next section
  out,          \* the sources that are out
  changes,      \* how often that changed
  down,         \* _StorageState.down
  gaps,         \* payload["gaps"]: section, source ("" when none), skipped
  got,          \* by section: "todo", "none" (its default) or "some"
  outEver, outAlways, \* HISTORY: sources that were out in this call, and all the time
  reached       \* HISTORY: by source, its failures that a section saw

context == <<asking, out, changes, down, gaps, got, outEver, outAlways, reached>>

Postgres == "postgres"
Graph == "graph"
Embedder == "embedder"
Source == {Postgres, Graph, Embedder}

Sections == <<"preflight", "task_board", "warm_board", "task", "linked", "similar",
              "subsystems", "code", "test_exemplars">>
SectionName == {Sections[i] : i \in DOMAIN Sections}

-----------------------------------------------------------------------------
(* What a section calls.                                                   *)

Calling(source, mode) == [source |-> source, mode |-> mode]

\* build_status_report, behind the path of the clone
PreflightCalls == {<<Calling(Postgres, "raises"), Calling(Graph, "absorbed"), Calling(Postgres, "swallowed")>>}
\* _resolve_policy: without the path of the clone it asks the VCS
TaskBoardCalls == {<<Calling(Postgres, "swallowed")>>}
\* sync_board swallows all failures of its stores; the embedder is called
\* when a task has changed
WarmBoardCalls == {<<Calling(Postgres, "swallowed"), Calling(Graph, "swallowed")>>,
                   <<Calling(Postgres, "swallowed"), Calling(Embedder, "reported"), Calling(Graph, "swallowed")>>}
TaskCalls == {<<Calling(Postgres, "empties")>>}
LinkedCalls == {<<Calling(Graph, "raises")>>}
SimilarCalls == {<<Calling(Embedder, "raises"), Calling(Postgres, "empties")>>}
\* the query is embedded when there are more summaries than the threshold
SubsystemsCalls == {<<Calling(Postgres, "raises")>>,
                    <<Calling(Postgres, "raises"), Calling(Embedder, "raises"), Calling(Postgres, "raises")>>}
\* _search_codebase_multi
SearchCalls == <<Calling(Embedder, "raises"), Calling(Postgres, "empties"), Calling(Graph, "swallowed")>>
\* paths of similar tasks before the search
CodeCalls == {<<Calling(Postgres, "swallowed")>> \o SearchCalls, SearchCalls}

CallsOf(section) ==
  CASE section = "preflight" -> PreflightCalls
    [] section = "task_board" -> TaskBoardCalls
    [] section = "warm_board" -> WarmBoardCalls
    [] section = "task" -> TaskCalls
    [] section = "linked" -> LinkedCalls
    [] section = "similar" -> SimilarCalls
    [] section = "subsystems" -> SubsystemsCalls
    [] section = "code" -> CodeCalls
    [] OTHER -> {SearchCalls}

\* the storage that a section is marked with, and the sections of the embedder
Backend(section) == IF section = "linked" THEN Graph ELSE Postgres
EmbedderSections == {"similar", "subsystems", "code", "test_exemplars"}

-----------------------------------------------------------------------------
(* _safe.                                                                  *)

Failing(calls, mode) == {i \in DOMAIN calls : calls[i].source \in out /\ calls[i].mode = mode}

\* the call that ends the section, or one more than there are
EndsAt(calls) ==
  IF Failing(calls, "raises") = {} THEN Len(calls) + 1
  ELSE CHOOSE i \in Failing(calls, "raises") : \A j \in Failing(calls, "raises") : i <= j

\* failures that mark their source
Marks(calls) ==
  {i \in DOMAIN calls : /\ calls[i].source \in out
                        /\ calls[i].mode \in {"raises", "absorbed", "reported"}
                        /\ i <= EndsAt(calls)}

Gap(section, source, skipped) == [section |-> section, source |-> source, skipped |-> skipped]

\* no task was read: it is not in the store, or the embedder could not index it
NoTask == Gap("task", IF Embedder \in down THEN Embedder ELSE "", FALSE)

\* SEEDED FAULT: one flag for all storages
SkippedForAny(section) ==
  IF section \in EmbedderSections /\ Embedder \in down THEN {Embedder}
  ELSE {b \in {Postgres, Graph} \cap down : \A c \in {Postgres, Graph} \cap down : b = c \/ b = Postgres}

\* the source for which a section is skipped, if there is one
SkippedFor(section) ==
  IF section \in EmbedderSections /\ Embedder \in down THEN {Embedder}
  ELSE {Backend(section)} \cap down

Skip(section) ==
  /\ SkippedFor(section) # {}
  /\ gaps' = gaps \cup {Gap(section, s, TRUE) : s \in SkippedFor(section)}
  /\ got' = [got EXCEPT ![section] = "none"]
  /\ UNCHANGED <<down, reached>>

\* a failure has left the answer empty
Emptied(calls) == Failing(calls, "empties") # {}

CollectSection(section) ==
  /\ SkippedFor(section) = {}
  /\ \E calls \in CallsOf(section) :
       LET raised == EndsAt(calls) <= Len(calls)
           unread == section = "task" /\ (Emptied(calls) \/ ~asking.stored)
           none == raised \/ Emptied(calls) \/ unread
       IN  /\ gaps' = gaps \cup {Gap(section, calls[i].source, FALSE) : i \in DOMAIN calls \cap {EndsAt(calls)}}
                            \cup (IF unread THEN {NoTask} ELSE {})
           /\ got' = [got EXCEPT ![section] = IF none THEN "none" ELSE "some"]
           /\ down' = down \cup {calls[i].source : i \in Marks(calls)}
           /\ reached' = [s \in Source |->
                 reached[s] + Cardinality({i \in Marks(calls) : calls[i].source = s})]

-----------------------------------------------------------------------------
ContextInit ==
  /\ asking \in [warm: BOOLEAN, board: BOOLEAN, stored: BOOLEAN, next: {1}]
  /\ out \in SUBSET Source
  /\ changes = 0
  /\ down = {}
  /\ gaps = {}
  /\ got = [s \in SectionName |-> "todo"]
  /\ outEver = out
  /\ outAlways = out
  /\ reached = [s \in Source |-> 0]

Answering == asking.next <= Len(Sections)
Due == Sections[asking.next]

\* warm_board is asked for, and there is a board to warm
Warms == asking.warm /\ asking.board /\ got["task_board"] = "some"

\* without a board warm_board has a gap of its own, with what is down if it is
NoBoard ==
  /\ gaps' = IF asking.warm
             THEN gaps \cup {Gap("warm_board", IF Postgres \in down THEN Postgres ELSE "", Postgres \in down)}
             ELSE gaps
  /\ got' = [got EXCEPT !["warm_board"] = "none"]
  /\ UNCHANGED <<down, reached>>

BuildSection ==
  /\ Answering
  /\ asking' = [asking EXCEPT !.next = @ + 1]
  /\ IF Due = "warm_board" /\ ~Warms THEN NoBoard ELSE Skip(Due) \/ CollectSection(Due)
  /\ UNCHANGED <<out, changes, outEver, outAlways>>

OutageChanges ==
  /\ Answering /\ changes < MaxChanges
  /\ changes' = changes + 1
  /\ \E s \in Source :
       /\ out' = IF s \in out THEN out \ {s} ELSE out \cup {s}
       /\ outEver' = outEver \cup out'
       /\ outAlways' = outAlways \cap out'
  /\ UNCHANGED <<asking, down, gaps, got, reached>>

ContextNext == BuildSection \/ OutageChanges

-----------------------------------------------------------------------------
\* what a section cannot do without
Vital(section) ==
  CASE section \in {"preflight", "task"} -> {Postgres}
    [] section = "linked" -> {Graph}
    [] section \in EmbedderSections -> {Postgres, Embedder}
    [] OTHER -> {}

Told(section, source) == \E g \in gaps : g.section = section /\ g.source = source

(* The answer is honest about outages.  A gap names a source that was out  *)
(* while the answer was made and that the section needs, so that an outage *)
(* takes no section with it that could do without; a section whose sources *)
(* are all there is collected; one that needs a source that is out all the *)
(* time is missing, and a gap says for which of them; and the same outage  *)
(* is run into once, by one section.                                       *)
ContextIsHonest ==
  asking.next > 1 =>
    /\ \A g \in gaps : g.source # "" =>
         /\ g.source \in outEver
         /\ g.source \in Vital(g.section) \cup {Backend(g.section)} \/ g = Gap("task", Embedder, FALSE)
    /\ \A s \in SectionName \ {"warm_board"} :
         got[s] # "todo" /\ Vital(s) \cap outEver = {} =>
           got[s] = "some" \/ Told(s, Backend(s)) \/ (s = "task" /\ ~asking.stored)
    /\ \A s \in SectionName :
         got[s] # "todo" /\ Vital(s) \cap outAlways # {} =>
           got[s] = "none" /\ \E source \in Vital(s) : Told(s, source)
    /\ \A source \in Source : reached[source] <= 1
=============================================================================
