------------------------------- MODULE Summaries -------------------------------
(***************************************************************************)
(* Summaries of subsystems of one branch: the tables behind SummaryStore,  *)
(* the MCP tools that read and write them, and the /summarize-subsystems   *)
(* passes of several clients.  A tool call reads the index, the policy and *)
(* the tables one after the other; only a commit and a prune are           *)
(* transactions under the branch's advisory lock.                          *)
(*                                                                         *)
(* Abstractions.  A file's skeleton is a number, written once: a file does *)
(* not become again what it was, unless Reverts.  What a fragment says is  *)
(* the skeleton it was written from; what a summary says is what the       *)
(* fragments it was composed from say, and who composed it.  A vector is   *)
(* the text it was computed from.  Reading the members and resolving the   *)
(* policy is one step.  Centrality, pages and min_size are left out, and   *)
(* so is a bundle without fragments, which no skill sends.                 *)
(***************************************************************************)
EXTENDS Subsystems, Functions

CONSTANTS
    Client,         \* sessions that run passes, each with its MCP server
    File,           \* paths
    Layouts,        \* layouts the policy may prescribe
    Fallback,       \* what is left of it when the committed layer cannot be read
    Cap,            \* SUMMARY_REBUILD_CAP, 0 for none
    Reverts,        \* whether a file may become what it was
    MaxPasses,      \* BOUND: passes of a client
    MaxEdits,       \* BOUND: edits of files
    MaxMoves,       \* BOUND: changes of the policy
    MaxTrouble      \* BOUND: reads of the policy that fail

ASSUME SummaryBounds ==
    /\ {Cap, MaxPasses, MaxEdits, MaxMoves, MaxTrouble} \subseteq Nat
    /\ Fallback \in Layouts
    /\ Reverts \in BOOLEAN

VARIABLES
    skeleton,   \* the base index: the skeleton of every file
    policy,     \* the layout the policy prescribes
    summary,    \* subsystem_summaries: cluster |-> hash, text, vector
    fragment,   \* subsystem_summary_fragments
    completed,  \* subsystem_summary_state: <<>> or <<layout>>
    pass,       \* what every client is doing
    edits, moves, lapses, runs      \* counters of the bounds

tables == <<summary, fragment, completed>>
world  == <<skeleton, policy, edits, moves>>
summaryVars == <<world, tables, pass, lapses, runs>>

Skeleton == 0..(MaxEdits + 1)
Hashes == UNION { [S -> Skeleton \ {Absent}] : S \in SUBSET File }
Key == { KeyOf(f, l) : f \in File, l \in Layouts }

Nothing == [layout |-> Fallback, clusters |-> <<>>]

(* seen: what the tool in hand has read.  listed: the snapshot of the list. *)
(* todo: clusters to build.  whole: nothing deferred or raced so far.  key, *)
(* pending, kept, draft: the bundle in hand; kept and draft are texts of    *)
(* fragments by path.  said: rows whose vector is being computed.  refused: *)
(* a full pass was not allowed to finish.                                   *)
NoPass == [pc |-> "idle", seen |-> Nothing, listed |-> Nothing, todo |-> {},
         whole |-> TRUE, key |-> <<>>, pending |-> {}, kept |-> <<>>,
         draft |-> <<>>, said |-> <<>>, refused |-> FALSE]

(* What f says, and what g says where f is silent.                         *)
Over(f, g) == [x \in DOMAIN f \cup DOMAIN g |-> IF x \in DOMAIN f THEN f[x] ELSE g[x]]
Just(x, y) == [z \in {x} |-> y]

At(c, pc) == pass[c].pc = pc
Listed(c) == pass[c].listed.clusters[pass[c].key]
Rejoin(c) == [NoPass EXCEPT !.pc = "next", !.listed = pass[c].listed,
                          !.todo = pass[c].todo, !.whole = pass[c].whole]

-----------------------------------------------------------------------------
(* The branch and its policy *)

(* `reviewer index' or a prepared review stores another skeleton.          *)
Reindex(f) ==
    /\ edits < MaxEdits
    /\ \E s \in {edits + 2, Absent} \cup (IF Reverts THEN 1..(edits + 1) ELSE {}) :
          skeleton[f] # s /\ skeleton' = [skeleton EXCEPT ![f] = s]
    /\ edits' = edits + 1
    /\ UNCHANGED <<policy, moves, tables, pass, lapses, runs>>

SetPolicy ==
    /\ moves < MaxMoves
    /\ policy' \in Layouts \ {policy}
    /\ moves' = moves + 1
    /\ UNCHANGED <<skeleton, edits, tables, pass, lapses, runs>>

-----------------------------------------------------------------------------
(* What every tool reads first *)

(* A committed layer that cannot be read is skipped: the rest holds.       *)
_resolve_summary_layout(layout) ==
    /\ layout \in {policy, Fallback}
    /\ layout # policy => lapses < MaxTrouble
    /\ lapses' = IF layout = policy THEN lapses ELSE lapses + 1

_summary_state(layout) ==
    [layout |-> layout, clusters |-> build_clusters(skeleton, layout)]

Ask(c, from, to, p) ==
    /\ At(c, from)
    /\ \E layout \in Layouts :
         /\ _resolve_summary_layout(layout)
         /\ pass' = [pass EXCEPT ![c] = [p EXCEPT !.pc = to, !.seen = _summary_state(layout)]]
    /\ UNCHANGED <<world, tables>>

-----------------------------------------------------------------------------
(* list_subsystem_clusters *)

AskList(c) ==
    /\ runs[c] < MaxPasses
    /\ runs' = [runs EXCEPT ![c] = @ + 1]
    /\ Ask(c, "idle", "list", pass[c])

(* A cluster is stale when its summary is of another source hash, or the   *)
(* whole layout is rebuilt.                                                *)
Stale(state, key) ==
    LET current == state.clusters[key]
    IN  \/ key \notin DOMAIN summary
        \/ summary[key].hash # current
        \/ _cluster_generation_flags(key, current, fragment, completed,
                                     state.layout).full_rebuild

\* Seeded fault: summaries from before there were fragments count as done.
ToRebuildStale(state) ==
    { key \in DOMAIN state.clusters : Stale(state, key) }

ToRebuild(state) ==
    { key \in DOMAIN state.clusters :
        \/ Stale(state, key)
        \/ _cluster_generation_flags(key, state.clusters[key], fragment, completed,
                                     state.layout).bootstrap }

(* Under a cap, clusters without a summary go first, then those with one,  *)
(* the oldest first (their age is not modelled: any of them): the list has *)
(* none with a summary, or all without.  What is deferred is left out.     *)
list_subsystem_clusters(c) ==
    LET state   == pass[c].seen
        rebuild == ToRebuild(state)
    IN  /\ At(c, "list")
        /\ \E todo \in SUBSET rebuild :
             /\ IF Cap = 0 \/ Cardinality(rebuild) <= Cap THEN todo = rebuild
                ELSE /\ Cardinality(todo) = Cap
                     /\ todo \cap DOMAIN summary = {} \/ rebuild \ todo \subseteq DOMAIN summary
             /\ pass' = [pass EXCEPT ![c] =
                  IF DOMAIN state.clusters = {} THEN NoPass
                  ELSE [NoPass EXCEPT
                    !.pc = "next", !.todo = todo, !.whole = (todo = rebuild),
                    !.listed = [state EXCEPT !.clusters =
                                  Restrict(@, DOMAIN @ \ (rebuild \ todo))]]]
        /\ UNCHANGED <<world, tables, lapses, runs>>

-----------------------------------------------------------------------------
(* One cluster: its work, its files' texts, its bundle *)

AskWork(c) ==
    \E key \in pass[c].todo :
        /\ Ask(c, "next", "work", [pass[c] EXCEPT !.key = key, !.todo = @ \ {key}])
        /\ UNCHANGED runs

IsCurrent(c) ==
    /\ pass[c].key \in DOMAIN pass[c].seen.clusters
    /\ pass[c].seen.clusters[pass[c].key] = Listed(c)

(* The client gives the bundle up: the pass is not a full one any more.    *)
GiveUp(c) == pass' = [pass EXCEPT ![c] = [Rejoin(c) EXCEPT !.whole = FALSE]]

Delta(c) == _summary_delta(pass[c].key, Listed(c), fragment, completed,
                           pass[c].seen.layout)

(* What the work says of files that need no text: fragments it can reuse.  *)
Kept(c, delta) ==
    [path \in delta.reused \cup delta.moved |->
        IF path \in delta.reused THEN fragment[<<pass[c].key, path>>].text
        ELSE fragment[CHOOSE s \in Elsewhere(pass[c].key, path, Listed(c)[path],
                                             fragment) : TRUE].text]

get_subsystem_summary_work(c) ==
    LET delta == Delta(c)
    IN  /\ At(c, "work")
        /\ IF ~IsCurrent(c) THEN GiveUp(c)
           ELSE pass' = [pass EXCEPT ![c].pc = "draft",
                                     ![c].pending = pending_paths(delta),
                                     ![c].kept = Kept(c, delta)]
        /\ UNCHANGED <<world, tables, lapses, runs>>

(* A job reads the skeleton of a file, as indexed now, and describes it.   *)
(* What is not there is not described, and nothing will be stored.         *)
get_file_skeletons(c, path) ==
    /\ At(c, "draft")
    /\ path \in pass[c].pending \ DOMAIN pass[c].draft
    /\ IF skeleton[path] = Absent THEN GiveUp(c)
       ELSE pass' = [pass EXCEPT ![c].draft = Over(Just(path, skeleton[path]), @)]
    /\ UNCHANGED <<world, tables, lapses, runs>>

AskIndex(c) ==
    /\ DOMAIN pass[c].draft = pass[c].pending
    /\ Ask(c, "draft", "check", pass[c])
    /\ UNCHANGED runs

\* Seeded fault: the state that get_subsystem_summary_work read is used again.
index_subsystem_summary_cached(c) ==
    /\ At(c, "check")
    /\ pass' = [pass EXCEPT ![c].pc = "commit"]
    /\ UNCHANGED <<world, tables, lapses, runs>>

(* index_subsystem_summary up to the transaction: the cluster is still the *)
(* one that was listed, and the payload covers what is pending now.        *)
index_subsystem_summary(c) ==
    /\ At(c, "check")
    /\ IF IsCurrent(c) /\ pending_paths(Delta(c)) = pass[c].pending
       THEN pass' = [pass EXCEPT ![c].pc = "commit"]
       ELSE GiveUp(c)
    /\ UNCHANGED <<world, tables, lapses, runs>>

(* The fragments the transaction leaves for file `path': the one sent, the *)
(* cluster's own, or the only copy of it in another cluster.               *)
Sources(c, path) ==
    LET key == pass[c].key
    IN  IF path \in pass[c].pending
        THEN { [fingerprint |-> Listed(c)[path], text |-> pass[c].draft[path],
                stamp |-> pass[c].seen.layout] }
        ELSE IF /\ path \in Own(key, fragment)
                /\ fragment[<<key, path>>].fingerprint = Listed(c)[path]
        THEN { fragment[<<key, path>>] }
        ELSE { fragment[s] : s \in Elsewhere(key, path, Listed(c)[path], fragment) }

Copies(c, path) ==
    IF \/ path \in pass[c].pending
       \/ /\ path \in Own(pass[c].key, fragment)
          /\ fragment[<<pass[c].key, path>>].fingerprint = Listed(c)[path]
    THEN 1
    ELSE Cardinality(Elsewhere(pass[c].key, path, Listed(c)[path], fragment))

Said(c) == [of |-> Over(pass[c].draft, pass[c].kept), by |-> c]

(* One transaction: other clusters lose their fragments of these files,    *)
(* this one those of other files; the vector is gone.  A file without an   *)
(* unambiguous fragment rolls everything back.                             *)
commit_summary_bundle(c) ==
    LET key   == pass[c].key
        files == DOMAIN Listed(c)
        rest  == { s \in DOMAIN fragment : s[1] # key /\ s[2] \notin files }
        row   == [hash |-> Listed(c), text |-> Said(c), vector |-> <<>>]
    IN  /\ At(c, "commit")
        /\ IF \E path \in files : Copies(c, path) # 1
           THEN GiveUp(c) /\ UNCHANGED tables
           ELSE /\ fragment' =
                    Over([s \in {key} \X files |-> CHOOSE f \in Sources(c, s[2]) : TRUE],
                         Restrict(fragment, rest))
                /\ summary' = Over(Just(key, row), summary)
                /\ pass' = [pass EXCEPT ![c] = [Rejoin(c) EXCEPT
                                !.pc = "embed", !.said = Just(key, <<Listed(c), Said(c)>>)]]
                /\ UNCHANGED completed
        /\ UNCHANGED <<world, lapses, runs>>

\* Seeded fault: only the source hash is compared.
set_embedding_if_source(said) ==
    [key \in DOMAIN summary |->
        IF key \in DOMAIN said /\ summary[key].hash = said[key][1]
        THEN [summary[key] EXCEPT !.vector = <<said[key][2]>>] ELSE summary[key]]

set_embedding_if_source_hash(said) ==
    [key \in DOMAIN summary |->
        IF key \in DOMAIN said /\ <<summary[key].hash, summary[key].text>> = said[key]
        THEN [summary[key] EXCEPT !.vector = <<said[key][2]>>] ELSE summary[key]]

(* The vector arrives, or the embedder fails and it stays empty.           *)
_embed_subsystem_summary(c) ==
    /\ At(c, "embed")
    /\ summary' \in {summary, set_embedding_if_source_hash(pass[c].said)}
    /\ pass' = [pass EXCEPT ![c] = Rejoin(c)]
    /\ UNCHANGED <<world, fragment, completed, lapses, runs>>

-----------------------------------------------------------------------------
(* The end of a pass *)

AskPrune(c) ==
    /\ pass[c].todo = {}
    /\ Ask(c, "next", "finalize", pass[c])
    /\ UNCHANGED runs

(* The server's checks: nothing moved since the list, every summary is     *)
(* there and of its cluster, every fragment of this generation.            *)
Verified(c) ==
    LET clusters == pass[c].seen.clusters
    IN  /\ DOMAIN clusters # {}
        /\ pass[c].listed = pass[c].seen
        /\ \A key \in DOMAIN clusters :
             /\ key \in DOMAIN summary /\ summary[key].hash = clusters[key]
             /\ has_complete_fragment_generation(key, clusters[key], fragment,
                                                 pass[c].seen.layout)

Prune(c, keep) ==
    /\ summary' = Restrict(summary, DOMAIN summary \cap keep)
    /\ fragment' = Restrict(fragment, { s \in DOMAIN fragment : s[1] \in keep })
    /\ completed' = <<pass[c].listed.layout>>

\* Seeded fault: only the clusters of the list are verified.
prune_verified_list(c) ==
    LET listed == pass[c].listed
    IN  /\ At(c, "finalize")
        /\ IF /\ listed.layout = pass[c].seen.layout
              /\ \A key \in DOMAIN listed.clusters :
                   /\ key \in DOMAIN summary /\ summary[key].hash = listed.clusters[key]
                   /\ has_complete_fragment_generation(key, listed.clusters[key],
                                                       fragment, listed.layout)
           THEN Prune(c, DOMAIN listed.clusters) ELSE UNCHANGED tables
        /\ pass' = [pass EXCEPT ![c] = [Rejoin(c) EXCEPT !.pc = "backfill"]]
        /\ UNCHANGED <<world, lapses, runs>>

(* The server may be asked after a pass that was not a full one, too.      *)
prune_subsystem_summaries(c) ==
    /\ At(c, "finalize")
    /\ IF Verified(c) THEN Prune(c, DOMAIN pass[c].seen.clusters) ELSE UNCHANGED tables
    /\ pass' = [pass EXCEPT ![c] = [Rejoin(c) EXCEPT
                   !.pc = "backfill",
                   !.refused = /\ pass[c].whole /\ pass[c].listed = pass[c].seen
                               /\ ~Verified(c)]]
    /\ UNCHANGED <<world, lapses, runs>>

(* backfill_summary_embeddings: rows without a vector are read ...         *)
get_pending_embeddings(c) ==
    LET pending == { key \in DOMAIN summary : summary[key].vector = <<>> }
    IN  /\ At(c, "backfill") \/ (At(c, "next") /\ pass[c].todo = {})
        /\ pass' = [pass EXCEPT ![c].pc = "vectors",
             ![c].said = [key \in pending |-> <<summary[key].hash, summary[key].text>>]]
        /\ UNCHANGED <<world, tables, lapses, runs>>

(* ... and written, each by itself, unless the embedder fails for all.     *)
backfill_summary_embeddings(c) ==
    /\ At(c, "vectors")
    /\ summary' \in {summary, set_embedding_if_source_hash(pass[c].said)}
    /\ pass' = [pass EXCEPT ![c] = NoPass]
    /\ UNCHANGED <<world, fragment, completed, lapses, runs>>

-----------------------------------------------------------------------------
(* Tables nobody has written to, summaries from before there were          *)
(* fragments, or what a full pass has left.                                *)
Written(layout) ==
    LET clusters == build_clusters(skeleton, layout)
    IN  [key \in DOMAIN clusters |->
            [hash |-> clusters[key], text |-> [of |-> clusters[key], by |-> "earlier"],
             vector |-> <<>>]]

Fragments(layout) ==
    LET clusters == build_clusters(skeleton, layout)
    IN  [s \in { s \in (DOMAIN clusters) \X File : s[2] \in DOMAIN clusters[s[1]] } |->
            [fingerprint |-> skeleton[s[2]], text |-> skeleton[s[2]], stamp |-> layout]]

SummaryInit ==
    /\ skeleton \in [File -> {Absent, 1}]
    /\ policy \in Layouts
    /\ \/ summary = <<>> /\ fragment = <<>> /\ completed = <<>>
       \/ summary = Written(policy) /\ fragment = <<>> /\ completed = <<>>
       \/ /\ summary = Written(policy) /\ fragment = Fragments(policy)
          /\ completed = <<policy>>
    /\ pass = [c \in Client |-> NoPass]
    /\ edits = 0 /\ moves = 0 /\ lapses = 0
    /\ runs = [c \in Client |-> 0]

Tool(c) ==
    \/ AskList(c) \/ list_subsystem_clusters(c)
    \/ AskWork(c) \/ get_subsystem_summary_work(c)
    \/ \E path \in File : get_file_skeletons(c, path)
    \/ AskIndex(c) \/ index_subsystem_summary(c) \/ commit_summary_bundle(c)
    \/ _embed_subsystem_summary(c)
    \/ AskPrune(c) \/ prune_subsystem_summaries(c)
    \/ get_pending_embeddings(c) \/ backfill_summary_embeddings(c)

SummaryNext ==
    \/ SetPolicy
    \/ \E f \in File : Reindex(f)
    \/ \E c \in Client : Tool(c)

-----------------------------------------------------------------------------
(* Properties *)

(* Types of all variables; who is past the list has one, and what is in    *)
(* hand is a cluster of it (SummaryStore, the summary tools).              *)
SummaryTypeOK ==
    /\ skeleton \in [File -> Skeleton] /\ policy \in Layouts
    /\ completed \in {<<>>} \cup { <<l>> : l \in Layouts }
    /\ DOMAIN summary \subseteq Key
    /\ DOMAIN fragment \subseteq Key \X File
    /\ \A c \in Client :
         /\ pass[c].pc \in {"idle", "list", "next", "work", "draft", "check", "commit",
                            "embed", "finalize", "backfill", "vectors"}
         /\ pass[c].pc \in {"work", "draft", "check", "commit"} =>
              pass[c].key \in DOMAIN pass[c].listed.clusters
         /\ DOMAIN pass[c].draft \subseteq pass[c].pending

(* A stored fragment is about the skeleton whose fingerprint it carries,   *)
(* and a stored summary about the files and skeletons of its source hash,  *)
(* though list, work, skeletons and commit are separate calls between      *)
(* which the branch is indexed and others commit                           *)
(* (index_subsystem_summary, commit_summary_bundle).                       *)
TextIsOfItsHash ==
    /\ \A s \in DOMAIN fragment : fragment[s].text = fragment[s].fingerprint
    /\ \A key \in DOMAIN summary : summary[key].text.of = summary[key].hash

(* The vector a search finds a summary by is the vector of the text it     *)
(* returns, whoever rewrote the row while the vector was being computed    *)
(* (set_embedding_if_source_hash, commit_summary_bundle).                  *)
VectorIsOfItsText ==
    \A key \in DOMAIN summary :
        summary[key].vector \in {<<>>, <<summary[key].text>>}

(* Finishing a pass deletes no summary of a cluster there was when prune   *)
(* looked, not even one the list had deferred (prune_subsystem_summaries,  *)
(* prune_verified_layout).                                                 *)
PruneSparesClusters ==
    [][\A key \in DOMAIN summary \ DOMAIN summary' :
         \E c \in Client : At(c, "finalize") /\ key \notin DOMAIN pass[c].seen.clusters
      ]_summaryVars

(* As long as every fragment lies in the cluster and is of the layout in   *)
(* force, an index without work left to list is one whose prune goes       *)
(* through: no file is without a fragment while its cluster counts as      *)
(* fresh (list_subsystem_clusters, commit_summary_bundle,                  *)
(* has_complete_fragment_generation).                                      *)
NothingLeftIsFinished ==
    LET state == _summary_state(policy)
    IN  /\ completed \in {<<>>, <<policy>>}
        /\ \A s \in DOMAIN fragment : 
             fragment[s].stamp = policy /\ s[1] = KeyOf(s[2], policy)
        /\ ToRebuild(state) = {}
        => \A key \in DOMAIN state.clusters :
             has_complete_fragment_generation(key, state.clusters[key], fragment, policy)
=============================================================================
