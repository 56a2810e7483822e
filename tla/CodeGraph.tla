------------------------------- MODULE CodeGraph -------------------------------
(***************************************************************************)
(* The code graph of one branch in Neo4j: `reviewer index` rebuilds it,    *)
(* and a prepared review patches it from the files between the commit of   *)
(* the base index and the base commit of its pull request.  Every          *)
(* statement is a transaction of its own, and whoever fails between two    *)
(* leaves the graph as it is.                                              *)
(*                                                                         *)
(* Abstractions.  A commit is the sources of its Python files, and it      *)
(* changes one of them; the branch is linear.  The rows of the base index  *)
(* are module BaseIndex: here they are as good as index_meta says, and     *)
(* listings are complete and name no renamed file.  One process at a time  *)
(* works on the branch; the graph is built by tree-sitter.                 *)
(***************************************************************************)
EXTENDS GraphBuilder, Functions

CONSTANTS
    SourcesOf,      \* path |-> what a commit may make of the file
    MaxCommit,      \* BOUND: commits of the branch
    MaxFaults       \* BOUND: patches and rebuilds that stop half-way

ASSUME GraphBounds == MaxCommit \in Nat \ {0} /\ MaxFaults \in Nat

(* A call or a class is in the symbol whose lines it is on, if there is one *)
(* (build_fqn_resolver): who refers to something is defined in the file.   *)
ASSUME ReferrersAreDefined ==
    \A path \in DOMAIN SourcesOf : \A source \in SourcesOf[path] :
        /\ \A call \in source.calls : call.by \in source.defs
        /\ \A base \in source.bases : base.by \in source.defs

VARIABLES
    history,    \* the commits of the branch: path |-> source, partial
    meta,       \* index_meta: a commit, 0 without a row
    nodes, edges,   \* the symbols of the branch and their relations
    job,        \* what the process at work is doing
    faults,
    rebuilt,    \* the commit of the last rebuild
    astray      \* a patch or rebuild failed, or the index went back, since then

graphVars == <<history, meta, nodes, edges, job, faults, rebuilt, astray>>

Tip == Len(history)
AtRest == [pc |-> "rest", to |-> 0, changed |-> <<>>, gone |-> {}, built |-> <<>>,
           stale |-> {}]

Goto(pc) == job' = [job EXCEPT !.pc = pc]
In(pc) == job.pc = pc
Of(paths) == { s \in nodes : s[1] \in paths }

-----------------------------------------------------------------------------
(* The branch *)

Commit(path) ==
    LET files == history[Tip]
        others == Restrict(files, DOMAIN files \ {path})
        with(source) == [p \in DOMAIN files \cup {path} |->
                           IF p = path THEN source ELSE files[p]]
    IN  /\ Tip < MaxCommit
        /\ \E tree \in { with(source) : source \in SourcesOf[path] } \cup {others} :
             tree # files /\ history' = Append(history, tree)
        /\ UNCHANGED <<meta, nodes, edges, job, faults, rebuilt, astray>>

-----------------------------------------------------------------------------
(* A review whose base commit is `to' *)

(* compare lists nothing when the base commit is behind the index.         *)
Differ(from, to) ==
    LET was == history[from]
        is == history[to]
    IN  IF to <= from THEN {}
        ELSE { p \in DOMAIN SourcesOf :
                 \/ p \in DOMAIN was /\ p \notin DOMAIN is
                 \/ p \in DOMAIN is /\ (p \in DOMAIN was => was[p] # is[p]) }

Prepare ==
    /\ job = AtRest /\ meta # 0
    /\ \E to \in (1..Tip) \ {meta} :
         LET paths == Differ(meta, to)
         IN  job' = [AtRest EXCEPT
               !.pc = "meta", !.to = to,
               !.changed = Restrict(history[to], paths \cap DOMAIN history[to]),
               !.gone = paths \ DOMAIN history[to]]
    /\ UNCHANGED <<history, meta, nodes, edges, faults, rebuilt, astray>>

(* update_base has gone through; index_meta moves before the graph does.   *)
SetMeta ==
    /\ In("meta")
    /\ meta' = job.to
    /\ astray' = (astray \/ job.to < meta)
    /\ Goto("gone")
    /\ UNCHANGED <<history, nodes, edges, faults, rebuilt>>

DetachDelete(symbols) ==
    /\ nodes' = nodes \ symbols
    /\ edges' = { e \in edges : e[1] \notin symbols /\ e[3] \notin symbols }

(* Removed files lose their symbols; without changed ones that is all.     *)
delete_removed ==
    /\ In("gone")
    /\ DetachDelete(Of(job.gone))
    /\ job' = IF DOMAIN job.changed = {} THEN AtRest ELSE [job EXCEPT !.pc = "parse"]
    /\ UNCHANGED <<history, meta, faults, rebuilt, astray>>

(* all_node_ids, the parse of the changed files, symbols_for_paths: three  *)
(* reads, and nobody else writes.                                          *)
parse_changed ==
    LET built == build_graph_from_files(job.changed, nodes)
    IN  /\ In("parse")
        /\ job' = [job EXCEPT !.pc = "stale", !.built = built,
                              !.stale = Of(DOMAIN job.changed) \ built.nodes]
        /\ UNCHANGED <<history, meta, nodes, edges, faults, rebuilt, astray>>

\* Seeded fault: the changed files lose all their symbols, to be written anew.
delete_changed ==
    /\ In("stale")
    /\ DetachDelete(Of(DOMAIN job.changed))
    /\ Goto("calls")
    /\ UNCHANGED <<history, meta, faults, rebuilt, astray>>

delete_stale ==
    /\ In("stale")
    /\ DetachDelete(job.stale)
    /\ Goto("calls")
    /\ UNCHANGED <<history, meta, faults, rebuilt, astray>>

DeleteOutgoing(rel) ==
    edges' = { e \in edges : ~(e[1] \in job.built.nodes /\ e[2] = rel) }

delete_outgoing_calls ==
    /\ In("calls")
    /\ DeleteOutgoing("CALLS")
    /\ Goto("implements")
    /\ UNCHANGED <<history, meta, nodes, faults, rebuilt, astray>>

\* Seeded fault: edges of inheritance stay, as they did before PRI-251.
keep_outgoing_implements ==
    /\ In("implements")
    /\ Goto("nodes")
    /\ UNCHANGED <<history, meta, nodes, edges, faults, rebuilt, astray>>

delete_outgoing_implements ==
    /\ In("implements")
    /\ DeleteOutgoing("IMPLEMENTS")
    /\ Goto("nodes")
    /\ UNCHANGED <<history, meta, nodes, faults, rebuilt, astray>>

-----------------------------------------------------------------------------
(* `reviewer index' on a clone at commit `to' *)

Index ==
    /\ job = AtRest
    /\ \E to \in 1..Tip :
         /\ job' = [AtRest EXCEPT !.pc = "clear", !.to = to,
                      !.built = build_graph_from_files(history[to], {})]
         /\ meta' = to
    /\ astray' = TRUE
    /\ UNCHANGED <<history, nodes, edges, faults, rebuilt>>

clear ==
    /\ In("clear")
    /\ nodes' = {} /\ edges' = {}
    /\ Goto("nodes")
    /\ UNCHANGED <<history, meta, faults, rebuilt, astray>>

-----------------------------------------------------------------------------
(* Both end the same way *)

upsert_nodes ==
    /\ In("nodes")
    /\ nodes' = nodes \cup job.built.nodes
    /\ Goto("edges")
    /\ UNCHANGED <<history, meta, edges, faults, rebuilt, astray>>

(* An edge is written when both of its ends are there.                     *)
upsert_edges ==
    LET full == DOMAIN job.changed = {}
    IN  /\ In("edges")
        /\ edges' = edges \cup { e \in job.built.edges : {e[1], e[3]} \subseteq nodes }
        /\ rebuilt' = IF full THEN job.to ELSE rebuilt
        /\ astray' = (astray /\ ~full)
        /\ job' = AtRest
        /\ UNCHANGED <<history, meta, nodes, faults>>

(* Neo4j fails and the review goes on without it, or the process dies.     *)
Stop ==
    /\ ~In("rest") /\ faults < MaxFaults
    /\ faults' = faults + 1
    /\ astray' = (astray \/ ~In("meta"))
    /\ job' = AtRest
    /\ UNCHANGED <<history, meta, nodes, edges, rebuilt>>

-----------------------------------------------------------------------------
GraphInit ==
    /\ \E paths \in SUBSET DOMAIN SourcesOf :
         \E tree \in [paths -> UNION { SourcesOf[p] : p \in DOMAIN SourcesOf }] :
            /\ \A p \in paths : tree[p] \in SourcesOf[p]
            /\ history = <<tree>>
    /\ meta = 0 /\ nodes = {} /\ edges = {} /\ job = AtRest
    /\ faults = 0 /\ rebuilt = 0 /\ astray = TRUE

Patch ==
    \/ Prepare \/ SetMeta \/ delete_removed \/ parse_changed \/ delete_stale
    \/ delete_outgoing_calls \/ delete_outgoing_implements

Rebuild == Index \/ clear

GraphNext ==
    \/ \E path \in DOMAIN SourcesOf : Commit(path)
    \/ Patch \/ Rebuild
    \/ upsert_nodes \/ upsert_edges
    \/ Stop

-----------------------------------------------------------------------------
(* Properties *)

InStep == job = AtRest /\ ~astray

(* Types; edges join symbols that are there (GraphStore).                  *)
GraphTypeOK ==
    /\ meta \in 0..Tip /\ rebuilt \in 0..Tip /\ job.to \in 0..Tip
    /\ faults \in 0..MaxFaults /\ astray \in BOOLEAN
    /\ \A e \in edges : e[2] \in {"CALLS", "IMPLEMENTS"} /\ {e[1], e[3]} \subseteq nodes

Refers(source, name, rel, to) ==
    IF rel = "IMPLEMENTS" THEN \E b \in source.bases : b.by = name /\ b.name = to
    ELSE \E c \in source.calls : c.by = name /\ c.name = to

(* After any number of patches without a failure since the last rebuild,   *)
(* the graph has the symbols of the indexed commit, no more and no fewer,  *)
(* and every edge has a reference in the source as it is then: no edge     *)
(* outlives the line it came from (patch_graph_incremental).  Aliases of   *)
(* imported names are looked through.                                      *)
GraphIsOfTheIndex ==
    InStep =>
      LET files == history[meta]
      IN  /\ nodes = GraphNodes(files)
          /\ \A e \in edges :
               LET source == files[e[1][1]]
               IN  \E name \in {e[3][2]} \cup { n \in DOMAIN source.names :
                                                  source.names[n][2] = e[3][2] } :
                     Refers(source, e[1][2], e[2], name)

(* An edge of the last rebuild is still there when nothing it depends on   *)
(* was touched: its source file is the same in every commit since, and the *)
(* symbol it points to was never gone (patch_graph_incremental keeps       *)
(* incoming edges of the files it patches).                                *)
UntouchedEdgesStay ==
    InStep =>
      \A e \in build_graph_from_files(history[rebuilt], {}).edges :
        (\A c \in rebuilt..meta :
            /\ e[1][1] \in DOMAIN history[c]
            /\ history[c][e[1][1]] = history[rebuilt][e[1][1]]
            /\ e[3] \in GraphNodes(history[c]))
        => e \in edges

(* A subclass that is edited keeps the edge to its base when the base is   *)
(* in a file nobody touched (docstring of services/graph_sync.py).         *)
InheritanceSurvivesPatch ==
    InStep =>
      \A e \in build_graph_from_files(history[meta], {}).edges :
        (/\ e[2] = "IMPLEMENTS"
         /\ \A c \in rebuilt..meta :
              /\ e[3][1] \in DOMAIN history[c]
              /\ history[c][e[3][1]] = history[rebuilt][e[3][1]])
        => e \in edges

(* A patched graph has neither too much nor, of what it does not touch,    *)
(* too little: patch_graph_incremental after the index has moved.          *)
GraphFollowsTheIndex == GraphIsOfTheIndex /\ UntouchedEdgesStay
=============================================================================
