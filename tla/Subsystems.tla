------------------------------ MODULE Subsystems ------------------------------
(***************************************************************************)
(* How the files of a branch are grouped into subsystems, and what is left *)
(* to write of the summary of one: graph/summaries.py and                  *)
(* services/summary_fragments.py, which do no I/O.                         *)
(*                                                                         *)
(* A path is the sequence of its segments.  The skeleton of a file stands  *)
(* for its symbols with their skeleton hashes, so it is the fingerprint of *)
(* the file, and a source hash is the fingerprints of a cluster's files.   *)
(* A layout is the policy's depth, depths of directories and ignored       *)
(* directories, already normalised: it is its own token.                   *)
(***************************************************************************)
EXTENDS Integers, Sequences, FiniteSets
LOCAL INSTANCE SequencesExt
LOCAL INSTANCE FiniteSetsExt

CONSTANTS Absent     \* the fingerprint of a file that is not in the index

Dir(path) == Front(path)

(* Ignored directories are plain names: they match with what is in them.   *)
is_ignored(path, patterns) == \E pat \in patterns : IsPrefix(pat, path)

(* The depth of the longest directory the policy names, or the default.    *)
depth_for(path, layout) ==
    LET named == { key \in DOMAIN layout.overrides : IsPrefix(key, Dir(path)) }
    IN  IF named = {} THEN layout.depth
        ELSE layout.overrides[CHOOSE key \in named :
                                \A k \in named : Len(k) <= Len(key)]

(* The first segments of the directory; <<>> is "<root>".                  *)
cluster_key(path, depth) ==
    SubSeq(Dir(path), 1, Min({depth, Len(Dir(path))}))

KeyOf(path, layout) == cluster_key(path, depth_for(path, layout))

Members(index, layout) ==
    { path \in DOMAIN index :
        index[path] # Absent /\ ~is_ignored(path, layout.ignore) }

(* Every cluster with the fingerprints of its files: its source hash.      *)
build_clusters(index, layout) ==
    LET members == Members(index, layout)
        files(key) == { path \in members : KeyOf(path, layout) = key }
    IN  [key \in { KeyOf(path, layout) : path \in members } |->
            [path \in files(key) |-> index[path]]]

-----------------------------------------------------------------------------
(* Fragments: <<cluster, path>> |-> fingerprint, text and the layout that  *)
(* was in force when it was written (the server's provenance stamp).       *)

Own(key, stored) == { s[2] : s \in { s \in DOMAIN stored : s[1] = key } }

(* Copies of the file's fragment that other clusters hold.                 *)
Elsewhere(key, path, fingerprint, stored) ==
    { s \in DOMAIN stored : /\ s[1] # key /\ s[2] = path
                            /\ stored[s].fingerprint = fingerprint }

has_complete_fragment_generation(key, current, stored, layout) ==
    /\ Own(key, stored) = DOMAIN current
    /\ DOMAIN current # {}
    /\ \A path \in DOMAIN current :
          /\ stored[<<key, path>>].fingerprint = current[path]
          /\ stored[<<key, path>>].stamp = layout

(* No pass was ever completed, or the last one was of another layout; in   *)
(* either case only clusters without a complete generation are concerned.  *)
_cluster_generation_flags(key, current, stored, completed, layout) ==
    LET complete == has_complete_fragment_generation(key, current, stored, layout)
    IN  [bootstrap    |-> completed = <<>> /\ ~complete,
         full_rebuild |-> completed # <<>> /\ completed # <<layout>> /\ ~complete]

(* Which files need a new fragment (added, changed), and which have one:   *)
(* their own, or the only copy of it, in another cluster.                  *)
build_fragment_delta(key, current, stored, flags) ==
    LET anew   == flags.bootstrap \/ flags.full_rebuild
        own    == Own(key, stored)
        fits(path) == path \in own /\ stored[<<key, path>>].fingerprint = current[path]
        copies(path) == Cardinality(Elsewhere(key, path, current[path], stored))
        files  == DOMAIN current
        reused == IF anew THEN {} ELSE { path \in files : fits(path) }
        moved  == IF anew THEN {} ELSE { path \in files \ own : copies(path) = 1 }
    IN  [reused  |-> reused,
         moved   |-> moved,
         changed |-> IF anew THEN {}
                     ELSE { path \in files \ (reused \cup moved) :
                              path \in own \/ copies(path) > 1 },
         added   |-> IF anew THEN files
                     ELSE { path \in files \ own : copies(path) = 0 },
         removed |-> own \ files]

(* A rebuild lists everything as changed.                                  *)
_summary_delta(key, current, stored, completed, layout) ==
    LET flags == _cluster_generation_flags(key, current, stored, completed, layout)
        delta == build_fragment_delta(key, current, stored, flags)
    IN  IF flags.full_rebuild
        THEN [delta EXCEPT !.changed = @ \cup delta.added, !.added = {},
                           !.moved = {}, !.reused = {}]
        ELSE delta

pending_paths(delta) == delta.added \cup delta.changed
=============================================================================
