----------------------------- MODULE PolicyMerge -----------------------------
(***************************************************************************)
(* reviewer config show: three layers of policy become one, and the report *)
(* says of every leaf which layer it is from (reviewer/config/deepmerge.py *)
(* and resolve_policy_data in layers.py).                                  *)
(*                                                                         *)
(* A value stands for the layer that wrote it, so that the merged policy   *)
(* itself says where each leaf is really from.  A key holds a scalar, or a *)
(* mapping of leaves; deeper mappings are merged as this one is.           *)
(***************************************************************************)
EXTENDS Commands

Layer == {"home:review", ".review.yml", "home:repo"}
Key == {"context_limits", "task_board"}
ATOMIC_KEYS == {"task_board"}
Leaf == {"x", "y"}

\* A value: nothing said, a scalar, or a mapping (which may be empty).
Unset == [kind |-> "unset", leaves |-> << >>]
Scalar(layer) == [kind |-> "scalar", leaves |-> << >>, by |-> layer]
Mapping(leaves, layer) ==
  [kind |-> "mapping", leaves |-> [l \in leaves |-> layer], by |-> layer]

Shape == {"unset", "scalar", "empty", "x", "xy"}

\* What a layer says of a key, by the shape that the case gives it.
Value(shape, layer) ==
  CASE shape = "unset" -> Unset
    [] shape = "scalar" -> Scalar(layer)
    [] OTHER -> Mapping(CASE shape = "empty" -> {} [] shape = "x" -> {"x"}
                          [] shape = "xy" -> Leaf, layer)

VARIABLE report   \* merged, sources by path, and what they shadow, by terminal

NoReport == [merged |-> [k \in Key |-> Unset], sources |-> << >>, shadowed |-> << >>]

ReportInit == report = [t \in Terminal |-> NoReport]

---------------------------------------------------------------------------
(* deepmerge.py *)

\* The paths to the leaves of a value; an empty mapping is a leaf.
leaf_paths(value, key) ==
  IF value.kind = "mapping" /\ DOMAIN value.leaves # {}
  THEN {<<key, l>> : l \in DOMAIN value.leaves} ELSE {<<key>>}

\* f laid over g.
Laid(f, g) ==
  [p \in DOMAIN f \cup DOMAIN g |-> IF p \in DOMAIN f THEN f[p] ELSE g[p]]

Without(f, paths) == [p \in DOMAIN f \ paths |-> f[p]]

\* Seeded fault: the entries of what is replaced stay.
_replace_keeping(r, key, path, value, source) ==
  LET new == IF key \in ATOMIC_KEYS THEN {path} ELSE leaf_paths(value, key)
  IN [r EXCEPT !.merged[key] = value,
               !.sources = Laid([p \in new |-> source], r.sources)]

\* The whole value, and none of the entries there were for it.
_replace(r, key, path, value, source) ==
  LET stale == {p \in DOMAIN r.sources : p[1] = key}
      new == IF key \in ATOMIC_KEYS THEN {path} ELSE leaf_paths(value, key)
      had == [p \in stale |->
                (IF p \in DOMAIN r.shadowed THEN r.shadowed[p] ELSE << >>)
                  \o <<r.sources[p]>>]
  IN [merged |-> [r.merged EXCEPT ![key] = value],
      sources |-> Laid([p \in new |-> source], Without(r.sources, stale)),
      shadowed |-> Laid(had, r.shadowed)]

\* A leaf of a mapping that both layers have.
MergeLeaves(r, key, value, source) ==
  LET new == leaf_paths(value, key)
      stale == new \cap DOMAIN r.sources
      had == [p \in stale |->
                (IF p \in DOMAIN r.shadowed THEN r.shadowed[p] ELSE << >>)
                  \o <<r.sources[p]>>]
  IN [merged |-> [r.merged EXCEPT ![key].leaves = Laid(value.leaves, @)],
      sources |-> Laid([p \in new |-> source], r.sources),
      shadowed |-> Laid(had, r.shadowed)]

_merge_mapping(r, key, value, source) ==
  CASE value.kind = "unset" -> r
    [] /\ value.kind = "mapping" /\ value.leaves # << >>
       /\ r.merged[key].kind = "mapping" /\ key \notin ATOMIC_KEYS ->
         MergeLeaves(r, key, value, source)
    [] OTHER -> _replace(r, key, <<key>>, value, source)

\* One key after the other; they do not touch each other.
merge_layer(r, source) ==
  LET layer == case.layers[source]
      one == _merge_mapping(r, "context_limits",
                            Value(layer["context_limits"], source), source)
  IN _merge_mapping(one, "task_board", Value(layer["task_board"], source), source)

---------------------------------------------------------------------------
(* resolve_policy_data *)

Merges(t, here, source, then) ==
  /\ Runs(t, here) /\ Go(t, then)
  /\ report' = [report EXCEPT ![t] = merge_layer(report[t], source)]

config_report(t) ==
  /\ Starts(t, "config report") /\ Go(t, "r_base")
  /\ UNCHANGED report

merge_base(t) == Merges(t, "r_base", "home:review", "r_committed")

\* A layer that cannot be had is left out, with a warning.
merge_committed(t) ==
  \/ Merges(t, "r_committed", ".review.yml", "r_home")
  \/ /\ Runs(t, "r_committed") /\ GoBadly(t, "offline", "r_home")
     /\ UNCHANGED report

merge_home(t) == Merges(t, "r_home", "home:repo", "r_told")

config_reported(t) ==
  /\ Runs(t, "r_told") /\ Ends(t, "ok")
  /\ report' = [report EXCEPT ![t] = NoReport]

ReportStep(t) ==
  \/ config_report(t)
  \/ merge_base(t)
  \/ merge_committed(t)
  \/ merge_home(t)
  \/ config_reported(t)

ReportKilled(t) == report' = [report EXCEPT ![t] = NoReport]

---------------------------------------------------------------------------
\* Where a leaf of the merged policy is really from.
WriterOf(r, path) ==
  IF Len(path) = 2 THEN r.merged[path[1]].leaves[path[2]] ELSE r.merged[path[1]].by

(* config show tells of every leaf of the policy, and of nothing else,     *)
(* which layer it is from, and it is from there: neither a layer that was  *)
(* replaced as a whole nor one that was left out is named.                 *)
EverySourceIsTrue ==
  \A t \in Terminal :
    LET r == report[t]
        Paths(k) ==
          IF r.merged[k].kind = "unset" THEN {}
          ELSE IF k \in ATOMIC_KEYS THEN {<<k>>} ELSE leaf_paths(r.merged[k], k)
    IN /\ DOMAIN r.sources = UNION {Paths(k) : k \in Key}
       /\ \A p \in DOMAIN r.sources : r.sources[p] = WriterOf(r, p)
=============================================================================
