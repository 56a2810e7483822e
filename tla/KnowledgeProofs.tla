--------------------------- MODULE KnowledgeProofs ---------------------------
(***************************************************************************)
(* What is proved of Summaries: a stored text is about the sources of its  *)
(* hash, a vector is of its text, and finishing a pass deletes nothing     *)
(* that is still a subsystem.  For any number of clients, files, layouts,  *)
(* passes, edits and failures.                                             *)
(*                                                                         *)
(* The tables are written long after the sources were read, so the first   *)
(* of them rests on what every client still has in hand: PassInv below.    *)
(* While the layout stays, an index of which nothing is left to list can   *)
(* be finished: LayoutInv ties every summary to its fragments.             *)
(*                                                                         *)
(* And of CodeGraph: a graph that is patched from commit to commit has the *)
(* symbols and no stale edge of the indexed commit and loses none it need  *)
(* not lose.  For any files, sources, commits and failures; GraphInv says  *)
(* what is true of the graph between two statements of a patch.            *)
(***************************************************************************)
EXTENDS Summaries, CodeGraph, FiniteSetTheorems, TLAPS

SummarySpec == SummaryInit /\ [][SummaryNext]_summaryVars
GraphSpec == GraphInit /\ [][GraphNext]_graphVars

(* No file becomes again what it was: of the three reads of a bundle - the *)
(* list, the skeletons, the check - the last could otherwise not tell that *)
(* the second saw something else.                                          *)
NoReverts == ~Reverts

-----------------------------------------------------------------------------
(* What is in hand                                                         *)

Fields == {"pc", "seen", "listed", "todo", "whole", "key", "pending", "kept",
           "draft", "said", "refused"}

\* a source hash: some files with skeletons that were there at some time
IsCluster(x, now) ==
  /\ x = [path \in DOMAIN x |-> x[path]] /\ DOMAIN x \subseteq File
  /\ \A path \in DOMAIN x : x[path] \in 0..(now + 1) /\ x[path] # Absent

IsState(state, now) ==
  /\ DOMAIN state = {"layout", "clusters"}
  /\ \A key \in DOMAIN state.clusters : IsCluster(state.clusters[key], now)

Bundle(p) == p.listed.clusters[p.key]
Matches(p) == p.key \in DOMAIN p.seen.clusters /\ p.seen.clusters[p.key] = Bundle(p)

\* the files of the bundle: those to describe, and those with a text to keep
InHand(p) ==
  /\ p.pending \subseteq DOMAIN Bundle(p) /\ DOMAIN p.draft \subseteq p.pending
  /\ p.pending \cup DOMAIN p.kept = DOMAIN Bundle(p)
  /\ \A path \in DOMAIN p.kept : p.kept[path] = Bundle(p)[path]

Described(p) ==
  DOMAIN p.draft = p.pending /\ \A path \in p.pending : p.draft[path] = Bundle(p)[path]

\* A text that is not about the listed skeleton shows: the file has gone on
\* while the job wrote, so the check of the index finds another cluster.
PassInv(p, index, now) ==
  /\ DOMAIN p = Fields
  /\ IsState(p.seen, now) /\ IsState(p.listed, now)
  /\ p.todo \subseteq DOMAIN p.listed.clusters
  /\ p.pc \in {"next", "work"} => DOMAIN p.draft = {}
  /\ p.pc \in {"work", "draft", "check", "commit"} => p.key \in DOMAIN p.listed.clusters
  /\ p.pc \in {"draft", "check", "commit"} => InHand(p)
  /\ p.pc = "draft" =>
       \A path \in DOMAIN p.draft :
         p.draft[path] = Bundle(p)[path] \/ index[path] # Bundle(p)[path]
  /\ p.pc = "check" => DOMAIN p.draft = p.pending /\ (Matches(p) => Described(p))
  /\ p.pc = "commit" => Described(p)

IndexOK(index, now) ==
  /\ now \in Nat /\ DOMAIN index = File
  /\ \A path \in File : index[path] = Absent \/ index[path] \in 0..(now + 1)

Copied(stored, path) == {s \in DOMAIN stored : s[2] = path}

FragmentsOK(stored) ==
  /\ \A path \in File : IsFiniteSet(Copied(stored, path))
  /\ \A s \in DOMAIN stored : s = <<s[1], s[2]>> /\ stored[s].text = stored[s].fingerprint

Columns == {"hash", "text", "vector"}
RowOK(row) == DOMAIN row = Columns /\ row.text.of = row.hash

SummaryInv ==
  /\ IndexOK(skeleton, edits)
  /\ FragmentsOK(fragment)
  /\ \A key \in DOMAIN summary : RowOK(summary[key])
  /\ DOMAIN pass = Client
  /\ \A c \in Client : PassInv(pass[c], skeleton, edits)

-----------------------------------------------------------------------------
(* The operators of Subsystems                                             *)

LEMMA Overlay ==
  ASSUME NEW f, NEW g
  PROVE  /\ DOMAIN Over(f, g) = DOMAIN f \cup DOMAIN g
         /\ \A x \in DOMAIN f : Over(f, g)[x] = f[x]
         /\ \A x \in DOMAIN g \ DOMAIN f : Over(f, g)[x] = g[x]
         /\ Over(f, g) = [x \in DOMAIN Over(f, g) |-> Over(f, g)[x]]
BY DEF Over

LEMMA Single ==
  ASSUME NEW x, NEW y
  PROVE  DOMAIN Just(x, y) = {x} /\ Just(x, y)[x] = y
BY DEF Just

LEMMA Restricted ==
  ASSUME NEW f, NEW S
  PROVE  DOMAIN Restrict(f, S) = S /\ \A x \in S : Restrict(f, S)[x] = f[x]
BY DEF Restrict

\* Clusters hold files with the skeletons of the index.
LEMMA ClustersOfIndex ==
  ASSUME NEW index, NEW layout
  PROVE  LET clusters == build_clusters(index, layout)
         IN  \A key \in DOMAIN clusters :
               /\ clusters[key] = [path \in DOMAIN clusters[key] |-> index[path]]
               /\ DOMAIN clusters[key] \subseteq Members(index, layout)
BY DEF build_clusters

LEMMA StateRead ==
  ASSUME IndexOK(skeleton, edits), NEW layout
  PROVE  LET state == _summary_state(layout)
         IN  /\ IsState(state, edits)
             /\ \A key \in DOMAIN state.clusters : \A path \in DOMAIN state.clusters[key] :
                  state.clusters[key][path] = skeleton[path]
<1> DEFINE state == _summary_state(layout)
           clusters == build_clusters(skeleton, layout)
<1>1. DOMAIN state = {"layout", "clusters"} /\ state.clusters = clusters
  BY DEF _summary_state
<1>2. ASSUME NEW key \in DOMAIN clusters
      PROVE  /\ IsCluster(clusters[key], edits)
             /\ \A path \in DOMAIN clusters[key] : clusters[key][path] = skeleton[path]
  <2>1. /\ clusters[key] = [path \in DOMAIN clusters[key] |-> skeleton[path]]
        /\ DOMAIN clusters[key] \subseteq Members(skeleton, layout)
    BY ClustersOfIndex
  <2>2. \A path \in DOMAIN clusters[key] : path \in File /\ skeleton[path] # Absent
    BY <2>1 DEF Members, IndexOK
  <2> HIDE DEF clusters
  <2> QED
    BY <2>1, <2>2 DEF IsCluster, IndexOK
<1> HIDE DEF state, clusters
<1>3. IsState(state, edits)
  BY <1>1, <1>2 DEF IsState
<1> QED
  BY <1>1, <1>2, <1>3 DEF state

\* Of the work listed for a cluster, what is not pending has a text to keep.
Parts(delta, key, current, stored) ==
  /\ pending_paths(delta) \subseteq DOMAIN current
  /\ pending_paths(delta) \cup (delta.reused \cup delta.moved) = DOMAIN current
  /\ \A path \in delta.reused :
       path \in Own(key, stored) /\ stored[<<key, path>>].fingerprint = current[path]
  /\ \A path \in delta.moved : Elsewhere(key, path, current[path], stored) # {}

LEMMA DeltaParts ==
  ASSUME NEW key, NEW current, NEW stored, NEW done, NEW layout,
         FragmentsOK(stored), DOMAIN current \subseteq File,
         NEW delta, delta = _summary_delta(key, current, stored, done, layout)
  PROVE  Parts(delta, key, current, stored)
<1> DEFINE flags == _cluster_generation_flags(key, current, stored, done, layout)
           plain == build_fragment_delta(key, current, stored, flags)
           copies(path) == Cardinality(Elsewhere(key, path, current[path], stored))
           files == DOMAIN current
           own == Own(key, stored)
           fits(path) == path \in own /\ stored[<<key, path>>].fingerprint = current[path]
<1>1. \A path \in files : copies(path) \in Nat
  <2> TAKE path \in files
  <2>1. IsFiniteSet(Elsewhere(key, path, current[path], stored))
    <3>1. IsFiniteSet(Copied(stored, path))
      BY DEF FragmentsOK
    <3>2. Elsewhere(key, path, current[path], stored) \subseteq Copied(stored, path)
      BY DEF Elsewhere, Copied
    <3> QED
      BY <3>1, <3>2, FS_Subset
  <2> QED
    BY <2>1, FS_CardinalityType
<1>2. \A path : copies(path) = 1 => Elsewhere(key, path, current[path], stored) # {}
  BY FS_EmptySet
<1>3. CASE flags.bootstrap \/ flags.full_rebuild
  <2>1. /\ plain.reused = {} /\ plain.moved = {} /\ plain.changed = {}
        /\ plain.added = files
        /\ DOMAIN plain = {"reused", "moved", "changed", "added", "removed"}
    BY <1>3 DEF build_fragment_delta
  <2> HIDE DEF plain
  <2>2. delta.reused = {} /\ delta.moved = {} /\ delta.added \cup delta.changed = files
    BY <2>1 DEF _summary_delta, plain, flags
  <2> QED
    BY <2>2 DEF pending_paths, Parts
<1>4. CASE ~(flags.bootstrap \/ flags.full_rebuild)
  <2>1. /\ plain.reused = {path \in files : fits(path)}
        /\ plain.moved = {path \in files \ own : copies(path) = 1}
        /\ plain.changed = {path \in files \ (plain.reused \cup plain.moved) :
                              path \in own \/ copies(path) > 1}
        /\ plain.added = {path \in files \ own : copies(path) = 0}
    BY <1>4 DEF build_fragment_delta
  <2>2. delta = plain
    BY <1>4 DEF _summary_delta
  <2> HIDE DEF plain, copies
  <2>3. \A path \in files : path \in plain.reused \/ path \in plain.moved
                            \/ path \in plain.changed \/ path \in plain.added
    BY <1>1, <2>1
  <2>4. delta.added \subseteq files /\ delta.changed \subseteq files
        /\ delta.reused \subseteq files /\ delta.moved \subseteq files
    BY <2>1, <2>2
  <2>5. delta.added \cup delta.changed \cup (delta.reused \cup delta.moved) = files
    BY <2>2, <2>3, <2>4
  <2>6. \A path \in delta.moved : Elsewhere(key, path, current[path], stored) # {}
    BY <1>2, <2>1, <2>2
  <2>7. \A path \in delta.reused : fits(path)
    BY <2>1, <2>2
  <2> QED
    BY <2>4, <2>5, <2>6, <2>7 DEF pending_paths, Parts
<1> QED
  BY <1>3, <1>4

-----------------------------------------------------------------------------
(* Steps                                                                   *)

LEMMA Vacant ==
  /\ DOMAIN NoPass = Fields /\ IsState(NoPass.seen, edits) /\ IsState(NoPass.listed, edits)
  /\ NoPass.todo = {} /\ DOMAIN NoPass.draft = {} /\ NoPass.pc = "idle"
  /\ NoPass.seen = Nothing
<1>1. /\ DOMAIN NoPass = Fields /\ NoPass.seen = Nothing /\ NoPass.listed = Nothing
      /\ NoPass.todo = {} /\ NoPass.draft = <<>> /\ NoPass.pc = "idle"
  BY DEF NoPass, Fields
<1>2. IsState(Nothing, edits)
  BY DEF Nothing, IsState
<1>3. DOMAIN <<>> = {}
  OBVIOUS
<1> QED
  BY <1>1, <1>2, <1>3

\* A client between two bundles, or done.
LEMMA Between ==
  ASSUME NEW r, NEW index, NEW now, DOMAIN r = Fields,
         IsState(r.seen, now), IsState(r.listed, now),
         r.todo \subseteq DOMAIN r.listed.clusters,
         \/ r.pc \notin {"next", "work", "draft", "check", "commit"}
         \/ r.pc = "next" /\ DOMAIN r.draft = {}
  PROVE  PassInv(r, index, now)
BY DEF PassInv

\* A step of one client that leaves the tables in order.
LEMMA Turn ==
  ASSUME SummaryInv, NEW c \in Client, NEW r, pass' = [pass EXCEPT ![c] = r],
         PassInv(r, skeleton, edits), UNCHANGED <<skeleton, edits>>,
         FragmentsOK(fragment'),
         \A key \in DOMAIN summary' : RowOK(summary'[key])
  PROVE  SummaryInv'
BY DEF SummaryInv

LEMMA TurnOnly ==
  ASSUME SummaryInv, NEW c \in Client, NEW r, pass' = [pass EXCEPT ![c] = r],
         PassInv(r, skeleton, edits), UNCHANGED <<skeleton, edits, fragment, summary>>
  PROVE  SummaryInv'
<1>1. /\ FragmentsOK(fragment')
      /\ \A key \in DOMAIN summary' : RowOK(summary'[key])
  BY DEF SummaryInv
<1> QED
  BY <1>1, Turn

LEMMA Asked ==
  ASSUME IndexOK(skeleton, edits), NEW p, DOMAIN p = Fields, NEW to, NEW layout
  PROVE  LET r == [p EXCEPT !.pc = to, !.seen = _summary_state(layout)] IN
         /\ DOMAIN r = Fields /\ r.pc = to /\ r.listed = p.listed /\ r.todo = p.todo
         /\ r.key = p.key /\ r.pending = p.pending /\ r.kept = p.kept /\ r.draft = p.draft
         /\ IsState(r.seen, edits)
         /\ \A key \in DOMAIN r.seen.clusters : \A path \in DOMAIN r.seen.clusters[key] :
              r.seen.clusters[key][path] = skeleton[path]
<1> DEFINE r == [p EXCEPT !.pc = to, !.seen = _summary_state(layout)]
           state == _summary_state(layout)
<1>1. /\ IsState(state, edits)
      /\ \A key \in DOMAIN state.clusters : \A path \in DOMAIN state.clusters[key] :
           state.clusters[key][path] = skeleton[path]
  BY StateRead
<1> HIDE DEF state
<1>2. /\ DOMAIN r = Fields /\ r.pc = to /\ r.seen = state /\ r.listed = p.listed
      /\ r.todo = p.todo /\ r.key = p.key /\ r.pending = p.pending
      /\ r.kept = p.kept /\ r.draft = p.draft
  BY DEF Fields, state
<1> HIDE DEF r
<1> QED
  BY <1>1, <1>2 DEF r

\* From one call to the next.
LEMMA AskListStep ==
  ASSUME SummaryInv, NEW c \in Client, AskList(c) \/ AskPrune(c)
  PROVE  SummaryInv'
<1>1. PICK to \in {"list", "finalize"} : \E layout :
        pass' = [pass EXCEPT ![c] = [pass[c] EXCEPT !.pc = to, !.seen = _summary_state(layout)]]
  BY DEF AskList, AskPrune, Ask
<1>2. UNCHANGED <<skeleton, edits, fragment, summary>>
  BY DEF AskList, AskPrune, Ask, world, tables
<1>6. PICK layout : pass' = [pass EXCEPT ![c] =
                               [pass[c] EXCEPT !.pc = to, !.seen = _summary_state(layout)]]
  BY <1>1
<1> DEFINE r == [pass[c] EXCEPT !.pc = to, !.seen = _summary_state(layout)]
<1>3. PassInv(pass[c], skeleton, edits) /\ IndexOK(skeleton, edits)
  BY DEF SummaryInv
<1>4. /\ DOMAIN r = Fields /\ r.pc = to /\ r.listed = pass[c].listed /\ r.todo = pass[c].todo
      /\ IsState(r.seen, edits)
  <2>1. DOMAIN pass[c] = Fields
    BY <1>3 DEF PassInv
  <2> QED
    BY <1>3, <2>1, Asked
<1> HIDE DEF r
<1>5. PassInv(r, skeleton, edits)
  BY <1>3, <1>4, Between DEF PassInv
<1> QED
  BY <1>2, <1>5, <1>6, TurnOnly DEF r

LEMMA AskWorkStep ==
  ASSUME SummaryInv, NEW c \in Client, AskWork(c)
  PROVE  SummaryInv'
<1>1. PICK key \in pass[c].todo :
        Ask(c, "next", "work", [pass[c] EXCEPT !.key = key, !.todo = @ \ {key}])
  BY DEF AskWork
<1> DEFINE p == [pass[c] EXCEPT !.key = key, !.todo = @ \ {key}]
<1>2. PICK layout : pass' = [pass EXCEPT ![c] = [p EXCEPT !.pc = "work", !.seen = _summary_state(layout)]]
  BY <1>1 DEF Ask
<1>3. UNCHANGED <<skeleton, edits, fragment, summary>> /\ pass[c].pc = "next"
  BY <1>1 DEF Ask, world, tables, At
<1>4. PassInv(pass[c], skeleton, edits) /\ IndexOK(skeleton, edits)
  BY DEF SummaryInv
<1>5. /\ DOMAIN p = Fields /\ p.key = key /\ p.todo = pass[c].todo \ {key}
      /\ p.listed = pass[c].listed /\ p.draft = pass[c].draft
  BY <1>4 DEF PassInv, Fields
<1> HIDE DEF p
<1> DEFINE r == [p EXCEPT !.pc = "work", !.seen = _summary_state(layout)]
<1>6. /\ DOMAIN r = Fields /\ r.pc = "work" /\ r.listed = p.listed /\ r.todo = p.todo
      /\ r.key = p.key /\ r.draft = p.draft /\ IsState(r.seen, edits)
  BY <1>4, <1>5, Asked
<1> HIDE DEF r
<1>7. PassInv(r, skeleton, edits)
  BY <1>3, <1>4, <1>5, <1>6 DEF PassInv
<1> QED
  BY <1>2, <1>3, <1>7, TurnOnly DEF r

\* The check reads the index again: where the job saw something else than
\* was listed, the file has not come back to it.
LEMMA AskIndexStep ==
  ASSUME SummaryInv, NEW c \in Client, AskIndex(c)
  PROVE  SummaryInv'
<1>1. PICK layout : pass' = [pass EXCEPT ![c] =
                               [pass[c] EXCEPT !.pc = "check", !.seen = _summary_state(layout)]]
  BY DEF AskIndex, Ask
<1>2. /\ UNCHANGED <<skeleton, edits, fragment, summary>> /\ pass[c].pc = "draft"
      /\ DOMAIN pass[c].draft = pass[c].pending
  BY DEF AskIndex, Ask, world, tables, At
<1>3. PassInv(pass[c], skeleton, edits) /\ IndexOK(skeleton, edits)
  BY DEF SummaryInv
<1> DEFINE r == [pass[c] EXCEPT !.pc = "check", !.seen = _summary_state(layout)]
<1>4. /\ DOMAIN r = Fields /\ r.pc = "check" /\ r.listed = pass[c].listed
      /\ r.todo = pass[c].todo /\ r.key = pass[c].key /\ r.pending = pass[c].pending
      /\ r.kept = pass[c].kept /\ r.draft = pass[c].draft
      /\ IsState(r.seen, edits)
      /\ \A key \in DOMAIN r.seen.clusters : \A path \in DOMAIN r.seen.clusters[key] :
           r.seen.clusters[key][path] = skeleton[path]
  <2>1. DOMAIN pass[c] = Fields
    BY <1>3 DEF PassInv
  <2> QED
    BY <1>3, <2>1, Asked
<1> HIDE DEF r
<1>5. InHand(r) /\ Bundle(r) = Bundle(pass[c])
  BY <1>2, <1>3, <1>4 DEF PassInv, InHand, Bundle
<1>6. ASSUME Matches(r) PROVE Described(r)
  <2>1. \A path \in DOMAIN Bundle(r) : skeleton[path] = Bundle(r)[path]
    BY <1>4, <1>6 DEF Matches
  <2>2. ASSUME NEW path \in r.pending PROVE r.draft[path] = Bundle(r)[path]
    <3>1. path \in DOMAIN pass[c].draft /\ path \in DOMAIN Bundle(r)
      BY <1>2, <1>4, <1>5, <2>2 DEF InHand
    <3> QED
      BY <1>2, <1>3, <1>4, <1>5, <2>1, <3>1 DEF PassInv
  <2> QED
    BY <1>2, <1>4, <2>2 DEF Described
<1>7. PassInv(r, skeleton, edits)
  BY <1>2, <1>3, <1>4, <1>5, <1>6 DEF PassInv
<1> QED
  BY <1>1, <1>2, <1>7, TurnOnly DEF r

\* The list gives out clusters with work, and never work without its cluster.
LEMMA ListStep ==
  ASSUME SummaryInv, NEW c \in Client, list_subsystem_clusters(c)
  PROVE  SummaryInv'
<1> DEFINE state == pass[c].seen
           rebuild == ToRebuild(state)
<1>1. PICK todo \in SUBSET rebuild :
        pass' = [pass EXCEPT ![c] =
                  IF DOMAIN state.clusters = {} THEN NoPass
                  ELSE [NoPass EXCEPT
                    !.pc = "next", !.todo = todo, !.whole = (todo = rebuild),
                    !.listed = [state EXCEPT !.clusters =
                                  Restrict(@, DOMAIN @ \ (rebuild \ todo))]]]
  BY DEF list_subsystem_clusters
<1>2. /\ UNCHANGED <<skeleton, edits, fragment, summary>>
      /\ IsState(state, edits) /\ rebuild \subseteq DOMAIN state.clusters
  BY DEF list_subsystem_clusters, world, tables, SummaryInv, PassInv, ToRebuild
<1> DEFINE listed == [state EXCEPT !.clusters = Restrict(@, DOMAIN @ \ (rebuild \ todo))]
           r == [NoPass EXCEPT !.pc = "next", !.todo = todo, !.whole = (todo = rebuild),
                               !.listed = listed]
<1>3. /\ DOMAIN listed = {"layout", "clusters"}
      /\ listed.clusters = Restrict(state.clusters, DOMAIN state.clusters \ (rebuild \ todo))
  BY <1>2 DEF IsState
<1>4. IsState(listed, edits) /\ todo \subseteq DOMAIN listed.clusters
  <2> HIDE DEF listed, state, rebuild
  <2>1. /\ DOMAIN listed.clusters = DOMAIN state.clusters \ (rebuild \ todo)
        /\ \A key \in DOMAIN listed.clusters : listed.clusters[key] = state.clusters[key]
    BY <1>3, Restricted
  <2> QED
    BY <1>2, <1>3, <2>1 DEF IsState
<1> HIDE DEF listed
<1>5. /\ DOMAIN r = Fields /\ r.pc = "next" /\ r.todo = todo /\ r.listed = listed
      /\ r.seen = NoPass.seen /\ r.draft = NoPass.draft
  BY Vacant DEF Fields
<1> HIDE DEF r
<1>6. PassInv(r, skeleton, edits) /\ PassInv(NoPass, skeleton, edits)
  BY <1>4, <1>5, Vacant, Between
<1>7. CASE DOMAIN state.clusters = {}
  BY <1>1, <1>2, <1>6, <1>7, TurnOnly
<1>8. CASE DOMAIN state.clusters # {}
  BY <1>1, <1>2, <1>6, <1>8, TurnOnly DEF r, listed
<1> QED
  BY <1>7, <1>8

LEMMA Rejoined ==
  ASSUME SummaryInv, NEW c \in Client
  PROVE  /\ DOMAIN Rejoin(c) = Fields /\ Rejoin(c).pc = "next"
         /\ Rejoin(c).listed = pass[c].listed /\ Rejoin(c).todo = pass[c].todo
         /\ Rejoin(c).seen = Nothing /\ DOMAIN Rejoin(c).draft = {}
         /\ IsState(Rejoin(c).seen, edits) /\ IsState(Rejoin(c).listed, edits)
         /\ Rejoin(c).todo \subseteq DOMAIN Rejoin(c).listed.clusters
<1>1. /\ DOMAIN Rejoin(c) = Fields /\ Rejoin(c).pc = "next"
      /\ Rejoin(c).listed = pass[c].listed /\ Rejoin(c).todo = pass[c].todo
      /\ Rejoin(c).seen = Nothing /\ Rejoin(c).draft = NoPass.draft
  BY Vacant DEF Rejoin, Fields
<1>2. PassInv(pass[c], skeleton, edits)
  BY DEF SummaryInv
<1> QED
  BY <1>1, <1>2, Vacant DEF PassInv

LEMMA GivenUp ==
  ASSUME SummaryInv, NEW c \in Client, GiveUp(c),
         UNCHANGED <<skeleton, edits, fragment, summary>>
  PROVE  SummaryInv'
<1> DEFINE r == [Rejoin(c) EXCEPT !.whole = FALSE]
<1>1. /\ DOMAIN r = Fields /\ r.pc = "next" /\ r.listed = pass[c].listed
      /\ r.todo = pass[c].todo /\ r.seen = Nothing /\ DOMAIN r.draft = {}
      /\ IsState(r.seen, edits) /\ IsState(r.listed, edits)
      /\ r.todo \subseteq DOMAIN r.listed.clusters
  BY Rejoined DEF Fields
<1> HIDE DEF r
<1>2. PassInv(r, skeleton, edits)
  BY <1>1, Between
<1> QED
  BY <1>2, TurnOnly DEF GiveUp, r

\* The texts to keep carry the listed skeletons, and are about them.
LEMMA WorkStep ==
  ASSUME SummaryInv, NEW c \in Client, get_subsystem_summary_work(c)
  PROVE  SummaryInv'
<1> DEFINE delta == Delta(c)
           key == pass[c].key
           current == Listed(c)
<1>1. /\ UNCHANGED <<skeleton, edits, fragment, summary>> /\ pass[c].pc = "work"
      /\ PassInv(pass[c], skeleton, edits) /\ FragmentsOK(fragment)
  BY DEF get_subsystem_summary_work, world, tables, At, SummaryInv
<1>2. CASE GiveUp(c)
  BY <1>1, <1>2, GivenUp
<1>3. CASE pass' = [pass EXCEPT ![c].pc = "draft", ![c].pending = pending_paths(delta),
                                ![c].kept = Kept(c, delta)]
  <2> DEFINE r == [pass[c] EXCEPT !.pc = "draft", !.pending = pending_paths(delta),
                                  !.kept = Kept(c, delta)]
  <2>1. Parts(delta, key, current, fragment)
    <3>1. DOMAIN current \subseteq File
      BY <1>1 DEF PassInv, IsState, IsCluster, Listed
    <3>2. delta = _summary_delta(key, current, fragment, completed, pass[c].seen.layout)
      BY DEF Delta
    <3> HIDE DEF delta, key, current
    <3> QED
      BY <1>1, <3>1, <3>2, DeltaParts
  <2>2. DOMAIN Kept(c, delta) = delta.reused \cup delta.moved
    BY DEF Kept
  <2>3. ASSUME NEW path \in DOMAIN Kept(c, delta)
        PROVE  Kept(c, delta)[path] = current[path]
    <3>1. CASE path \in delta.reused
      <4>1. Kept(c, delta)[path] = fragment[<<key, path>>].text
        BY <2>2, <2>3, <3>1 DEF Kept
      <4>2. <<key, path>> \in DOMAIN fragment
        <5>1. PICK s \in DOMAIN fragment : s[1] = key /\ s[2] = path
          BY <2>1, <3>1 DEF Own, Parts
        <5> QED
          BY <1>1, <5>1 DEF FragmentsOK
      <4> QED
        BY <1>1, <2>1, <3>1, <4>1, <4>2 DEF FragmentsOK, Parts
    <3>2. CASE path \notin delta.reused
      <4> DEFINE there == Elsewhere(key, path, current[path], fragment)
                 s == CHOOSE s \in there : TRUE
      <4>1. Kept(c, delta)[path] = fragment[s].text
        BY <2>2, <2>3, <3>2 DEF Kept
      <4>2. path \in delta.moved
        BY <2>2, <2>3, <3>2
      <4>3. s \in there
        BY <2>1, <4>2 DEF Parts
      <4>4. s \in DOMAIN fragment /\ fragment[s].fingerprint = current[path]
        BY <4>3 DEF Elsewhere
      <4> HIDE DEF s, there
      <4> QED
        BY <1>1, <4>1, <4>4 DEF FragmentsOK
    <3> QED
      BY <3>1, <3>2
  <2> HIDE DEF delta
  <2>4. /\ DOMAIN r = Fields /\ r.pc = "draft" /\ r.pending = pending_paths(delta)
        /\ r.kept = Kept(c, delta) /\ r.listed = pass[c].listed /\ r.seen = pass[c].seen
        /\ r.todo = pass[c].todo /\ r.key = pass[c].key /\ r.draft = pass[c].draft
    <3>1. DOMAIN pass[c] = Fields
      BY <1>1 DEF PassInv
    <3> QED
      BY <3>1 DEF Fields
  <2>5. pass' = [pass EXCEPT ![c] = r]
    BY <1>3 DEF SummaryInv
  <2> HIDE DEF r
  <2>6. Bundle(r) = current /\ DOMAIN r.draft = {}
    BY <1>1, <2>4 DEF Bundle, Listed, PassInv
  <2>7. InHand(r)
    BY <2>1, <2>2, <2>3, <2>4, <2>6 DEF InHand, Parts
  <2>8. PassInv(r, skeleton, edits)
    BY <1>1, <2>4, <2>6, <2>7 DEF PassInv
  <2> QED
    BY <1>1, <2>5, <2>8, TurnOnly
<1> QED
  BY <1>2, <1>3 DEF get_subsystem_summary_work

LEMMA SkeletonStep ==
  ASSUME SummaryInv, NEW c \in Client, NEW path, get_file_skeletons(c, path)
  PROVE  SummaryInv'
<1>1. /\ UNCHANGED <<skeleton, edits, fragment, summary>> /\ pass[c].pc = "draft"
      /\ PassInv(pass[c], skeleton, edits)
      /\ path \in pass[c].pending \ DOMAIN pass[c].draft
  BY DEF get_file_skeletons, world, tables, At, SummaryInv
<1>2. CASE GiveUp(c)
  BY <1>1, <1>2, GivenUp
<1>3. CASE pass' = [pass EXCEPT ![c].draft = Over(Just(path, skeleton[path]), @)]
  <2> DEFINE one == Just(path, skeleton[path])
             more == Over(one, pass[c].draft)
             r == [pass[c] EXCEPT !.draft = more]
  <2>1. /\ DOMAIN more = {path} \cup DOMAIN pass[c].draft
        /\ more[path] = skeleton[path]
        /\ \A q \in DOMAIN pass[c].draft \ {path} : more[q] = pass[c].draft[q]
    <3>1. DOMAIN one = {path} /\ one[path] = skeleton[path]
      BY Single
    <3> HIDE DEF one
    <3> QED
      BY <3>1 DEF Over
  <2>2. pass' = [pass EXCEPT ![c] = r]
    BY <1>3 DEF SummaryInv
  <2> HIDE DEF more
  <2>3. /\ DOMAIN r = Fields /\ r.pc = "draft" /\ r.pending = pass[c].pending
        /\ r.kept = pass[c].kept /\ r.listed = pass[c].listed /\ r.seen = pass[c].seen
        /\ r.todo = pass[c].todo /\ r.key = pass[c].key /\ r.draft = more
    BY <1>1 DEF PassInv, Fields
  <2> HIDE DEF r
  <2>4. Bundle(r) = Bundle(pass[c])
    BY <2>3 DEF Bundle
  <2>5. InHand(r)
    BY <1>1, <2>1, <2>3, <2>4 DEF InHand, PassInv
  <2>6. \A q \in DOMAIN r.draft : r.draft[q] = Bundle(r)[q] \/ skeleton[q] # Bundle(r)[q]
    BY <1>1, <2>1, <2>3, <2>4 DEF PassInv
  <2>7. PassInv(r, skeleton, edits)
    BY <1>1, <2>3, <2>5, <2>6 DEF PassInv
  <2> QED
    BY <1>1, <2>2, <2>7, TurnOnly
<1> QED
  BY <1>2, <1>3 DEF get_file_skeletons

LEMMA CheckStep ==
  ASSUME SummaryInv, NEW c \in Client, index_subsystem_summary(c)
  PROVE  SummaryInv'
<1>1. /\ UNCHANGED <<skeleton, edits, fragment, summary>> /\ pass[c].pc = "check"
      /\ PassInv(pass[c], skeleton, edits)
  BY DEF index_subsystem_summary, world, tables, At, SummaryInv
<1>2. CASE GiveUp(c)
  BY <1>1, <1>2, GivenUp
<1>3. CASE IsCurrent(c) /\ pass' = [pass EXCEPT ![c].pc = "commit"]
  <2> DEFINE r == [pass[c] EXCEPT !.pc = "commit"]
  <2>1. pass' = [pass EXCEPT ![c] = r]
    BY <1>3 DEF SummaryInv
  <2>2. /\ DOMAIN r = Fields /\ r.pc = "commit" /\ r.pending = pass[c].pending
        /\ r.kept = pass[c].kept /\ r.listed = pass[c].listed /\ r.seen = pass[c].seen
        /\ r.todo = pass[c].todo /\ r.key = pass[c].key /\ r.draft = pass[c].draft
    BY <1>1 DEF PassInv, Fields
  <2> HIDE DEF r
  <2>3. Bundle(r) = Bundle(pass[c])
    BY <2>2 DEF Bundle
  <2>4. Matches(pass[c])
    BY <1>3 DEF IsCurrent, Matches, Listed, Bundle
  <2>5. InHand(r) /\ Described(r)
    BY <1>1, <2>2, <2>3, <2>4 DEF InHand, Described, PassInv
  <2>6. PassInv(r, skeleton, edits)
    BY <1>1, <2>2, <2>5 DEF PassInv
  <2> QED
    BY <1>1, <2>1, <2>6, TurnOnly
<1> QED
  BY <1>2, <1>3 DEF index_subsystem_summary

\* What a transaction leaves of every file of the cluster is about it.
LEMMA SourcesAreTrue ==
  ASSUME SummaryInv, NEW c \in Client, pass[c].pc = "commit",
         NEW path \in DOMAIN Listed(c), Copies(c, path) = 1
  PROVE  LET f == CHOOSE f \in Sources(c, path) : TRUE
         IN  f.text = f.fingerprint
<1> DEFINE key == pass[c].key
           there == Elsewhere(key, path, Listed(c)[path], fragment)
           sent == [fingerprint |-> Listed(c)[path], text |-> pass[c].draft[path],
                    stamp |-> pass[c].seen.layout]
<1>1. FragmentsOK(fragment) /\ Described(pass[c]) /\ Bundle(pass[c]) = Listed(c)
  BY DEF SummaryInv, PassInv, Bundle, Listed
<1>2. Sources(c, path) # {} /\ \A f \in Sources(c, path) : f.text = f.fingerprint
  <2>1. CASE path \in pass[c].pending
    <3>1. Sources(c, path) = {sent}
      BY <2>1 DEF Sources
    <3>2. sent.text = sent.fingerprint
      BY <1>1, <2>1 DEF Described
    <3> HIDE DEF sent
    <3> QED
      BY <3>1, <3>2
  <2>2. CASE /\ path \notin pass[c].pending /\ path \in Own(key, fragment)
             /\ fragment[<<key, path>>].fingerprint = Listed(c)[path]
    <3>1. Sources(c, path) = {fragment[<<key, path>>]}
      BY <2>2 DEF Sources
    <3>2. PICK s \in DOMAIN fragment : s[1] = key /\ s[2] = path
      BY <2>2 DEF Own
    <3>3. <<key, path>> \in DOMAIN fragment
      BY <1>1, <3>2 DEF FragmentsOK
    <3> QED
      BY <1>1, <3>1, <3>3 DEF FragmentsOK
  <2>3. CASE /\ path \notin pass[c].pending
             /\ ~(path \in Own(key, fragment)
                  /\ fragment[<<key, path>>].fingerprint = Listed(c)[path])
    <3>1. Sources(c, path) = {fragment[s] : s \in there}
      BY <2>3 DEF Sources
    <3>2. Cardinality(there) = 1
      BY <2>3 DEF Copies
    <3>3. there # {}
      BY <3>2, FS_EmptySet
    <3>4. \A s \in there : s \in DOMAIN fragment
      BY DEF Elsewhere
    <3> QED
      BY <1>1, <3>1, <3>3, <3>4 DEF FragmentsOK
  <2> QED
    BY <2>1, <2>2, <2>3
<1> HIDE DEF key, there, sent
<1> QED
  BY <1>2

LEMMA CommitStep ==
  ASSUME SummaryInv, NEW c \in Client, commit_summary_bundle(c)
  PROVE  SummaryInv'
<1> DEFINE key == pass[c].key
           files == DOMAIN Listed(c)
           rest == {s \in DOMAIN fragment : s[1] # key /\ s[2] \notin files}
           row == [hash |-> Listed(c), text |-> Said(c), vector |-> <<>>]
           sent == [s \in {key} \X files |-> CHOOSE f \in Sources(c, s[2]) : TRUE]
           left == Restrict(fragment, rest)
           said == Just(key, <<Listed(c), Said(c)>>)
           r == [Rejoin(c) EXCEPT !.pc = "embed", !.said = said]
<1>1. /\ pass[c].pc = "commit" /\ PassInv(pass[c], skeleton, edits)
      /\ FragmentsOK(fragment) /\ UNCHANGED <<skeleton, edits>>
  BY DEF commit_summary_bundle, world, At, SummaryInv
<1>2. CASE GiveUp(c) /\ UNCHANGED tables
  BY <1>1, <1>2, GivenUp DEF tables
<1>3. CASE /\ \A path \in files : Copies(c, path) = 1
           /\ fragment' = Over(sent, left)
           /\ summary' = Over(Just(key, row), summary)
           /\ pass' = [pass EXCEPT ![c] = r]
  <2>1. /\ IsCluster(Listed(c), edits) /\ InHand(pass[c]) /\ Described(pass[c])
        /\ Bundle(pass[c]) = Listed(c)
    BY <1>1 DEF PassInv, IsState, Bundle, Listed
  <2>2. FragmentsOK(fragment')
    <3>1. /\ DOMAIN sent = {key} \X files /\ DOMAIN left = rest
          /\ \A s \in rest : left[s] = fragment[s]
      BY Restricted
    <3>2. ASSUME NEW s \in DOMAIN sent PROVE sent[s].text = sent[s].fingerprint
      BY <1>1, <1>3, SourcesAreTrue
    <3> HIDE DEF sent, left
    <3>4. /\ DOMAIN Over(sent, left) = DOMAIN sent \cup DOMAIN left
          /\ \A s \in DOMAIN sent : Over(sent, left)[s] = sent[s]
          /\ \A s \in DOMAIN left \ DOMAIN sent : Over(sent, left)[s] = left[s]
      BY DEF Over
    <3>3. DOMAIN fragment' = ({key} \X files) \cup rest
      BY <1>3, <3>1, <3>4
    <3>5. ASSUME NEW path \in File PROVE IsFiniteSet(Copied(fragment', path))
      <4>1. Copied(fragment', path) \subseteq {<<key, path>>} \cup Copied(fragment, path)
        BY <3>3 DEF Copied
      <4>2. IsFiniteSet({<<key, path>>}) /\ IsFiniteSet(Copied(fragment, path))
        BY <1>1, FS_Singleton DEF FragmentsOK
      <4> HIDE DEF key
      <4>3. IsFiniteSet({<<key, path>>} \cup Copied(fragment, path))
        BY <4>2, FS_Union
      <4> QED
        BY <4>1, <4>3, FS_Subset
    <3>6. ASSUME NEW s \in DOMAIN fragment'
          PROVE  s = <<s[1], s[2]>> /\ fragment'[s].text = fragment'[s].fingerprint
      <4>1. CASE s \in DOMAIN sent
        <5>1. s = <<s[1], s[2]>>
          BY <3>1, <4>1
        <5> QED
          BY <1>3, <3>2, <3>4, <4>1, <5>1
      <4>2. CASE s \notin DOMAIN sent
        <5>1. s \in rest /\ fragment'[s] = fragment[s]
          BY <1>3, <3>1, <3>4, <3>6, <4>2
        <5> QED
          BY <1>1, <5>1 DEF FragmentsOK
      <4> QED
        BY <4>1, <4>2
    <3> QED
      BY <3>5, <3>6 DEF FragmentsOK
  <2>3. Said(c).of = Listed(c)
    <3> DEFINE of == Over(pass[c].draft, pass[c].kept)
    <3>1. /\ DOMAIN of = DOMAIN pass[c].draft \cup DOMAIN pass[c].kept
          /\ \A path \in DOMAIN pass[c].draft : of[path] = pass[c].draft[path]
          /\ \A path \in DOMAIN pass[c].kept \ DOMAIN pass[c].draft :
               of[path] = pass[c].kept[path]
          /\ of = [path \in DOMAIN of |-> of[path]]
      BY Overlay
    <3>2. Said(c).of = of
      BY DEF Said
    <3> HIDE DEF of
    <3>3. DOMAIN of = DOMAIN Listed(c) /\ \A path \in DOMAIN of : of[path] = Listed(c)[path]
      BY <2>1, <3>1 DEF InHand, Described
    <3>4. Listed(c) = [path \in DOMAIN Listed(c) |-> Listed(c)[path]]
      BY <2>1 DEF IsCluster
    <3>5. of = Listed(c)
      BY <3>1, <3>3, <3>4
    <3> QED
      BY <3>2, <3>5
  <2>4. ASSUME NEW k \in DOMAIN summary' PROVE RowOK(summary'[k])
    <3>1. row.text = Said(c) /\ row.hash = Listed(c) /\ DOMAIN row = Columns
      BY DEF Columns
    <3>2. RowOK(row)
      BY <2>3, <3>1 DEF RowOK
    <3> HIDE DEF row
    <3>3. k = key => summary'[k] = row
      BY <1>3 DEF Over, Just
    <3>4. k # key => k \in DOMAIN summary /\ summary'[k] = summary[k]
      BY <1>3, <2>4 DEF Over, Just
    <3> QED
      BY <3>2, <3>3, <3>4 DEF SummaryInv
  <2>5. /\ DOMAIN r = Fields /\ r.pc = "embed"
        /\ IsState(r.seen, edits) /\ IsState(r.listed, edits)
        /\ r.todo \subseteq DOMAIN r.listed.clusters
    <3> HIDE DEF said
    <3> QED
      BY Rejoined DEF Fields
  <2> HIDE DEF r
  <2>6. PassInv(r, skeleton, edits)
    BY <2>5, Between
  <2> QED
    BY <1>1, <1>3, <2>2, <2>4, <2>6, Turn
<1>4. (\E path \in files : Copies(c, path) # 1) \/ (\A path \in files : Copies(c, path) = 1)
  OBVIOUS
<1> QED
  BY <1>2, <1>3, <1>4 DEF commit_summary_bundle

\* Vectors change neither texts nor hashes.
LEMMA Embedded ==
  ASSUME NEW said, NEW key \in DOMAIN summary, DOMAIN summary[key] = Columns
  PROVE  LET row == set_embedding_if_source_hash(said)[key]
         IN  /\ DOMAIN set_embedding_if_source_hash(said) = DOMAIN summary
             /\ DOMAIN row = Columns /\ row.text = summary[key].text /\ row.hash = summary[key].hash
             /\ row.vector \in {summary[key].vector, <<row.text>>}
<1> DEFINE row == set_embedding_if_source_hash(said)[key]
           with == [summary[key] EXCEPT !.vector = <<said[key][2]>>]
<1>1. /\ DOMAIN set_embedding_if_source_hash(said) = DOMAIN summary
      /\ row = IF key \in DOMAIN said /\ <<summary[key].hash, summary[key].text>> = said[key]
               THEN with ELSE summary[key]
  BY DEF set_embedding_if_source_hash
<1>2. /\ DOMAIN with = Columns /\ with.text = summary[key].text /\ with.hash = summary[key].hash
      /\ with.vector = <<said[key][2]>>
  BY DEF Columns
<1>3. <<summary[key].hash, summary[key].text>> = said[key] => said[key][2] = summary[key].text
  OBVIOUS
<1> HIDE DEF with, row
<1> QED
  BY <1>1, <1>2, <1>3 DEF row

LEMMA EmbedStep ==
  ASSUME SummaryInv, NEW c \in Client,
         _embed_subsystem_summary(c) \/ backfill_summary_embeddings(c)
  PROVE  SummaryInv'
<1>1. /\ UNCHANGED <<skeleton, edits, fragment>>
      /\ summary' \in {summary, set_embedding_if_source_hash(pass[c].said)}
      /\ \/ pass' = [pass EXCEPT ![c] = Rejoin(c)]
         \/ pass' = [pass EXCEPT ![c] = NoPass]
  BY DEF _embed_subsystem_summary, backfill_summary_embeddings, world
<1>2. PassInv(Rejoin(c), skeleton, edits) /\ PassInv(NoPass, skeleton, edits)
  BY Rejoined, Vacant, Between
<1>3. ASSUME NEW key \in DOMAIN summary' PROVE RowOK(summary'[key])
  <2>1. CASE summary' = summary
    BY <1>3, <2>1 DEF SummaryInv
  <2>2. CASE summary' = set_embedding_if_source_hash(pass[c].said)
    <3>1. key \in DOMAIN summary
      BY <1>3, <2>2 DEF set_embedding_if_source_hash
    <3>2. RowOK(summary[key])
      BY <3>1 DEF SummaryInv
    <3> QED
      BY <2>2, <3>1, <3>2, Embedded DEF RowOK
  <2> QED
    BY <1>1, <2>1, <2>2
<1>4. FragmentsOK(fragment')
  BY <1>1 DEF SummaryInv
<1> QED
  BY <1>1, <1>2, <1>3, <1>4, Turn

LEMMA PruneStep ==
  ASSUME SummaryInv, NEW c \in Client, prune_subsystem_summaries(c)
  PROVE  SummaryInv'
<1> DEFINE flag == /\ pass[c].whole /\ pass[c].listed = pass[c].seen
                   /\ ~Verified(c)
           r == [Rejoin(c) EXCEPT !.pc = "backfill", !.refused = flag]
           keep == DOMAIN pass[c].seen.clusters
<1>1. /\ UNCHANGED <<skeleton, edits>> /\ pass' = [pass EXCEPT ![c] = r]
      /\ Prune(c, keep) \/ UNCHANGED <<summary, fragment>>
  BY DEF prune_subsystem_summaries, world, tables
<1> HIDE DEF flag
<1>2. /\ DOMAIN r = Fields /\ r.pc = "backfill"
      /\ IsState(r.seen, edits) /\ IsState(r.listed, edits)
      /\ r.todo \subseteq DOMAIN r.listed.clusters
  BY Rejoined DEF Fields
<1> HIDE DEF r, keep
<1>3. PassInv(r, skeleton, edits)
  BY <1>2, Between
<1>4. /\ DOMAIN summary' \subseteq DOMAIN summary
      /\ \A key \in DOMAIN summary' : summary'[key] = summary[key]
      /\ DOMAIN fragment' \subseteq DOMAIN fragment
      /\ \A s \in DOMAIN fragment' : fragment'[s] = fragment[s]
  BY <1>1 DEF Prune, Restrict
<1>5. FragmentsOK(fragment')
  <2>1. \A path \in File : IsFiniteSet(Copied(fragment', path))
    <3> TAKE path \in File
    <3>1. /\ IsFiniteSet(Copied(fragment, path))
          /\ Copied(fragment', path) \subseteq Copied(fragment, path)
      BY <1>4 DEF SummaryInv, FragmentsOK, Copied
    <3> QED
      BY <3>1, FS_Subset
  <2> QED
    BY <1>4, <2>1 DEF SummaryInv, FragmentsOK
<1>6. \A key \in DOMAIN summary' : RowOK(summary'[key])
  BY <1>4 DEF SummaryInv
<1> QED
  BY <1>1, <1>3, <1>5, <1>6, Turn

LEMMA PendingStep ==
  ASSUME SummaryInv, NEW c \in Client, get_pending_embeddings(c)
  PROVE  SummaryInv'
<1> DEFINE pending == {key \in DOMAIN summary : summary[key].vector = <<>>}
           said == [key \in pending |-> <<summary[key].hash, summary[key].text>>]
           r == [pass[c] EXCEPT !.pc = "vectors", !.said = said]
<1>1. /\ UNCHANGED <<skeleton, edits, summary, fragment>>
      /\ pass' = [pass EXCEPT ![c] = r]
      /\ PassInv(pass[c], skeleton, edits)
  BY DEF get_pending_embeddings, world, tables, SummaryInv
<1> HIDE DEF said
<1>2. /\ DOMAIN r = Fields /\ r.pc = "vectors" /\ r.listed = pass[c].listed
      /\ r.todo = pass[c].todo /\ r.seen = pass[c].seen
  BY <1>1 DEF PassInv, Fields
<1> HIDE DEF r
<1>3. PassInv(r, skeleton, edits)
  BY <1>1, <1>2, Between DEF PassInv
<1> QED
  BY <1>1, <1>3, TurnOnly

\* Nobody's turn: the branch goes on under the clients.
LEMMA Aged ==
  ASSUME NEW now \in Nat, NEW x
  PROVE  /\ IsCluster(x, now) => IsCluster(x, now + 1)
         /\ IsState(x, now) => IsState(x, now + 1)
<1>1. \A y : IsCluster(y, now) => IsCluster(y, now + 1)
  BY DEF IsCluster
<1> QED
  BY <1>1 DEF IsState

LEMMA ReindexStep ==
  ASSUME NoReverts, SummaryInv, NEW f \in File, Reindex(f)
  PROVE  SummaryInv'
<1>1. PICK s \in {edits + 2, Absent} : skeleton' = [skeleton EXCEPT ![f] = s]
  BY DEF Reindex, NoReverts
<1>2. edits' = edits + 1 /\ UNCHANGED <<summary, fragment, pass>> /\ edits \in Nat
  BY DEF Reindex, tables, SummaryInv, IndexOK
<1>3. IndexOK(skeleton', edits')
  BY <1>1, <1>2 DEF SummaryInv, IndexOK
<1>4. ASSUME NEW c \in Client PROVE PassInv(pass[c], skeleton', edits')
  <2> DEFINE p == pass[c]
  <2>1. PassInv(p, skeleton, edits)
    BY DEF SummaryInv
  <2> HIDE DEF p
  <2>2. IsState(p.seen, edits') /\ IsState(p.listed, edits')
    BY <1>2, <2>1, Aged DEF PassInv
  <2>3. ASSUME p.pc = "draft", NEW path \in DOMAIN p.draft
        PROVE  p.draft[path] = Bundle(p)[path] \/ skeleton'[path] # Bundle(p)[path]
    <3>1. IsCluster(Bundle(p), edits) /\ path \in DOMAIN Bundle(p)
      BY <2>1, <2>3 DEF PassInv, IsState, InHand, Bundle
    <3>2. /\ path \in File /\ Bundle(p)[path] \in 0..(edits + 1)
          /\ Bundle(p)[path] # Absent
      BY <3>1 DEF IsCluster
    <3>3. s # Bundle(p)[path]
      BY <1>2, <3>2
    <3>4. skeleton'[path] \in {s, skeleton[path]} /\ (path = f => skeleton'[path] = s)
          /\ (path # f => skeleton'[path] = skeleton[path])
      BY <1>1, <3>2 DEF SummaryInv, IndexOK
    <3> QED
      BY <2>1, <2>3, <3>3, <3>4 DEF PassInv
  <2>4. PassInv(p, skeleton', edits')
    BY <2>1, <2>2, <2>3 DEF PassInv
  <2> QED
    BY <2>4 DEF p
<1> QED
  BY <1>2, <1>3, <1>4 DEF SummaryInv

\* The three tables a branch may start with.
LEMMA SummaryStart ==
  ASSUME SummaryInit PROVE SummaryInv
<1>1. IndexOK(skeleton, edits)
  BY DEF SummaryInit, IndexOK
<1>2. DOMAIN pass = Client /\ \A c \in Client : PassInv(pass[c], skeleton, edits)
  <2>1. PassInv(NoPass, skeleton, edits)
    BY Vacant, Between
  <2> QED
    BY <2>1 DEF SummaryInit
<1>3. \A key \in DOMAIN <<>> : FALSE
  OBVIOUS
<1>4. \A key \in DOMAIN summary : RowOK(summary[key])
  <2>1. CASE summary = <<>>
    BY <1>3, <2>1
  <2>2. CASE summary = Written(policy)
    <3> DEFINE clusters == build_clusters(skeleton, policy)
    <3>1. summary = [key \in DOMAIN clusters |->
                       [hash |-> clusters[key], text |-> [of |-> clusters[key], by |-> "earlier"],
                        vector |-> <<>>]]
      BY <2>2 DEF Written
    <3> HIDE DEF clusters
    <3>2. ASSUME NEW key \in DOMAIN summary PROVE RowOK(summary[key])
      BY <3>1, <3>2 DEF RowOK, Columns
    <3> QED
      BY <3>2
  <2> QED
    BY <2>1, <2>2 DEF SummaryInit
<1>5. FragmentsOK(fragment)
  <2>1. CASE fragment = <<>>
    <3>1. DOMAIN fragment = {}
      BY <2>1
    <3>2. \A path \in File : Copied(fragment, path) = {}
      BY <3>1 DEF Copied
    <3> QED
      BY <3>1, <3>2, FS_EmptySet DEF FragmentsOK
  <2>2. CASE fragment = Fragments(policy)
    <3> DEFINE clusters == build_clusters(skeleton, policy)
               there == {s \in (DOMAIN clusters) \X File : s[2] \in DOMAIN clusters[s[1]]}
    <3>1. fragment = [s \in there |->
                        [fingerprint |-> skeleton[s[2]], text |-> skeleton[s[2]],
                         stamp |-> policy]]
      BY <2>2 DEF Fragments
    <3>2. \A path \in File : IsFiniteSet({s \in there : s[2] = path})
      <4> TAKE path \in File
      <4>1. {s \in there : s[2] = path} \subseteq {<<KeyOf(path, policy), path>>}
        BY DEF build_clusters
      <4> HIDE DEF there
      <4> QED
        BY <4>1, FS_Singleton, FS_Subset
    <3>3. \A s \in there : s = <<s[1], s[2]>>
      OBVIOUS
    <3> HIDE DEF there
    <3> QED
      BY <3>1, <3>2, <3>3 DEF FragmentsOK, Copied
  <2> QED
    BY <2>1, <2>2 DEF SummaryInit
<1> QED
  BY <1>1, <1>2, <1>4, <1>5 DEF SummaryInv

LEMMA SummaryStep ==
  ASSUME NoReverts, SummaryInv, [SummaryNext]_summaryVars PROVE SummaryInv'
<1>1. ASSUME NEW c \in Client, Tool(c) PROVE SummaryInv'
  <2>1. CASE AskList(c) \/ AskPrune(c)
    BY <2>1, AskListStep
  <2>2. CASE list_subsystem_clusters(c)
    BY <2>2, ListStep
  <2>3. CASE AskWork(c)
    BY <2>3, AskWorkStep
  <2>4. CASE get_subsystem_summary_work(c)
    BY <2>4, WorkStep
  <2>5. CASE \E path \in File : get_file_skeletons(c, path)
    BY <2>5, SkeletonStep
  <2>6. CASE AskIndex(c)
    BY <2>6, AskIndexStep
  <2>7. CASE index_subsystem_summary(c)
    BY <2>7, CheckStep
  <2>8. CASE commit_summary_bundle(c)
    BY <2>8, CommitStep
  <2>9. CASE _embed_subsystem_summary(c) \/ backfill_summary_embeddings(c)
    BY <2>9, EmbedStep
  <2>10. CASE prune_subsystem_summaries(c)
    BY <2>10, PruneStep
  <2>11. CASE get_pending_embeddings(c)
    BY <2>11, PendingStep
  <2> QED
    BY <1>1, <2>1, <2>2, <2>3, <2>4, <2>5, <2>6, <2>7, <2>8, <2>9, <2>10, <2>11 DEF Tool
<1>2. CASE \E f \in File : Reindex(f)
  BY <1>2, ReindexStep
<1>3. CASE SetPolicy
  BY <1>3 DEF SetPolicy, tables, SummaryInv
<1>4. CASE UNCHANGED summaryVars
  BY <1>4 DEF summaryVars, world, tables, SummaryInv
<1> QED
  BY <1>1, <1>2, <1>3, <1>4 DEF SummaryNext

(* Every stored fragment and every stored summary is about the skeletons   *)
(* of its hash, however the branch was indexed and whoever committed while *)
(* the client was reading and writing (index_subsystem_summary,            *)
(* commit_summary_bundle), if no file becomes again what it was.           *)
THEOREM TextsOfTheirHash == NoReverts => (SummarySpec => []TextIsOfItsHash)
<1> SUFFICES ASSUME NoReverts PROVE SummarySpec => []TextIsOfItsHash
  OBVIOUS
<1>1. SummaryInit => SummaryInv
  BY SummaryStart
<1>2. SummaryInv /\ [SummaryNext]_summaryVars => SummaryInv'
  BY SummaryStep
<1>3. SummaryInv => TextIsOfItsHash
  BY DEF SummaryInv, FragmentsOK, RowOK, TextIsOfItsHash
<1> QED
  BY <1>1, <1>2, <1>3, PTL DEF SummarySpec

-----------------------------------------------------------------------------
(* Vectors: a row carries the one of its text or none.                     *)
Vectored(row) == DOMAIN row = Columns /\ row.vector \in {<<>>, <<row.text>>}

VectorInv == \A key \in DOMAIN summary : Vectored(summary[key])

LEMMA VectorStart ==
  ASSUME SummaryInit PROVE VectorInv
<1>1. CASE summary = <<>>
  BY <1>1 DEF VectorInv
<1>2. CASE summary = Written(policy)
  <2> DEFINE clusters == build_clusters(skeleton, policy)
  <2>1. summary = [key \in DOMAIN clusters |->
                     [hash |-> clusters[key], text |-> [of |-> clusters[key], by |-> "earlier"],
                      vector |-> <<>>]]
    BY <1>2 DEF Written
  <2> HIDE DEF clusters
  <2>2. ASSUME NEW key \in DOMAIN summary PROVE Vectored(summary[key])
    BY <2>1, <2>2 DEF Vectored, Columns
  <2> QED
    BY <2>2 DEF VectorInv
<1> QED
  BY <1>1, <1>2 DEF SummaryInit

\* A bundle starts without a vector, and one that was computed from another
\* text than the row has by now is dropped.
LEMMA VectorStep ==
  ASSUME VectorInv, [SummaryNext]_summaryVars PROVE VectorInv'
<1>1. ASSUME NEW c \in Client, commit_summary_bundle(c) PROVE VectorInv'
  <2> DEFINE row == [hash |-> Listed(c), text |-> Said(c), vector |-> <<>>]
  <2>1. \/ summary' = summary
        \/ summary' = Over(Just(pass[c].key, row), summary)
    BY <1>1 DEF commit_summary_bundle, tables
  <2>2. Vectored(row)
    BY DEF Vectored, Columns
  <2> HIDE DEF row
  <2>3. \A key \in DOMAIN summary' :
          \/ summary'[key] = row
          \/ key \in DOMAIN summary /\ summary'[key] = summary[key]
    BY <2>1 DEF Over, Just
  <2> QED
    BY <2>2, <2>3 DEF VectorInv
<1>2. ASSUME NEW said, summary' \in {summary, set_embedding_if_source_hash(said)}
      PROVE  VectorInv'
  <2>1. CASE summary' = summary
    BY <2>1 DEF VectorInv
  <2>2. CASE summary' = set_embedding_if_source_hash(said)
    <3>1. ASSUME NEW key \in DOMAIN summary' PROVE Vectored(summary'[key])
      <4>1. key \in DOMAIN summary
        BY <2>2, <3>1 DEF set_embedding_if_source_hash
      <4>2. Vectored(summary[key])
        BY <4>1 DEF VectorInv
      <4> QED
        BY <2>2, <4>1, <4>2, Embedded DEF Vectored
    <3> QED
      BY <3>1 DEF VectorInv
  <2> QED
    BY <1>2, <2>1, <2>2
<1>3. ASSUME NEW c \in Client, prune_subsystem_summaries(c) PROVE VectorInv'
  <2>1. /\ DOMAIN summary' \subseteq DOMAIN summary
        /\ \A key \in DOMAIN summary' : summary'[key] = summary[key]
    BY <1>3 DEF prune_subsystem_summaries, Prune, Restrict, tables
  <2> QED
    BY <2>1 DEF VectorInv
<1>4. ASSUME NEW c \in Client, Tool(c) PROVE VectorInv'
  <2>1. CASE _embed_subsystem_summary(c) \/ backfill_summary_embeddings(c)
    BY <1>2, <2>1 DEF _embed_subsystem_summary, backfill_summary_embeddings
  <2>2. CASE commit_summary_bundle(c) \/ prune_subsystem_summaries(c)
    BY <1>1, <1>3, <2>2
  <2>3. CASE UNCHANGED summary
    BY <2>3 DEF VectorInv
  <2> QED
    BY <1>4, <2>1, <2>2, <2>3 DEF Tool, AskList, AskWork, AskIndex, AskPrune, Ask,
       list_subsystem_clusters, get_subsystem_summary_work, get_file_skeletons,
       index_subsystem_summary, get_pending_embeddings, tables
<1>5. ASSUME SetPolicy \/ (\E f \in File : Reindex(f)) \/ UNCHANGED summaryVars
      PROVE  VectorInv'
  BY <1>5 DEF SetPolicy, Reindex, summaryVars, tables, VectorInv
<1> QED
  BY <1>4, <1>5 DEF SummaryNext

(* The vector a summary is found by is the one of the text it has, whoever *)
(* rewrote the row while the vector was being computed                     *)
(* (set_embedding_if_source_hash, commit_summary_bundle).                  *)
THEOREM VectorsOfTheirTexts == SummarySpec => []VectorIsOfItsText
<1>1. SummaryInit => VectorInv
  BY VectorStart
<1>2. VectorInv /\ [SummaryNext]_summaryVars => VectorInv'
  BY VectorStep
<1>3. VectorInv => VectorIsOfItsText
  BY DEF VectorInv, Vectored, VectorIsOfItsText
<1> QED
  BY <1>1, <1>2, <1>3, PTL DEF SummarySpec

-----------------------------------------------------------------------------
(* What is deleted.                                                        *)
Spared ==
  \A key \in DOMAIN summary \ DOMAIN summary' :
    \E c \in Client : At(c, "finalize") /\ key \notin DOMAIN pass[c].seen.clusters

LEMMA SparedStep ==
  ASSUME [SummaryNext]_summaryVars PROVE Spared
<1>1. ASSUME NEW c \in Client, Tool(c) PROVE Spared
  <2>1. CASE _embed_subsystem_summary(c) \/ backfill_summary_embeddings(c)
    BY <2>1 DEF _embed_subsystem_summary, backfill_summary_embeddings,
                set_embedding_if_source_hash, Spared
  <2>2. CASE commit_summary_bundle(c)
    BY <2>2 DEF commit_summary_bundle, tables, Over, Spared
  <2>3. CASE prune_subsystem_summaries(c)
    BY <2>3 DEF prune_subsystem_summaries, tables, Prune, Restrict, Spared
  <2>4. CASE UNCHANGED summary
    BY <2>4 DEF Spared
  <2> QED
    BY <1>1, <2>1, <2>2, <2>3, <2>4 DEF Tool, AskList, AskWork, AskIndex, AskPrune, Ask,
       list_subsystem_clusters, get_subsystem_summary_work, get_file_skeletons,
       index_subsystem_summary, get_pending_embeddings, tables
<1>2. CASE SetPolicy \/ (\E f \in File : Reindex(f)) \/ UNCHANGED summaryVars
  BY <1>2 DEF SetPolicy, Reindex, summaryVars, tables, Spared
<1> QED
  BY <1>1, <1>2 DEF SummaryNext

(* Finishing a pass deletes no summary of a cluster there was when prune   *)
(* looked, whatever the list of the pass had deferred, and no other tool   *)
(* deletes one (prune_subsystem_summaries, prune_verified_layout).         *)
THEOREM PruneSpares == SummarySpec => PruneSparesClusters
<1>1. [SummaryNext]_summaryVars => [Spared]_summaryVars
  BY SparedStep
<1>2. [][Spared]_summaryVars => PruneSparesClusters
  BY PTL DEF PruneSparesClusters, Spared
<1> QED
  BY <1>1, <1>2, PTL DEF SummarySpec

-----------------------------------------------------------------------------
(* The layout stays                                                        *)

(* Every reader of the policy gets the same layout, for the whole run: it  *)
(* does not move, and where the policy cannot be read the same is left.    *)
LayoutStays == \/ Layouts = {Fallback}
               \/ MaxMoves = 0 /\ MaxTrouble = 0

\* an answer of list_subsystem_clusters, or a part of one
OfLayout(state, layout) ==
  /\ DOMAIN state = {"layout", "clusters"}
  /\ DOMAIN state.clusters # {} => state.layout = layout
  /\ \A key \in DOMAIN state.clusters :
       /\ DOMAIN state.clusters[key] # {}
       /\ \A path \in DOMAIN state.clusters[key] : KeyOf(path, layout) = key

OnLayout(p, layout) ==
  /\ DOMAIN p = Fields
  /\ OfLayout(p.seen, layout) /\ OfLayout(p.listed, layout)
  /\ p.todo \subseteq DOMAIN p.listed.clusters
  /\ p.pc \in {"work", "draft", "check", "commit"} => p.key \in DOMAIN p.listed.clusters
  /\ p.pc = "commit" => p.key \in DOMAIN p.seen.clusters

Shelved(stored, layout) ==
  \A s \in DOMAIN stored :
    s = <<s[1], s[2]>> /\ s[1] = KeyOf(s[2], layout) /\ stored[s].stamp = layout

Backed(key, hash, stored) ==
  /\ Own(key, stored) = DOMAIN hash /\ DOMAIN hash # {}
  /\ \A path \in DOMAIN hash : stored[<<key, path>>].fingerprint = hash[path]

AllBacked(rows, stored) == \A key \in DOMAIN rows : Backed(key, rows[key].hash, stored)

\* Once a pass was completed, no summary is without its fragments.
LayoutInv ==
  /\ moves \in Nat /\ lapses \in Nat
  /\ policy \in Layouts
  /\ completed \in {<<>>, <<policy>>}
  /\ Shelved(fragment, policy)
  /\ \A key \in DOMAIN summary : DOMAIN summary[key] = Columns
  /\ DOMAIN pass = Client
  /\ \A c \in Client : OnLayout(pass[c], policy)
  /\ completed # <<>> => AllBacked(summary, fragment)

-----------------------------------------------------------------------------
(* Steps under one layout                                                  *)

LEMMA Owned ==
  ASSUME NEW stored, NEW key, NEW files,
         \A s \in DOMAIN stored : s[1] = key => s[2] \in files,
         \A path \in files : <<key, path>> \in DOMAIN stored
  PROVE  Own(key, stored) = files
<1>1. \A path \in files : path \in Own(key, stored)
  <2> TAKE path \in files
  <2> DEFINE s == <<key, path>>
  <2>1. s \in DOMAIN stored /\ s[1] = key /\ s[2] = path
    OBVIOUS
  <2> HIDE DEF s
  <2> QED
    BY <2>1 DEF Own
<1>2. \A path \in Own(key, stored) : path \in files
  BY DEF Own
<1> QED
  BY <1>1, <1>2

LEMMA ReadOnLayout ==
  ASSUME NEW layout
  PROVE  OfLayout(_summary_state(layout), layout)
<1> DEFINE clusters == build_clusters(skeleton, layout)
           state == _summary_state(layout)
<1>1. /\ DOMAIN state = {"layout", "clusters"} /\ state.layout = layout
      /\ state.clusters = clusters
  BY DEF _summary_state
<1>2. ASSUME NEW key \in DOMAIN clusters
      PROVE  /\ DOMAIN clusters[key] # {}
             /\ \A path \in DOMAIN clusters[key] : KeyOf(path, layout) = key
  BY <1>2 DEF build_clusters
<1> HIDE DEF state, clusters
<1>3. OfLayout(state, layout)
  BY <1>1, <1>2 DEF OfLayout
<1> QED
  BY <1>3 DEF state

\* The policy is what it was, also for those who cannot read it.
LEMMA Resolved ==
  ASSUME LayoutStays, LayoutInv, NEW layout \in Layouts, _resolve_summary_layout(layout)
  PROVE  layout = policy /\ lapses' \in Nat
<1>1. policy \in Layouts /\ lapses \in Nat /\ MaxTrouble \in Nat
  BY SummaryBounds DEF LayoutInv
<1>2. layout = policy
  BY <1>1 DEF _resolve_summary_layout, LayoutStays
<1> QED
  BY <1>1, <1>2 DEF _resolve_summary_layout

LEMMA NobodyMoves ==
  ASSUME LayoutStays, LayoutInv PROVE ~SetPolicy
<1>1. policy \in Layouts /\ moves \in Nat /\ MaxMoves \in Nat
  BY SummaryBounds DEF LayoutInv
<1> QED
  BY <1>1 DEF SetPolicy, LayoutStays

\* A step of one client that leaves the tables in order.
LEMMA TurnOnLayout ==
  ASSUME LayoutInv, NEW c \in Client, NEW r, pass' = [pass EXCEPT ![c] = r],
         OnLayout(r, policy), UNCHANGED <<policy, moves>>, lapses' \in Nat,
         completed' \in {<<>>, <<policy>>}, Shelved(fragment', policy),
         \A key \in DOMAIN summary' : DOMAIN summary'[key] = Columns,
         completed' # <<>> => AllBacked(summary', fragment')
  PROVE  LayoutInv'
BY DEF LayoutInv

LEMMA TurnAside ==
  ASSUME LayoutInv, NEW c \in Client, NEW r, pass' = [pass EXCEPT ![c] = r],
         OnLayout(r, policy), UNCHANGED <<policy, moves>>, lapses' \in Nat,
         UNCHANGED tables
  PROVE  LayoutInv'
<1>1. /\ completed' \in {<<>>, <<policy>>} /\ Shelved(fragment', policy)
      /\ \A key \in DOMAIN summary' : DOMAIN summary'[key] = Columns
      /\ completed' # <<>> => AllBacked(summary', fragment')
  BY DEF LayoutInv, tables
<1> QED
  BY <1>1, TurnOnLayout

LEMMA IdleOnLayout ==
  /\ OnLayout(NoPass, policy) /\ OfLayout(NoPass.listed, policy)
  /\ DOMAIN NoPass = Fields /\ NoPass.pc = "idle"
<1>1. /\ DOMAIN NoPass = Fields /\ NoPass.seen = Nothing /\ NoPass.listed = Nothing
      /\ NoPass.todo = {} /\ NoPass.pc = "idle"
  BY DEF NoPass, Fields
<1>2. OfLayout(Nothing, policy)
  BY DEF Nothing, OfLayout
<1> QED
  BY <1>1, <1>2 DEF OnLayout

\* The tools that read the policy and the index first.
LEMMA AskOnLayout ==
  ASSUME LayoutStays, LayoutInv, NEW c \in Client, NEW from, NEW to, NEW p,
         DOMAIN p = Fields, OfLayout(p.listed, policy),
         p.todo \subseteq DOMAIN p.listed.clusters,
         to \in {"work", "check"} => p.key \in DOMAIN p.listed.clusters,
         to \notin {"draft", "commit"},
         Ask(c, from, to, p)
  PROVE  LayoutInv'
<1>1. PICK layout \in Layouts :
        /\ _resolve_summary_layout(layout)
        /\ pass' = [pass EXCEPT ![c] = [p EXCEPT !.pc = to, !.seen = _summary_state(layout)]]
  BY DEF Ask
<1>2. layout = policy /\ lapses' \in Nat
  BY <1>1, Resolved
<1> DEFINE state == _summary_state(layout)
           r == [p EXCEPT !.pc = to, !.seen = state]
<1>3. OfLayout(state, policy)
  BY <1>2, ReadOnLayout
<1> HIDE DEF state
<1>4. /\ DOMAIN r = Fields /\ r.pc = to /\ r.seen = state /\ r.listed = p.listed
      /\ r.todo = p.todo /\ r.key = p.key
  BY DEF Fields
<1>5. pass' = [pass EXCEPT ![c] = r]
  BY <1>1 DEF state
<1> HIDE DEF r
<1>6. OnLayout(r, policy)
  BY <1>3, <1>4 DEF OnLayout
<1>7. UNCHANGED <<policy, moves>> /\ UNCHANGED tables
  BY DEF Ask, world, tables
<1> QED
  BY <1>2, <1>5, <1>6, <1>7, TurnAside

LEMMA AskingOnLayout ==
  ASSUME LayoutStays, LayoutInv, NEW c \in Client,
         AskList(c) \/ AskWork(c) \/ AskIndex(c) \/ AskPrune(c)
  PROVE  LayoutInv'
<1>1. OnLayout(pass[c], policy)
  BY DEF LayoutInv
<1>2. CASE AskList(c)
  BY <1>1, <1>2, AskOnLayout DEF AskList, OnLayout
<1>3. CASE AskPrune(c)
  BY <1>1, <1>3, AskOnLayout DEF AskPrune, OnLayout
<1>4. CASE AskIndex(c)
  <2>1. pass[c].pc = "draft"
    BY <1>4 DEF AskIndex, Ask, At
  <2> QED
    BY <1>1, <1>4, <2>1, AskOnLayout DEF AskIndex, OnLayout
<1>5. CASE AskWork(c)
  <2>1. PICK key \in pass[c].todo :
          Ask(c, "next", "work", [pass[c] EXCEPT !.key = key, !.todo = @ \ {key}])
    BY <1>5 DEF AskWork
  <2> DEFINE p == [pass[c] EXCEPT !.key = key, !.todo = @ \ {key}]
  <2>2. /\ DOMAIN p = Fields /\ p.key = key /\ p.todo = pass[c].todo \ {key}
        /\ p.listed = pass[c].listed
    BY <1>1 DEF OnLayout, Fields
  <2>3. Ask(c, "next", "work", p)
    BY <2>1
  <2> HIDE DEF p
  <2> QED
    BY <1>1, <2>2, <2>3, AskOnLayout DEF OnLayout
<1> QED
  BY <1>2, <1>3, <1>4, <1>5

LEMMA ListOnLayout ==
  ASSUME LayoutInv, NEW c \in Client, list_subsystem_clusters(c)
  PROVE  LayoutInv'
<1> DEFINE state == pass[c].seen
           rebuild == ToRebuild(state)
<1>1. PICK todo \in SUBSET rebuild :
        pass' = [pass EXCEPT ![c] =
                  IF DOMAIN state.clusters = {} THEN NoPass
                  ELSE [NoPass EXCEPT
                    !.pc = "next", !.todo = todo, !.whole = (todo = rebuild),
                    !.listed = [state EXCEPT !.clusters =
                                  Restrict(@, DOMAIN @ \ (rebuild \ todo))]]]
  BY DEF list_subsystem_clusters
<1>2. /\ UNCHANGED <<policy, moves>> /\ UNCHANGED tables /\ lapses' \in Nat
      /\ OfLayout(state, policy) /\ rebuild \subseteq DOMAIN state.clusters
  BY DEF list_subsystem_clusters, world, LayoutInv, OnLayout, ToRebuild
<1> DEFINE listed == [state EXCEPT !.clusters = Restrict(@, DOMAIN @ \ (rebuild \ todo))]
           r == [NoPass EXCEPT !.pc = "next", !.todo = todo, !.whole = (todo = rebuild),
                               !.listed = listed]
<1>3. /\ DOMAIN listed = {"layout", "clusters"} /\ listed.layout = state.layout
      /\ listed.clusters = Restrict(state.clusters, DOMAIN state.clusters \ (rebuild \ todo))
  BY <1>2 DEF OfLayout
<1>4. OfLayout(listed, policy) /\ todo \subseteq DOMAIN listed.clusters
  <2> HIDE DEF listed, state, rebuild
  <2>1. /\ DOMAIN listed.clusters = DOMAIN state.clusters \ (rebuild \ todo)
        /\ \A key \in DOMAIN listed.clusters : listed.clusters[key] = state.clusters[key]
    BY <1>3, Restricted
  <2> QED
    BY <1>2, <1>3, <2>1 DEF OfLayout
<1> HIDE DEF listed
<1>5. /\ DOMAIN r = Fields /\ r.pc = "next" /\ r.todo = todo /\ r.listed = listed
      /\ r.seen = NoPass.seen
  BY IdleOnLayout DEF Fields
<1> HIDE DEF r
<1>6. OnLayout(r, policy) /\ OnLayout(NoPass, policy)
  BY <1>4, <1>5, IdleOnLayout DEF OnLayout
<1>7. CASE DOMAIN state.clusters = {}
  BY <1>1, <1>2, <1>6, <1>7, TurnAside
<1>8. CASE DOMAIN state.clusters # {}
  BY <1>1, <1>2, <1>6, <1>8, TurnAside DEF r, listed
<1> QED
  BY <1>7, <1>8

\* What is left in a client's hand between two bundles.
LEMMA RejoinedOnLayout ==
  ASSUME LayoutInv, NEW c \in Client
  PROVE  /\ DOMAIN Rejoin(c) = Fields /\ Rejoin(c).pc = "next"
         /\ OfLayout(Rejoin(c).seen, policy) /\ OfLayout(Rejoin(c).listed, policy)
         /\ Rejoin(c).todo \subseteq DOMAIN Rejoin(c).listed.clusters
<1>1. /\ DOMAIN Rejoin(c) = Fields /\ Rejoin(c).pc = "next"
      /\ Rejoin(c).listed = pass[c].listed /\ Rejoin(c).todo = pass[c].todo
      /\ Rejoin(c).seen = NoPass.seen
  BY IdleOnLayout DEF Rejoin, Fields
<1>2. OnLayout(pass[c], policy)
  BY DEF LayoutInv
<1> QED
  BY <1>1, <1>2, IdleOnLayout DEF OnLayout

LEMMA GivenUpOnLayout ==
  ASSUME LayoutInv, NEW c \in Client, GiveUp(c),
         UNCHANGED <<policy, moves, lapses>>, UNCHANGED tables
  PROVE  LayoutInv'
<1> DEFINE r == [Rejoin(c) EXCEPT !.whole = FALSE]
<1>1. /\ DOMAIN r = Fields /\ r.pc = "next"
      /\ OfLayout(r.seen, policy) /\ OfLayout(r.listed, policy)
      /\ r.todo \subseteq DOMAIN r.listed.clusters
  BY RejoinedOnLayout DEF Fields
<1> HIDE DEF r
<1>2. OnLayout(r, policy) /\ lapses' \in Nat
  BY <1>1 DEF OnLayout, LayoutInv
<1> QED
  BY <1>2, TurnAside DEF GiveUp, r

Drafting(p, pending, kept, draft) ==
  [p EXCEPT !.pc = "draft", !.pending = pending, !.kept = kept, !.draft = draft]

\* Between list and transaction a client keeps the layout it has.
LEMMA BundleOnLayout ==
  ASSUME LayoutInv, NEW c \in Client,
         \/ get_subsystem_summary_work(c)
         \/ \E path \in File : get_file_skeletons(c, path)
         \/ index_subsystem_summary(c)
         \/ get_pending_embeddings(c)
  PROVE  LayoutInv'
<1>1. OnLayout(pass[c], policy) /\ lapses \in Nat
  BY DEF LayoutInv
<1>2. UNCHANGED <<policy, moves, lapses>> /\ UNCHANGED tables
  BY DEF get_subsystem_summary_work, get_file_skeletons, index_subsystem_summary,
         get_pending_embeddings, world, tables
<1>3. CASE GiveUp(c)
  BY <1>2, <1>3, GivenUpOnLayout
<1>4. ASSUME pass[c].pc \in {"work", "draft"}, NEW pending, NEW kept, NEW draft,
             pass' = [pass EXCEPT ![c] = Drafting(pass[c], pending, kept, draft)]
      PROVE  LayoutInv'
  <2> DEFINE r == Drafting(pass[c], pending, kept, draft)
  <2>2. /\ DOMAIN r = Fields /\ r.pc = "draft" /\ r.seen = pass[c].seen
        /\ r.listed = pass[c].listed /\ r.todo = pass[c].todo /\ r.key = pass[c].key
    BY <1>1 DEF OnLayout, Fields, Drafting
  <2>3. pass' = [pass EXCEPT ![c] = r]
    BY <1>4
  <2> HIDE DEF r
  <2>4. OnLayout(r, policy)
    BY <1>1, <1>4, <2>2 DEF OnLayout
  <2> QED
    BY <1>1, <1>2, <2>3, <2>4, TurnAside
<1>5. CASE /\ pass[c].pc = "check" /\ IsCurrent(c)
           /\ pass' = [pass EXCEPT ![c].pc = "commit"]
  <2> DEFINE r == [pass[c] EXCEPT !.pc = "commit"]
  <2>1. pass' = [pass EXCEPT ![c] = r]
    BY <1>5 DEF LayoutInv
  <2>2. /\ DOMAIN r = Fields /\ r.pc = "commit" /\ r.seen = pass[c].seen
        /\ r.listed = pass[c].listed /\ r.todo = pass[c].todo /\ r.key = pass[c].key
    BY <1>1 DEF OnLayout, Fields
  <2> HIDE DEF r
  <2>3. OnLayout(r, policy)
    BY <1>1, <1>5, <2>2 DEF OnLayout, IsCurrent
  <2> QED
    BY <1>1, <1>2, <2>1, <2>3, TurnAside
<1>6. CASE \E said : pass' = [pass EXCEPT ![c].pc = "vectors", ![c].said = said]
  <2>1. PICK said : pass' = [pass EXCEPT ![c].pc = "vectors", ![c].said = said]
    BY <1>6
  <2> DEFINE r == [pass[c] EXCEPT !.pc = "vectors", !.said = said]
  <2>2. pass' = [pass EXCEPT ![c] = r]
    BY <2>1 DEF LayoutInv
  <2>3. /\ DOMAIN r = Fields /\ r.pc = "vectors" /\ r.seen = pass[c].seen
        /\ r.listed = pass[c].listed /\ r.todo = pass[c].todo /\ r.key = pass[c].key
    BY <1>1 DEF OnLayout, Fields
  <2> HIDE DEF r
  <2>4. OnLayout(r, policy)
    BY <1>1, <2>3 DEF OnLayout
  <2> QED
    BY <1>1, <1>2, <2>2, <2>4, TurnAside
<1>7. ASSUME get_subsystem_summary_work(c), ~GiveUp(c) PROVE LayoutInv'
  <2>1. /\ pass[c].pc = "work"
        /\ pass' = [pass EXCEPT ![c].pc = "draft", ![c].pending = pending_paths(Delta(c)),
                                ![c].kept = Kept(c, Delta(c))]
    BY <1>7 DEF get_subsystem_summary_work, At
  <2>2. pass' = [pass EXCEPT ![c] = Drafting(pass[c], pending_paths(Delta(c)),
                                             Kept(c, Delta(c)), pass[c].draft)]
    BY <1>1, <2>1 DEF OnLayout, Fields, LayoutInv, Drafting
  <2> QED
    BY <1>4, <2>1, <2>2
<1>8. ASSUME NEW path \in File, get_file_skeletons(c, path), ~GiveUp(c) PROVE LayoutInv'
  <2>1. PICK draft : pass[c].pc = "draft" /\ pass' = [pass EXCEPT ![c].draft = draft]
    BY <1>8 DEF get_file_skeletons, At
  <2>2. pass' = [pass EXCEPT ![c] = Drafting(pass[c], pass[c].pending, pass[c].kept, draft)]
    BY <1>1, <2>1 DEF OnLayout, Fields, LayoutInv, Drafting
  <2> QED
    BY <1>4, <2>1, <2>2
<1>9. ASSUME index_subsystem_summary(c), ~GiveUp(c) PROVE LayoutInv'
  BY <1>5, <1>9 DEF index_subsystem_summary, At
<1>10. ASSUME get_pending_embeddings(c) PROVE LayoutInv'
  BY <1>6, <1>10 DEF get_pending_embeddings
<1> QED
  BY <1>3, <1>7, <1>8, <1>9, <1>10

LEMMA VectorsOnLayout ==
  ASSUME LayoutInv, NEW c \in Client,
         _embed_subsystem_summary(c) \/ backfill_summary_embeddings(c)
  PROVE  LayoutInv'
<1>1. /\ UNCHANGED <<policy, moves, lapses, fragment, completed>>
      /\ summary' \in {summary, set_embedding_if_source_hash(pass[c].said)}
      /\ \/ pass' = [pass EXCEPT ![c] = Rejoin(c)]
         \/ pass' = [pass EXCEPT ![c] = NoPass]
  BY DEF _embed_subsystem_summary, backfill_summary_embeddings, world
<1>2. OnLayout(Rejoin(c), policy) /\ OnLayout(NoPass, policy)
  BY RejoinedOnLayout, IdleOnLayout DEF OnLayout
<1>3. /\ DOMAIN summary' = DOMAIN summary
      /\ \A key \in DOMAIN summary :
           DOMAIN summary'[key] = Columns /\ summary'[key].hash = summary[key].hash
  <2>1. CASE summary' = summary
    BY <2>1 DEF LayoutInv
  <2>2. CASE summary' = set_embedding_if_source_hash(pass[c].said)
    <3>1. \A key \in DOMAIN summary : DOMAIN summary[key] = Columns
      BY DEF LayoutInv
    <3>2. DOMAIN set_embedding_if_source_hash(pass[c].said) = DOMAIN summary
      BY DEF set_embedding_if_source_hash
    <3> QED
      BY <2>2, <3>1, <3>2, Embedded
  <2> QED
    BY <1>1, <2>1, <2>2
<1>4. /\ completed' # <<>> => AllBacked(summary', fragment')
      /\ Shelved(fragment', policy) /\ lapses' \in Nat
      /\ completed' \in {<<>>, <<policy>>}
  BY <1>1, <1>3 DEF LayoutInv, AllBacked
<1> QED
  BY <1>1, <1>2, <1>3, <1>4, TurnOnLayout

\* What the transaction leaves of every file is what was listed of it, and of
\* the layout; no other cluster has a copy.
LEMMA SourcesOnLayout ==
  ASSUME LayoutInv, NEW c \in Client, pass[c].pc = "commit",
         NEW path \in DOMAIN Listed(c), Copies(c, path) = 1
  PROVE  LET f == CHOOSE f \in Sources(c, path) : TRUE
         IN  f.fingerprint = Listed(c)[path] /\ f.stamp = policy
<1> DEFINE key == pass[c].key
           there == Elsewhere(key, path, Listed(c)[path], fragment)
           sent == [fingerprint |-> Listed(c)[path], text |-> pass[c].draft[path],
                    stamp |-> pass[c].seen.layout]
<1>1. /\ Shelved(fragment, policy) /\ KeyOf(path, policy) = key
      /\ pass[c].seen.layout = policy
  BY DEF LayoutInv, OnLayout, OfLayout, Listed
<1>2. /\ Sources(c, path) # {}
      /\ \A f \in Sources(c, path) : f.fingerprint = Listed(c)[path] /\ f.stamp = policy
  <2>1. CASE path \in pass[c].pending
    <3>1. Sources(c, path) = {sent}
      BY <2>1 DEF Sources
    <3>2. sent.fingerprint = Listed(c)[path] /\ sent.stamp = policy
      BY <1>1
    <3> HIDE DEF sent
    <3> QED
      BY <3>1, <3>2
  <2>2. CASE /\ path \notin pass[c].pending /\ path \in Own(key, fragment)
             /\ fragment[<<key, path>>].fingerprint = Listed(c)[path]
    <3>1. Sources(c, path) = {fragment[<<key, path>>]}
      BY <2>2 DEF Sources
    <3>2. PICK s \in DOMAIN fragment : s[1] = key /\ s[2] = path
      BY <2>2 DEF Own
    <3>3. <<key, path>> \in DOMAIN fragment
      BY <1>1, <3>2 DEF Shelved
    <3> QED
      BY <1>1, <2>2, <3>1, <3>3 DEF Shelved
  <2>3. CASE /\ path \notin pass[c].pending
             /\ ~(path \in Own(key, fragment)
                  /\ fragment[<<key, path>>].fingerprint = Listed(c)[path])
    <3>1. Cardinality(there) = 1
      BY <2>3 DEF Copies
    <3>2. there = {}
      BY <1>1 DEF Elsewhere, Shelved
    <3> QED
      BY <3>1, <3>2, FS_EmptySet
  <2> QED
    BY <2>1, <2>2, <2>3
<1> HIDE DEF key, there, sent
<1> QED
  BY <1>2

LEMMA CommitOnLayout ==
  ASSUME LayoutInv, NEW c \in Client, commit_summary_bundle(c)
  PROVE  LayoutInv'
<1> DEFINE key == pass[c].key
           files == DOMAIN Listed(c)
           rest == {s \in DOMAIN fragment : s[1] # key /\ s[2] \notin files}
           row == [hash |-> Listed(c), text |-> Said(c), vector |-> <<>>]
           sent == [s \in {key} \X files |-> CHOOSE f \in Sources(c, s[2]) : TRUE]
           left == Restrict(fragment, rest)
           said == Just(key, <<Listed(c), Said(c)>>)
           r == [Rejoin(c) EXCEPT !.pc = "embed", !.said = said]
<1>1. /\ pass[c].pc = "commit" /\ OnLayout(pass[c], policy)
      /\ Shelved(fragment, policy) /\ UNCHANGED <<policy, moves, lapses>>
  BY DEF commit_summary_bundle, world, At, LayoutInv
<1>2. CASE GiveUp(c) /\ UNCHANGED tables
  BY <1>1, <1>2, GivenUpOnLayout
<1>3. CASE /\ \A path \in files : Copies(c, path) = 1
           /\ fragment' = Over(sent, left)
           /\ summary' = Over(Just(key, row), summary)
           /\ pass' = [pass EXCEPT ![c] = r]
           /\ UNCHANGED completed
  <2>1. files # {} /\ \A path \in files : KeyOf(path, policy) = key
    BY <1>1 DEF OnLayout, OfLayout, Listed
  <2>2. ASSUME NEW path \in files
        PROVE  /\ sent[<<key, path>>].fingerprint = Listed(c)[path]
               /\ sent[<<key, path>>].stamp = policy
    BY <1>1, <1>3, SourcesOnLayout
  <2>3. /\ DOMAIN sent = {key} \X files /\ DOMAIN left = rest
        /\ \A s \in rest : left[s] = fragment[s]
    BY Restricted
  <2>4. /\ DOMAIN row = Columns /\ row.hash = Listed(c)
    BY DEF Columns
  <2>5. DOMAIN r = Fields /\ r.pc = "embed"
        /\ OfLayout(r.seen, policy) /\ OfLayout(r.listed, policy)
        /\ r.todo \subseteq DOMAIN r.listed.clusters
    <3> HIDE DEF said
    <3> QED
      BY RejoinedOnLayout DEF Fields
  <2> HIDE DEF sent, left, row, r
  <2>6. /\ DOMAIN fragment' = ({key} \X files) \cup rest
        /\ \A path \in files : fragment'[<<key, path>>] = sent[<<key, path>>]
        /\ \A s \in rest : fragment'[s] = fragment[s]
    <3>1. /\ DOMAIN Over(sent, left) = DOMAIN sent \cup DOMAIN left
          /\ \A s \in DOMAIN sent : Over(sent, left)[s] = sent[s]
          /\ \A s \in DOMAIN left \ DOMAIN sent : Over(sent, left)[s] = left[s]
      BY DEF Over
    <3>2. rest \cap ({key} \X files) = {}
      OBVIOUS
    <3> QED
      BY <1>3, <2>3, <3>1, <3>2
  <2>7. Shelved(fragment', policy)
    BY <1>1, <2>1, <2>2, <2>6 DEF Shelved
  <2>8. /\ DOMAIN summary' = {key} \cup DOMAIN summary
        /\ summary'[key] = row
        /\ \A k \in DOMAIN summary \ {key} : summary'[k] = summary[k]
    BY <1>3 DEF Over, Just
  <2>9. \A k \in DOMAIN summary' : DOMAIN summary'[k] = Columns
    BY <2>4, <2>8 DEF LayoutInv
  <2>10. Backed(key, Listed(c), fragment')
    <3>1. Own(key, fragment') = files
      <4>1. \A s \in DOMAIN fragment' : s[1] = key => s[2] \in files
        BY <2>6
      <4>2. \A path \in files : <<key, path>> \in DOMAIN fragment'
        BY <2>6
      <4> HIDE DEF key, files
      <4> QED
        BY <4>1, <4>2, Owned
    <3>2. \A path \in files : fragment'[<<key, path>>].fingerprint = Listed(c)[path]
      BY <2>2, <2>6
    <3> QED
      BY <2>1, <3>1, <3>2 DEF Backed
  <2>11. ASSUME completed' # <<>>, NEW k \in DOMAIN summary'
         PROVE  Backed(k, summary'[k].hash, fragment')
    <3>1. CASE k = key
      BY <2>4, <2>8, <2>10, <3>1
    <3>2. CASE k # key
      <4>1. Backed(k, summary[k].hash, fragment) /\ summary'[k] = summary[k]
        BY <1>3, <2>8, <2>11, <3>2 DEF LayoutInv, AllBacked
      <4>2. \A s \in DOMAIN fragment : s[1] = k => s \in rest
        BY <1>1, <2>1, <3>2 DEF Shelved
      <4>3. Own(k, fragment') = Own(k, fragment)
        BY <2>6, <3>2, <4>2 DEF Own
      <4>4. ASSUME NEW path \in Own(k, fragment)
            PROVE  fragment'[<<k, path>>] = fragment[<<k, path>>]
        <5>1. PICK s \in DOMAIN fragment : s[1] = k /\ s[2] = path
          BY DEF Own
        <5>2. s = <<k, path>> /\ s \in rest
          BY <1>1, <4>2, <5>1 DEF Shelved
        <5> QED
          BY <2>6, <5>2
      <4> QED
        BY <4>1, <4>3, <4>4 DEF Backed
    <3> QED
      BY <3>1, <3>2
  <2>12. OnLayout(r, policy)
    BY <2>5 DEF OnLayout
  <2>13. /\ completed' # <<>> => AllBacked(summary', fragment')
         /\ completed' \in {<<>>, <<policy>>} /\ lapses' \in Nat
    BY <1>1, <1>3, <2>11 DEF AllBacked, LayoutInv
  <2> QED
    BY <1>1, <1>3, <2>7, <2>9, <2>12, <2>13, TurnOnLayout
<1>4. (\E path \in files : Copies(c, path) # 1) \/ (\A path \in files : Copies(c, path) = 1)
  OBVIOUS
<1> QED
  BY <1>2, <1>3, <1>4 DEF commit_summary_bundle

LEMMA PruneOnLayout ==
  ASSUME LayoutInv, NEW c \in Client, prune_subsystem_summaries(c)
  PROVE  LayoutInv'
<1> DEFINE flag == /\ pass[c].whole /\ pass[c].listed = pass[c].seen
                   /\ ~Verified(c)
           r == [Rejoin(c) EXCEPT !.pc = "backfill", !.refused = flag]
           keep == DOMAIN pass[c].seen.clusters
<1>1. /\ UNCHANGED <<policy, moves, lapses>> /\ pass' = [pass EXCEPT ![c] = r]
      /\ (Verified(c) /\ Prune(c, keep)) \/ UNCHANGED tables
  BY DEF prune_subsystem_summaries, world
<1> HIDE DEF flag
<1>2. /\ DOMAIN r = Fields /\ r.pc = "backfill"
      /\ OfLayout(r.seen, policy) /\ OfLayout(r.listed, policy)
      /\ r.todo \subseteq DOMAIN r.listed.clusters
  BY RejoinedOnLayout DEF Fields
<1> HIDE DEF r
<1>3. OnLayout(r, policy) /\ lapses' \in Nat
  BY <1>1, <1>2 DEF OnLayout, LayoutInv
<1>4. CASE UNCHANGED tables
  BY <1>1, <1>3, <1>4, TurnAside
<1>5. CASE Verified(c) /\ Prune(c, keep)
  <2>1. /\ OfLayout(pass[c].seen, policy) /\ pass[c].listed = pass[c].seen /\ keep # {}
    BY <1>5 DEF Verified, LayoutInv, OnLayout
  <2>2. completed' = <<policy>>
    BY <1>5, <2>1 DEF Prune, OfLayout
  <2>3. /\ DOMAIN summary' = DOMAIN summary \cap keep
        /\ \A key \in DOMAIN summary' : summary'[key] = summary[key]
        /\ DOMAIN fragment' = {s \in DOMAIN fragment : s[1] \in keep}
        /\ \A s \in DOMAIN fragment' : fragment'[s] = fragment[s]
    BY <1>5 DEF Prune, Restrict
  <2>4. ASSUME NEW key \in DOMAIN summary' PROVE Backed(key, summary'[key].hash, fragment')
    <3> DEFINE current == pass[c].seen.clusters[key]
    <3>1. /\ key \in keep /\ summary'[key].hash = current
          /\ has_complete_fragment_generation(key, current, fragment, pass[c].seen.layout)
      BY <1>5, <2>3 DEF Verified
    <3> HIDE DEF current
    <3>2. Own(key, fragment') = Own(key, fragment)
      BY <2>3, <3>1 DEF Own
    <3>3. ASSUME NEW path \in Own(key, fragment)
          PROVE  fragment'[<<key, path>>] = fragment[<<key, path>>]
      <4>1. PICK s \in DOMAIN fragment : s[1] = key /\ s[2] = path
        BY DEF Own
      <4>2. s = <<key, path>> /\ s \in DOMAIN fragment'
        BY <2>3, <3>1, <4>1 DEF LayoutInv, Shelved
      <4> QED
        BY <2>3, <4>2
    <3> QED
      BY <3>1, <3>2, <3>3 DEF Backed, has_complete_fragment_generation
  <2>5. Shelved(fragment', policy)
    BY <2>3 DEF LayoutInv, Shelved
  <2>6. \A key \in DOMAIN summary' : DOMAIN summary'[key] = Columns
    BY <2>3 DEF LayoutInv
  <2>7. AllBacked(summary', fragment')
    BY <2>4 DEF AllBacked
  <2>8. completed' \in {<<>>, <<policy>>}
    BY <2>2
  <2> QED
    BY <1>1, <1>3, <2>5, <2>6, <2>7, <2>8, TurnOnLayout
<1> QED
  BY <1>1, <1>4, <1>5

LEMMA StartOnLayout ==
  ASSUME SummaryInit PROVE LayoutInv
<1> DEFINE clusters == build_clusters(skeleton, policy)
           there == {s \in (DOMAIN clusters) \X File : s[2] \in DOMAIN clusters[s[1]]}
<1>1. /\ moves \in Nat /\ lapses \in Nat /\ policy \in Layouts
      /\ completed \in {<<>>, <<policy>>} /\ DOMAIN pass = Client
      /\ \A c \in Client : OnLayout(pass[c], policy)
  BY IdleOnLayout DEF SummaryInit
<1>2. ASSUME NEW key \in DOMAIN clusters
      PROVE  /\ DOMAIN clusters[key] # {} /\ DOMAIN clusters[key] \subseteq File
             /\ \A path \in DOMAIN clusters[key] :
                  KeyOf(path, policy) = key /\ clusters[key][path] = skeleton[path]
  <2>1. Members(skeleton, policy) \subseteq File
    BY DEF Members, SummaryInit
  <2> QED
    BY <1>2, <2>1 DEF build_clusters
<1>3. DOMAIN <<>> = {}
  OBVIOUS
<1>4. summary = Written(policy) =>
        /\ DOMAIN summary = DOMAIN clusters
        /\ \A key \in DOMAIN clusters :
             DOMAIN summary[key] = Columns /\ summary[key].hash = clusters[key]
  BY DEF Written, Columns
<1>5. fragment = Fragments(policy) =>
        /\ DOMAIN fragment = there
        /\ \A s \in there : /\ fragment[s].fingerprint = skeleton[s[2]]
                            /\ fragment[s].stamp = policy
  BY DEF Fragments
<1> HIDE DEF clusters
<1>6. \A key \in DOMAIN summary : DOMAIN summary[key] = Columns
  BY <1>3, <1>4 DEF SummaryInit
<1>7. Shelved(fragment, policy)
  <2>1. CASE fragment = <<>>
    BY <1>3, <2>1 DEF Shelved
  <2>2. CASE fragment = Fragments(policy)
    BY <1>2, <1>5, <2>2 DEF Shelved
  <2> QED
    BY <2>1, <2>2 DEF SummaryInit
<1>8. ASSUME completed # <<>> PROVE AllBacked(summary, fragment)
  <2>1. summary = Written(policy) /\ fragment = Fragments(policy)
    BY <1>8 DEF SummaryInit
  <2>2. ASSUME NEW key \in DOMAIN clusters PROVE Backed(key, clusters[key], fragment)
    <3>1. \A path \in DOMAIN clusters[key] : <<key, path>> \in there
      BY <1>2
    <3>2. \A s \in there : s[1] = key => s[2] \in DOMAIN clusters[key]
      OBVIOUS
    <3>3. \A path \in DOMAIN clusters[key] :
            fragment[<<key, path>>].fingerprint = clusters[key][path]
      BY <1>2, <1>5, <2>1, <3>1
    <3>4. Own(key, fragment) = DOMAIN clusters[key]
      <4> HIDE DEF there
      <4> QED
        BY <1>5, <2>1, <3>1, <3>2, Owned
    <3> QED
      BY <1>2, <3>3, <3>4 DEF Backed
  <2> QED
    BY <1>4, <2>1, <2>2 DEF AllBacked
<1> QED
  BY <1>1, <1>6, <1>7, <1>8 DEF LayoutInv

LEMMA StepOnLayout ==
  ASSUME LayoutStays, LayoutInv, [SummaryNext]_summaryVars PROVE LayoutInv'
<1>1. ASSUME NEW c \in Client, Tool(c) PROVE LayoutInv'
  BY <1>1, AskingOnLayout, ListOnLayout, BundleOnLayout, CommitOnLayout, VectorsOnLayout,
     PruneOnLayout DEF Tool
<1>2. CASE \E f \in File : Reindex(f)
  BY <1>2 DEF Reindex, tables, LayoutInv
<1>3. CASE SetPolicy
  BY <1>3, NobodyMoves
<1>4. CASE UNCHANGED summaryVars
  BY <1>4 DEF summaryVars, world, tables, LayoutInv
<1> QED
  BY <1>1, <1>2, <1>3, <1>4 DEF SummaryNext

LEMMA NothingLeft ==
  ASSUME LayoutInv PROVE NothingLeftIsFinished
<1> DEFINE state == _summary_state(policy)
           clusters == build_clusters(skeleton, policy)
<1>1. state.layout = policy /\ state.clusters = clusters
  BY DEF _summary_state
<1> HIDE DEF state, clusters
<1>2. ASSUME ToRebuild(state) = {}, NEW key \in DOMAIN clusters
      PROVE  has_complete_fragment_generation(key, clusters[key], fragment, policy)
  <2> DEFINE current == clusters[key]
             flags == _cluster_generation_flags(key, current, fragment, completed, policy)
             complete == has_complete_fragment_generation(key, current, fragment, policy)
  <2>1. ~Stale(state, key) /\ ~flags.bootstrap
    BY <1>1, <1>2 DEF ToRebuild
  <2>2. CASE completed = <<>>
    <3>1. flags.bootstrap = (completed = <<>> /\ ~complete)
      BY DEF _cluster_generation_flags
    <3> QED
      BY <2>1, <2>2, <3>1
  <2>3. CASE completed # <<>>
    <3>1. key \in DOMAIN summary /\ summary[key].hash = current
      BY <1>1, <2>1 DEF Stale
    <3>2. Backed(key, current, fragment) /\ Shelved(fragment, policy)
      BY <2>3, <3>1 DEF LayoutInv, AllBacked
    <3> HIDE DEF current
    <3>3. ASSUME NEW path \in DOMAIN current PROVE fragment[<<key, path>>].stamp = policy
      <4>1. PICK s \in DOMAIN fragment : s[1] = key /\ s[2] = path
        BY <3>2 DEF Backed, Own
      <4> QED
        BY <3>2, <4>1 DEF Shelved
    <3>4. complete
      BY <3>2, <3>3 DEF Backed, has_complete_fragment_generation
    <3> QED
      BY <3>4 DEF current
  <2> QED
    BY <2>2, <2>3
<1> QED
  BY <1>1, <1>2 DEF NothingLeftIsFinished, state

(* While the layout stays, an index of which nothing is left to list is    *)
(* one whose prune goes through: whoever committed a bundle, pruned or     *)
(* indexed in between, no cluster counts as fresh that lacks the fragment  *)
(* of a file (list_subsystem_clusters, commit_summary_bundle,              *)
(* has_complete_fragment_generation).                                      *)
THEOREM NothingLeftFinishes ==
  ASSUME LayoutStays PROVE SummarySpec => []NothingLeftIsFinished
<1>1. SummaryInit => LayoutInv
  BY StartOnLayout
<1>2. LayoutInv /\ [SummaryNext]_summaryVars => LayoutInv'
  BY StepOnLayout
<1>3. LayoutInv => NothingLeftIsFinished
  BY NothingLeft
<1> QED
  BY <1>1, <1>2, <1>3, PTL DEF SummarySpec

-----------------------------------------------------------------------------
(* The code graph                                                          *)

\* what a commit may consist of
Versions == UNION { SourcesOf[path] : path \in DOMAIN SourcesOf }
Trees == { tree \in UNION { [paths -> Versions] : paths \in SUBSET DOMAIN SourcesOf } :
             \A path \in DOMAIN tree : tree[path] \in SourcesOf[path] }

Relations == {"CALLS", "IMPLEMENTS"}

SameFile(path, was, is) ==
  /\ path \in DOMAIN was <=> path \in DOMAIN is
  /\ path \in DOMAIN is => was[path] = is[path]

\* some commit between the two has another version of the file, or none
Touched(path, commits, from, to) ==
  \E c \in from..to : path \notin DOMAIN commits[c]
                      \/ commits[c][path] # commits[from][path]

\* the source the edge starts in refers to the symbol it ends in
Grounded(e, files) ==
  LET source == files[e[1][1]]
  IN  /\ e[1][1] \in DOMAIN files
      /\ \E name \in {e[3][2]} \cup { n \in DOMAIN source.names :
                                         source.names[n][2] = e[3][2] } :
            Refers(source, e[1][2], e[2], name)

Untouched(e, commits, from, to) ==
  \A c \in from..to :
    /\ e[1][1] \in DOMAIN commits[c]
    /\ commits[c][e[1][1]] = commits[from][e[1][1]]
    /\ e[3] \in GraphNodes(commits[c])

\* the patch has the files at `is' that differ from those of some earlier commit
Carries(j, is) ==
  /\ j.changed = [path \in DOMAIN j.changed |-> is[path]]
  /\ DOMAIN j.changed \subseteq DOMAIN is /\ j.gone \cap DOMAIN is = {}

Differing(j) == DOMAIN j.changed \cup j.gone

Parsed(j) ==
  /\ j.built.nodes = GraphNodes(j.changed)
  /\ \A e \in j.built.edges : Grounded(e, j.changed)

GraphFields == {"pc", "to", "changed", "gone", "built", "stale"}
Pcs == {"rest", "meta", "gone", "parse", "stale", "calls", "implements",
        "clear", "nodes", "edges"}

\* A rebuild has no changed files; a patch that gets as far has some.
Rebuilding(j) == j.pc = "clear" \/ (j.pc \in {"nodes", "edges"} /\ DOMAIN j.changed = {})

JobOK(j, top, index) ==
  /\ DOMAIN j = GraphFields /\ j.pc \in Pcs /\ j.to \in 0..top
  /\ j.pc = "rest" => j = AtRest
  /\ j.pc = "meta" => j.to \in 1..top /\ index \in 1..top /\ j.to # index
  /\ j.pc \in {"parse", "stale", "calls", "implements"} => DOMAIN j.changed # {}
  /\ j.pc \in {"stale", "calls", "implements", "clear", "nodes", "edges"} =>
       /\ \A s \in j.built.nodes : s = <<s[1], s[2]>>
       /\ \A e \in j.built.edges : e[2] \in Relations

\* a rebuild starts from nothing and comes to what the builder says
RebuildOK(j, here, joined, index, commits) ==
  /\ j.to = index /\ index \in 1..Len(commits) /\ DOMAIN j.changed = {}
  /\ j.built = build_graph_from_files(commits[index], {})
  /\ j.pc = "nodes" => here = {} /\ joined = {}
  /\ j.pc = "edges" => here = GraphNodes(commits[index]) /\ joined = {}

\* what an edge at a stage of the patch still needs a reference for
Sound(j, e, is) ==
  \/ Grounded(e, is)
  \/ /\ e[1][1] \in Differing(j)
     /\ \/ j.pc \in {"gone", "parse", "stale", "calls"}
        \/ j.pc = "implements" /\ e[2] = "IMPLEMENTS"

\* The symbols outside the files of the patch are those of the index; those
\* of removed files, then those that are no longer defined, are gone.
Placed(j, s, here, is) ==
  /\ s[1] \notin Differing(j) => (s \in here <=> s \in GraphNodes(is))
  /\ j.pc # "gone" /\ s \in here => s[1] \notin j.gone
  /\ j.pc \in {"calls", "implements", "nodes"} /\ s \in here => s \in GraphNodes(is)

PatchOK(j, here, joined, index, from, commits) ==
  LET is == commits[index]
  IN  /\ Carries(j, is)
      /\ \A path \in Differing(j) : Touched(path, commits, from, index)
      /\ j.pc \in {"stale", "calls", "implements", "nodes", "edges"} => Parsed(j)
      /\ j.pc = "stale" =>
           j.stale = { s \in here : s[1] \in DOMAIN j.changed } \ j.built.nodes
      /\ \A s \in here \cup GraphNodes(is) : j.pc # "edges" => Placed(j, s, here, is)
      /\ j.pc = "edges" => here = GraphNodes(is)
      /\ \A e \in joined : Sound(j, e, is)

\* index_meta has not moved yet
Aimed(j, index, commits) ==
  LET was == commits[index]
      is == commits[j.to]
  IN  j.to > index =>
        /\ Carries(j, is)
        /\ \A path \in DOMAIN SourcesOf : path \in Differing(j) <=> ~SameFile(path, was, is)
        /\ Differing(j) \subseteq DOMAIN SourcesOf

\* between two jobs the graph is of the indexed commit, but for missing edges
Mirrors(here, joined, files) ==
  /\ here = GraphNodes(files)
  /\ \A e \in joined : Grounded(e, files)

\* the edges of the last rebuild that no commit since has touched
Standing(joined, from, index, commits) ==
  \A e \in build_graph_from_files(commits[from], {}).edges :
    Untouched(e, commits, from, index) => e \in joined

\* a graph that did not go astray follows the index through every statement
Following(j, here, joined, index, from, commits) ==
  /\ from \in 1..index
  /\ Standing(joined, from, index, commits)
  /\ j.pc \in {"rest", "meta"} => Mirrors(here, joined, commits[index])
  /\ j.pc = "meta" => Aimed(j, index, commits)
  /\ j.pc \notin {"rest", "meta"} => PatchOK(j, here, joined, index, from, commits)

GraphOK(here, joined) ==
  /\ \A s \in here : s = <<s[1], s[2]>>
  /\ \A e \in joined : e[2] \in Relations /\ e[1] \in here /\ e[3] \in here

GraphInv ==
  /\ history \in Seq(Trees) /\ Tip \in Nat \ {0}
  /\ meta \in 0..Tip /\ rebuilt \in 0..Tip
  /\ faults \in 0..MaxFaults /\ astray \in BOOLEAN
  /\ GraphOK(nodes, edges) /\ JobOK(job, Tip, meta)
  /\ Rebuilding(job) => astray /\ RebuildOK(job, nodes, edges, meta, history)
  /\ ~astray => Following(job, nodes, edges, meta, rebuilt, history)

-----------------------------------------------------------------------------
(* Lemmas about the builder                                                *)

LEMMA SymbolsOf ==
  ASSUME NEW files, NEW s
  PROVE  s \in GraphNodes(files) <=>
           \E path \in DOMAIN files : \E name \in files[path].defs : s = <<path, name>>
BY DEF GraphNodes

LEMMA SymbolParts ==
  ASSUME NEW files, NEW s \in GraphNodes(files)
  PROVE  s = <<s[1], s[2]>> /\ s[1] \in DOMAIN files /\ s[2] \in files[s[1]].defs
BY SymbolsOf

\* whatever a name is resolved to has that name, or the one it was imported as
LEMMA ResolvedName ==
  ASSUME NEW name, NEW path, NEW files, NEW anywhere,
         \A s \in anywhere : s[2] = name,
         NEW s \in Resolve(name, path, files, anywhere)
  PROVE  \/ s[2] = name
         \/ name \in DOMAIN files[path].names /\ files[path].names[name][2] = s[2]
<1>1. CASE name \in files[path].defs
  BY <1>1 DEF Resolve
<1>2. CASE name \notin files[path].defs /\ name \in DOMAIN files[path].names
  <2>1. s \in Imported(name, files[path], files)
    BY <1>2 DEF Resolve
  <2> QED
    BY <1>2, <2>1 DEF Imported, _symbols_named
<1>3. CASE name \notin files[path].defs /\ name \notin DOMAIN files[path].names
  <2>1. s \in FromStars(name, files[path].stars, files) \/ s \in anywhere
    BY <1>3 DEF Resolve
  <2>2. ASSUME s \in FromStars(name, files[path].stars, files) PROVE s[2] = name
    <3> DEFINE hits(module) == UNION { _symbols_named(name, target, files) :
                                         target \in _resolve_module(module, files) }
               found == SelectSeq(files[path].stars, LAMBDA module : hits(module) # {})
    <3>1. s \in IF found = <<>> THEN {} ELSE hits(found[1])
      BY <2>2 DEF FromStars
    <3>2. PICK module : s \in hits(module)
      <4> HIDE DEF hits, found
      <4> QED
        BY <3>1
    <3> QED
      BY <3>2 DEF _symbols_named
  <2> QED
    BY <2>1, <2>2
<1> QED
  BY <1>1, <1>2, <1>3

LEMMA EdgeOfBase ==
  ASSUME NEW files, NEW known, NEW e \in extract_inheritance_edges(files, known)
  PROVE  /\ e[2] = "IMPLEMENTS" /\ Grounded(e, files)
         /\ \E path \in DOMAIN files : \E base \in files[path].bases :
              e[1] = <<path, base.by>>
<1>1. PICK path \in DOMAIN files :
        \E base \in files[path].bases :
          \E s \in _resolve_base(base.name, path, files, known) :
            e = <<<<path, base.by>>, "IMPLEMENTS", s>>
  BY DEF extract_inheritance_edges
<1>2. PICK base \in files[path].bases :
        \E s \in _resolve_base(base.name, path, files, known) :
          e = <<<<path, base.by>>, "IMPLEMENTS", s>>
  BY <1>1
<1>3. PICK s \in _resolve_base(base.name, path, files, known) :
        e = <<<<path, base.by>>, "IMPLEMENTS", s>>
  BY <1>2
<1> DEFINE anywhere == Anywhere(base.name, files) \cup { t \in known : t[2] = base.name }
<1>4. \A t \in anywhere : t[2] = base.name
  BY DEF Anywhere
<1>5. s \in Resolve(base.name, path, files, anywhere)
  BY DEF _resolve_base
<1>6. \/ s[2] = base.name
      \/ base.name \in DOMAIN files[path].names /\ files[path].names[base.name][2] = s[2]
  <2> HIDE DEF anywhere
  <2> QED
    BY <1>4, <1>5, ResolvedName
<1>7. Refers(files[path], base.by, "IMPLEMENTS", base.name)
  BY DEF Refers
<1> QED
  BY <1>3, <1>6, <1>7 DEF Grounded

LEMMA EdgeOfCall ==
  ASSUME NEW files, NEW path \in DOMAIN files, NEW call \in files[path].calls,
         NEW s \in _resolve_call(call, path, files), NEW e,
         e = <<<<path, call.by>>, "CALLS", s>>
  PROVE  Grounded(e, files)
<1>1. \/ s[2] = call.name
      \/ call.name \in DOMAIN files[path].names /\ files[path].names[call.name][2] = s[2]
  <2>1. CASE call.on \in DOMAIN files[path].modules
    BY <2>1 DEF _resolve_call, _symbols_named
  <2>2. CASE call.on \notin DOMAIN files[path].modules
    <3>1. s \in Resolve(call.name, path, files, Anywhere(call.name, files))
      BY <2>2 DEF _resolve_call
    <3>2. \A t \in Anywhere(call.name, files) : t[2] = call.name
      BY DEF Anywhere
    <3> QED
      BY <3>1, <3>2, ResolvedName
  <2> QED
    BY <2>1, <2>2
<1>2. Refers(files[path], call.by, "CALLS", call.name)
  BY DEF Refers
<1> QED
  BY <1>1, <1>2 DEF Grounded

\* every edge the builder finds has a reference in its sources
LEMMA Built ==
  ASSUME NEW files, NEW known
  PROVE  LET built == build_graph_from_files(files, known)
         IN  /\ built.nodes = GraphNodes(files)
             /\ \A e \in built.edges :
                  /\ e[2] \in Relations /\ Grounded(e, files)
                  /\ \E path \in DOMAIN files :
                       \E r \in files[path].calls \cup files[path].bases :
                         e[1] = <<path, r.by>>
<1> DEFINE calls == UNION { UNION { { <<<<path, call.by>>, "CALLS", s>> :
                            s \in _resolve_call(call, path, files) \ {<<path, call.by>>} } :
                        call \in files[path].calls } : path \in DOMAIN files }
<1>1. ASSUME NEW e \in calls
      PROVE  /\ e[2] \in Relations /\ Grounded(e, files)
             /\ \E path \in DOMAIN files :
                  \E r \in files[path].calls \cup files[path].bases : e[1] = <<path, r.by>>
  <2>1. PICK path \in DOMAIN files :
          \E call \in files[path].calls : \E s \in _resolve_call(call, path, files) :
            e = <<<<path, call.by>>, "CALLS", s>>
    BY <1>1
  <2>2. PICK call \in files[path].calls :
          \E s \in _resolve_call(call, path, files) : e = <<<<path, call.by>>, "CALLS", s>>
    BY <2>1
  <2>3. Grounded(e, files)
    BY <2>2, EdgeOfCall
  <2>4. e[1] = <<path, call.by>> /\ e[2] = "CALLS"
    BY <2>2
  <2> QED
    BY <2>3, <2>4 DEF Relations
<1>2. ASSUME NEW e \in extract_inheritance_edges(files, known)
      PROVE  /\ e[2] \in Relations /\ Grounded(e, files)
             /\ \E path \in DOMAIN files :
                  \E r \in files[path].calls \cup files[path].bases : e[1] = <<path, r.by>>
  BY <1>2, EdgeOfBase DEF Relations
<1>3. PICK built : built = build_graph_from_files(files, known)
  OBVIOUS
<1>4. built.nodes = GraphNodes(files)
      /\ built.edges = extract_inheritance_edges(files, known) \cup calls
  BY <1>3 DEF build_graph_from_files
<1> HIDE DEF calls
<1> QED
  BY <1>1, <1>2, <1>3, <1>4

LEMMA BuiltFrom ==
  ASSUME NEW files \in Trees, NEW known,
         NEW e \in build_graph_from_files(files, known).edges
  PROVE  e[1] \in GraphNodes(files)
<1>1. PICK path \in DOMAIN files :
        \E r \in files[path].calls \cup files[path].bases : e[1] = <<path, r.by>>
  BY Built
<1>2. path \in DOMAIN SourcesOf /\ files[path] \in SourcesOf[path]
  BY DEF Trees
<1>3. PICK r \in files[path].calls \cup files[path].bases : e[1] = <<path, r.by>>
  BY <1>1
<1>4. r.by \in files[path].defs
  BY <1>2, ReferrersAreDefined
<1> QED
  BY <1>3, <1>4, SymbolsOf

-----------------------------------------------------------------------------
(* Lemmas about what a patch carries                                       *)

LEMMA Carried ==
  ASSUME NEW j, NEW is, Carries(j, is)
  PROVE  /\ \A s : s \in GraphNodes(j.changed) <=>
                     s \in GraphNodes(is) /\ s[1] \in DOMAIN j.changed
         /\ \A e : Grounded(e, j.changed) => Grounded(e, is) /\ e[1][1] \in DOMAIN j.changed
<1>1. \A path \in DOMAIN j.changed : path \in DOMAIN is /\ j.changed[path] = is[path]
  BY DEF Carries
<1>2. ASSUME NEW s
      PROVE  s \in GraphNodes(j.changed) <=>
               s \in GraphNodes(is) /\ s[1] \in DOMAIN j.changed
  <2>1. ASSUME s \in GraphNodes(j.changed)
        PROVE  s \in GraphNodes(is) /\ s[1] \in DOMAIN j.changed
    BY <1>1, <2>1, SymbolsOf
  <2>2. ASSUME s \in GraphNodes(is), s[1] \in DOMAIN j.changed
        PROVE  s \in GraphNodes(j.changed)
    BY <1>1, <2>2, SymbolsOf
  <2> QED
    BY <2>1, <2>2
<1>3. ASSUME NEW e, Grounded(e, j.changed)
      PROVE  Grounded(e, is) /\ e[1][1] \in DOMAIN j.changed
  BY <1>1, <1>3 DEF Grounded
<1> QED
  BY <1>2, <1>3

LEMMA Grown ==
  ASSUME NEW h \in Seq(Trees), NEW tree \in Trees
  PROVE  /\ Append(h, tree) \in Seq(Trees) /\ Len(Append(h, tree)) = Len(h) + 1
         /\ \A c \in 1..Len(h) : Append(h, tree)[c] = h[c]
OBVIOUS

LEMMA Version ==
  ASSUME NEW h \in Seq(Trees), NEW c \in 1..Len(h)
  PROVE  h[c] \in Trees
OBVIOUS

-----------------------------------------------------------------------------
(* Steps                                                                   *)

LEMMA MovedOn ==
  ASSUME NEW j, DOMAIN j = GraphFields, NEW pc
  PROVE  LET k == [j EXCEPT !.pc = pc]
         IN  /\ DOMAIN k = GraphFields /\ k.pc = pc /\ k.to = j.to
             /\ k.changed = j.changed /\ k.gone = j.gone
             /\ k.built = j.built /\ k.stale = j.stale
BY DEF GraphFields

LEMMA Resting ==
  /\ DOMAIN AtRest = GraphFields /\ AtRest.pc = "rest" /\ AtRest.to = 0
  /\ ~Rebuilding(AtRest) /\ \A top \in Nat : \A index : JobOK(AtRest, top, index)
<1>1. DOMAIN AtRest = GraphFields /\ AtRest.pc = "rest" /\ AtRest.to = 0
  BY DEF AtRest, GraphFields
<1> QED
  BY <1>1 DEF JobOK, Rebuilding, Pcs

\* only commits up to the index matter, or up to the one the patch aims at
LEMMA FollowingOlder ==
  ASSUME NEW j, NEW here, NEW joined, NEW top \in Nat, NEW index \in 0..top, NEW from,
         NEW h, NEW g, \A c \in 1..top : g[c] = h[c],
         j.pc = "meta" => j.to \in 1..top,
         Following(j, here, joined, index, from, h)
  PROVE  Following(j, here, joined, index, from, g)
<1>1. from \in 1..index /\ index \in 1..top /\ from \in 1..top
  BY DEF Following
<1>2. g[index] = h[index] /\ g[from] = h[from] /\ (j.pc = "meta" => g[j.to] = h[j.to])
  BY <1>1
<1>3. \A c \in from..index : g[c] = h[c]
  BY <1>1
<1>4. Standing(joined, from, index, g)
  <2>1. ASSUME NEW e, Untouched(e, g, from, index) PROVE Untouched(e, h, from, index)
    BY <1>2, <1>3, <2>1 DEF Untouched
  <2> QED
    BY <1>2, <2>1 DEF Following, Standing
<1>5. j.pc \in {"rest", "meta"} => Mirrors(here, joined, g[index])
  BY <1>2 DEF Following
<1>6. j.pc = "meta" => Aimed(j, index, g)
  BY <1>2 DEF Following, Aimed
<1>7. ASSUME j.pc \notin {"rest", "meta"}
      PROVE  PatchOK(j, here, joined, index, from, g)
  <2>1. PatchOK(j, here, joined, index, from, h)
    BY <1>7 DEF Following
  <2>2. \A path \in Differing(j) : Touched(path, g, from, index)
    BY <2>1, <1>2, <1>3 DEF PatchOK, Touched
  <2> QED
    BY <2>1, <2>2, <1>2 DEF PatchOK
<1> QED
  BY <1>1, <1>4, <1>5, <1>6, <1>7 DEF Following

LEMMA BranchStep ==
  ASSUME GraphInv, NEW path \in DOMAIN SourcesOf, Commit(path)
  PROVE  GraphInv'
<1> DEFINE files == history[Tip]
           others == Restrict(files, DOMAIN files \ {path})
           with(source) == [p \in DOMAIN files \cup {path} |->
                              IF p = path THEN source ELSE files[p]]
<1>1. PICK tree \in { with(source) : source \in SourcesOf[path] } \cup {others} :
        history' = Append(history, tree)
  BY DEF Commit
<1>2. UNCHANGED <<meta, nodes, edges, job, faults, rebuilt, astray>>
  BY DEF Commit
<1>3. /\ history \in Seq(Trees) /\ Tip \in Nat \ {0} /\ meta \in 0..Tip /\ rebuilt \in 0..Tip
      /\ JobOK(job, Tip, meta)
  BY DEF GraphInv
<1>4. files \in Trees
  BY <1>3, Version DEF Tip
<1>5. tree \in Trees
  <2>1. others \in Trees
    BY <1>4 DEF Trees, Restrict
  <2>2. ASSUME NEW source \in SourcesOf[path] PROVE with(source) \in Trees
    <3>1. source \in Versions
      BY DEF Versions
    <3>2. DOMAIN with(source) \subseteq DOMAIN SourcesOf
      BY <1>4 DEF Trees
    <3>3. \A p \in DOMAIN with(source) : with(source)[p] \in SourcesOf[p]
      BY <1>4 DEF Trees
    <3>4. with(source) \in [DOMAIN with(source) -> Versions]
      BY <3>2, <3>3 DEF Versions
    <3> QED
      BY <3>2, <3>3, <3>4 DEF Trees
  <2> HIDE DEF with, others
  <2> QED
    BY <1>1, <2>1, <2>2
<1> HIDE DEF files, others, with
<1>6. /\ history' \in Seq(Trees) /\ Tip' = Tip + 1
      /\ \A c \in 1..Tip : history'[c] = history[c]
  BY <1>1, <1>3, <1>5, Grown DEF Tip
<1>7. JobOK(job, Tip', meta)
  BY <1>3, <1>6 DEF JobOK
<1>8. ASSUME Rebuilding(job)
      PROVE  astray /\ RebuildOK(job, nodes, edges, meta, history')
  <2>1. astray /\ RebuildOK(job, nodes, edges, meta, history)
    BY <1>8 DEF GraphInv
  <2>2. meta \in 1..Tip /\ meta \in 1..Len(history') /\ history'[meta] = history[meta]
    BY <1>3, <1>6, <2>1 DEF RebuildOK, Tip
  <2> QED
    BY <2>1, <2>2 DEF RebuildOK
<1>9. ASSUME ~astray PROVE Following(job, nodes, edges, meta, rebuilt, history')
  <2>1. Following(job, nodes, edges, meta, rebuilt, history)
    BY <1>9 DEF GraphInv
  <2>2. job.pc = "meta" => job.to \in 1..Tip
    BY <1>3 DEF JobOK
  <2>3. Tip \in Nat
    BY <1>3
  <2> QED
    BY <1>3, <1>6, <2>1, <2>2, <2>3, FollowingOlder
<1>10. Tip' \in Nat \ {0} /\ meta \in 0..Tip' /\ rebuilt \in 0..Tip'
  BY <1>3, <1>6
<1> QED
  BY <1>2, <1>6, <1>7, <1>8, <1>9, <1>10 DEF GraphInv

\* the files of a patch, as they are before index_meta moves
LEMMA PrepareStep ==
  ASSUME GraphInv, Prepare PROVE GraphInv'
<1>1. PICK to \in (1..Tip) \ {meta} :
        LET paths == Differ(meta, to)
        IN  job' = [AtRest EXCEPT
              !.pc = "meta", !.to = to,
              !.changed = Restrict(history[to], paths \cap DOMAIN history[to]),
              !.gone = paths \ DOMAIN history[to]]
  BY DEF Prepare
<1>2. /\ UNCHANGED <<history, meta, nodes, edges, faults, rebuilt, astray>>
      /\ job = AtRest /\ meta # 0
  BY DEF Prepare
<1>3. PICK paths : paths = Differ(meta, to)
  OBVIOUS
<1>4. PICK is : is = history[to]
  OBVIOUS
<1>5. /\ DOMAIN job' = GraphFields /\ job'.pc = "meta" /\ job'.to = to
      /\ job'.changed = Restrict(is, paths \cap DOMAIN is)
      /\ job'.gone = paths \ DOMAIN is
  BY <1>1, <1>3, <1>4 DEF AtRest, GraphFields
<1>6. /\ history \in Seq(Trees) /\ Tip \in Nat \ {0} /\ meta \in 1..Tip
      /\ job'.to \in 0..Tip /\ UNCHANGED Tip
  BY <1>1, <1>2, <1>5 DEF GraphInv, Tip
<1>7. JobOK(job', Tip', meta') /\ ~Rebuilding(job')
  BY <1>1, <1>2, <1>5, <1>6 DEF JobOK, Rebuilding, Pcs
<1>8. ASSUME ~astray PROVE Following(job', nodes, edges, meta, rebuilt, history)
  <2>1. Following(job, nodes, edges, meta, rebuilt, history)
    BY <1>8 DEF GraphInv
  <2>2. Mirrors(nodes, edges, history[meta])
    BY <1>2, <2>1, Resting DEF Following
  <2>3. DOMAIN job'.changed = paths \cap DOMAIN is
    BY <1>5 DEF Restrict
  <2>4. Differing(job') = paths
    BY <1>5, <2>3 DEF Differing
  <2>5. Carries(job', is)
    <3>1. DOMAIN job'.changed \subseteq DOMAIN is /\ job'.gone \cap DOMAIN is = {}
      BY <1>5, <2>3
    <3>2. job'.changed = [path \in DOMAIN job'.changed |-> is[path]]
      BY <1>5, <2>3 DEF Restrict
    <3> QED
      BY <3>1, <3>2 DEF Carries
  <2>6. ASSUME to > meta
        PROVE  /\ \A path \in DOMAIN SourcesOf :
                    path \in paths <=> ~SameFile(path, history[meta], is)
               /\ paths \subseteq DOMAIN SourcesOf
    <3>1. paths = { p \in DOMAIN SourcesOf :
                     \/ p \in DOMAIN history[meta] /\ p \notin DOMAIN is
                     \/ p \in DOMAIN is /\ (p \in DOMAIN history[meta] => history[meta][p] # is[p]) }
      BY <1>3, <1>4, <1>6, <2>6 DEF Differ
    <3> QED
      BY <3>1 DEF SameFile
  <2>7. Aimed(job', meta, history)
    BY <1>4, <1>5, <2>4, <2>5, <2>6 DEF Aimed
  <2> QED
    BY <1>5, <2>1, <2>2, <2>7 DEF Following
<1> QED
  BY <1>2, <1>5, <1>6, <1>7, <1>8 DEF GraphInv

\* the files that differ were touched since the last rebuild, too
LEMMA DifferTouched ==
  ASSUME NEW h, NEW from \in Nat, NEW index \in Nat, NEW to \in Nat,
         from \in 1..index, index < to, NEW path, ~SameFile(path, h[index], h[to])
  PROVE  Touched(path, h, from, to)
<1>1. index \in from..to /\ to \in from..to
  OBVIOUS
<1> QED
  BY <1>1 DEF SameFile, Touched

LEMMA SetMetaStep ==
  ASSUME GraphInv, SetMeta PROVE GraphInv'
<1>1. /\ job.pc = "meta" /\ meta' = job.to /\ astray' = (astray \/ job.to < meta)
      /\ job' = [job EXCEPT !.pc = "gone"]
      /\ UNCHANGED <<history, nodes, edges, faults, rebuilt>>
  BY DEF SetMeta, In, Goto
<1>2. /\ history \in Seq(Trees) /\ Tip \in Nat \ {0} /\ meta \in 1..Tip /\ job.to \in 1..Tip
      /\ job.to # meta /\ DOMAIN job = GraphFields /\ UNCHANGED Tip
  BY <1>1 DEF GraphInv, JobOK, Tip
<1>3. /\ DOMAIN job' = GraphFields /\ job'.pc = "gone" /\ job'.to = job.to
      /\ job'.changed = job.changed /\ job'.gone = job.gone
  BY <1>1, <1>2, MovedOn
<1>4. JobOK(job', Tip', meta') /\ ~Rebuilding(job')
  BY <1>2, <1>3 DEF JobOK, Rebuilding, Pcs
<1>5. ASSUME ~astray' PROVE Following(job', nodes, edges, meta', rebuilt, history)
  <2>1. ~astray /\ job.to > meta
    <3>1. ~astray /\ ~(job.to < meta)
      BY <1>1, <1>5, Zenon
    <3>2. job.to \in Nat /\ meta \in Nat
      BY <1>2
    <3> QED
      BY <1>2, <3>1, <3>2
  <2>2. Following(job, nodes, edges, meta, rebuilt, history)
    BY <2>1 DEF GraphInv
  <2>3. rebuilt \in 1..meta /\ rebuilt \in 1..job.to /\ rebuilt \in Nat
    BY <1>2, <2>1, <2>2 DEF Following
  <2>4. Mirrors(nodes, edges, history[meta]) /\ Aimed(job, meta, history)
    BY <1>1, <2>2 DEF Following
  <2>5. PICK was : was = history[meta]
    OBVIOUS
  <2>6. PICK is : is = history[job.to]
    OBVIOUS
  <2>7. was \in Trees /\ is \in Trees
    BY <1>2, <2>5, <2>6, Version DEF Tip
  <2>8. /\ Carries(job', is) /\ Differing(job') \subseteq DOMAIN SourcesOf
        /\ \A path \in DOMAIN SourcesOf : path \in Differing(job') <=> ~SameFile(path, was, is)
    BY <1>3, <2>1, <2>4, <2>5, <2>6 DEF Aimed, Carries, Differing
  <2>9. \A path \in DOMAIN was \cup DOMAIN is :
          path \notin Differing(job') => SameFile(path, was, is)
    BY <2>7, <2>8 DEF Trees
  <2>10. Standing(edges, rebuilt, job.to, history)
    <3>1. ASSUME NEW e, Untouched(e, history, rebuilt, job.to)
          PROVE  Untouched(e, history, rebuilt, meta)
      BY <1>2, <2>1, <2>3, <3>1 DEF Untouched
    <3> QED
      BY <2>2, <3>1 DEF Following, Standing
  <2>11. \A path \in Differing(job') : Touched(path, history, rebuilt, job.to)
    BY <1>2, <2>1, <2>3, <2>5, <2>6, <2>8, DifferTouched
  <2>12. ASSUME NEW s \in nodes \cup GraphNodes(is) PROVE Placed(job', s, nodes, is)
    <3>1. s \in GraphNodes(was) \/ s \in GraphNodes(is)
      BY <2>4, <2>5 DEF Mirrors
    <3>2. ASSUME s[1] \notin Differing(job')
          PROVE  s \in GraphNodes(was) <=> s \in GraphNodes(is)
      <4>1. SameFile(s[1], was, is)
        BY <2>9, <3>1, <3>2, SymbolParts
      <4> QED
        BY <4>1, SymbolsOf DEF SameFile
    <3> QED
      BY <1>3, <2>4, <2>5, <3>2 DEF Mirrors, Placed
  <2>13. ASSUME NEW e \in edges PROVE Sound(job', e, is)
    <3>1. Grounded(e, was)
      BY <2>4, <2>5 DEF Mirrors
    <3>2. CASE e[1][1] \in Differing(job')
      BY <1>3, <3>2 DEF Sound
    <3>3. CASE e[1][1] \notin Differing(job')
      <4>1. SameFile(e[1][1], was, is) /\ e[1][1] \in DOMAIN was
        BY <2>9, <3>1, <3>3 DEF Grounded
      <4>2. e[1][1] \in DOMAIN is /\ was[e[1][1]] = is[e[1][1]]
        BY <4>1 DEF SameFile
      <4>3. Grounded(e, is)
        BY <3>1, <4>2 DEF Grounded
      <4> QED
        BY <4>3 DEF Sound
    <3> QED
      BY <3>2, <3>3
  <2>14. PatchOK(job', nodes, edges, job.to, rebuilt, history)
    BY <1>3, <2>6, <2>8, <2>11, <2>12, <2>13 DEF PatchOK
  <2> QED
    BY <1>1, <1>3, <2>3, <2>10, <2>14 DEF Following
<1>6. astray' \in BOOLEAN
  BY <1>1 DEF GraphInv
<1> QED
  BY <1>1, <1>2, <1>4, <1>5, <1>6 DEF GraphInv

LEMMA PatchTurn ==
  ASSUME GraphInv, UNCHANGED <<history, meta, faults, rebuilt, astray>>,
         GraphOK(nodes', edges'), JobOK(job', Tip, meta),
         Rebuilding(job') => astray /\ RebuildOK(job', nodes', edges', meta, history),
         ~astray => Following(job', nodes', edges', meta, rebuilt, history)
  PROVE  GraphInv'
BY DEF GraphInv, Tip

\* while a patch is under way and nothing went astray
LEMMA UnderWay ==
  ASSUME GraphInv, ~astray, job.pc \notin {"rest", "meta"}
  PROVE  /\ rebuilt \in 1..meta /\ meta \in 1..Tip
         /\ PatchOK(job, nodes, edges, meta, rebuilt, history)
         /\ Standing(edges, rebuilt, meta, history)
         /\ GraphOK(nodes, edges) /\ Carries(job, history[meta])
<1>1. Following(job, nodes, edges, meta, rebuilt, history)
  BY DEF GraphInv
<1>2. Tip \in Nat /\ meta \in 0..Tip
  BY DEF GraphInv
<1> QED
  BY <1>1, <1>2 DEF Following, PatchOK, GraphInv

\* what was not touched is not in the files of the patch
LEMMA Untaken ==
  ASSUME NEW j, NEW commits, NEW from \in Nat, NEW index \in Nat, from \in 1..index,
         \A path \in Differing(j) : Touched(path, commits, from, index),
         NEW e, Untouched(e, commits, from, index)
  PROVE  e[1][1] \notin Differing(j) /\ e[3] \in GraphNodes(commits[index])
<1>1. e[3] \in GraphNodes(commits[index])
  BY DEF Untouched
<1>2. ~Touched(e[1][1], commits, from, index)
  BY DEF Untouched, Touched
<1> QED
  BY <1>1, <1>2

LEMMA Detached ==
  ASSUME GraphInv, NEW symbols, DetachDelete(symbols)
  PROVE  GraphOK(nodes', edges')
BY DEF GraphInv, GraphOK, DetachDelete

LEMMA RemovedStep ==
  ASSUME GraphInv, delete_removed PROVE GraphInv'
<1>1. /\ job.pc = "gone" /\ nodes' = nodes \ Of(job.gone)
      /\ edges' = { e \in edges : e[1] \notin Of(job.gone) /\ e[3] \notin Of(job.gone) }
      /\ job' = IF DOMAIN job.changed = {} THEN AtRest ELSE [job EXCEPT !.pc = "parse"]
      /\ UNCHANGED <<history, meta, faults, rebuilt, astray>>
  BY DEF delete_removed, In, DetachDelete
<1>2. GraphOK(nodes', edges')
  BY Detached DEF delete_removed
<1>3. DOMAIN job = GraphFields /\ JobOK(job, Tip, meta) /\ Tip \in Nat
  BY DEF GraphInv, JobOK
<1> DEFINE on == [job EXCEPT !.pc = "parse"]
<1>4. /\ DOMAIN on = GraphFields /\ on.pc = "parse" /\ on.to = job.to
      /\ on.changed = job.changed /\ on.gone = job.gone
  BY <1>3, MovedOn
<1>5. job' = IF DOMAIN job.changed = {} THEN AtRest ELSE on
  BY <1>1
<1> HIDE DEF on
<1>6. JobOK(job', Tip, meta) /\ ~Rebuilding(job')
  <2>1. CASE DOMAIN job.changed = {}
    BY <1>3, <1>5, <2>1, Resting
  <2>2. CASE DOMAIN job.changed # {}
    BY <1>3, <1>4, <1>5, <2>2 DEF JobOK, Rebuilding, Pcs
  <2> QED
    BY <2>1, <2>2
<1>7. ASSUME ~astray PROVE Following(job', nodes', edges', meta, rebuilt, history)
  <2>1. PICK is : is = history[meta]
    OBVIOUS
  <2>2. /\ rebuilt \in 1..meta /\ meta \in Nat /\ rebuilt \in Nat
        /\ PatchOK(job, nodes, edges, meta, rebuilt, history)
        /\ Standing(edges, rebuilt, meta, history) /\ Carries(job, is)
        /\ GraphOK(nodes, edges)
    BY <1>1, <1>7, <2>1, UnderWay
  <2>3. \A path \in Differing(job) : Touched(path, history, rebuilt, meta)
    BY <2>2 DEF PatchOK
  <2>4. Standing(edges', rebuilt, meta, history)
    <3>1. ASSUME NEW e \in edges, Untouched(e, history, rebuilt, meta) PROVE e \in edges'
      <4>1. e[1][1] \notin Differing(job) /\ e[3] \in GraphNodes(is)
        BY <2>1, <2>2, <2>3, <3>1, Untaken
      <4>2. e[3][1] \notin job.gone
        BY <2>2, <4>1, SymbolParts DEF Carries
      <4> QED
        BY <1>1, <4>1, <4>2 DEF Of, Differing
    <3> QED
      BY <2>2, <3>1 DEF Standing
  <2>5. \A s \in nodes' : s \in nodes /\ s[1] \notin job.gone
    BY <1>1 DEF Of
  <2>6. ASSUME NEW s \in nodes' \cup GraphNodes(is), s[1] \notin Differing(job)
        PROVE  s \in nodes' <=> s \in GraphNodes(is)
    <3>1. s \in nodes <=> s \in GraphNodes(is)
      BY <1>1, <2>1, <2>2, <2>5, <2>6 DEF PatchOK, Placed
    <3>2. s \in nodes' <=> s \in nodes
      BY <1>1, <2>6 DEF Of, Differing
    <3> QED
      BY <3>1, <3>2
  <2>7. \A e \in edges' : Sound(job, e, is) /\ e \in edges /\ e[1] \in nodes'
    BY <1>1, <1>2, <2>1, <2>2 DEF PatchOK, GraphOK
  <2>8. CASE DOMAIN job.changed = {}
    <3>1. Differing(job) = job.gone /\ job' = AtRest
      BY <1>5, <2>8 DEF Differing
    <3>2. \A s \in GraphNodes(is) : s[1] \notin job.gone
      BY <2>2, SymbolParts DEF Carries
    <3>3. nodes' = GraphNodes(is)
      BY <2>5, <2>6, <3>1, <3>2
    <3>4. \A e \in edges' : Grounded(e, is)
      BY <2>5, <2>7, <3>1 DEF Sound
    <3>5. Mirrors(nodes', edges', is)
      BY <3>3, <3>4 DEF Mirrors
    <3> QED
      BY <2>1, <2>2, <2>4, <3>1, <3>5, Resting DEF Following
  <2>9. CASE DOMAIN job.changed # {}
    <3>1. job' = on
      BY <1>5, <2>9
    <3>2. Differing(on) = Differing(job) /\ Carries(on, is)
      BY <1>4, <2>2 DEF Differing, Carries
    <3>3. \A s \in nodes' \cup GraphNodes(is) : Placed(on, s, nodes', is)
      BY <1>4, <2>5, <2>6, <3>2 DEF Placed
    <3>4. \A e \in edges' : Sound(on, e, is)
      BY <1>1, <1>4, <2>7, <3>2 DEF Sound
    <3>5. PatchOK(on, nodes', edges', meta, rebuilt, history)
      BY <1>4, <2>1, <2>3, <3>2, <3>3, <3>4 DEF PatchOK
    <3> QED
      BY <1>4, <2>2, <2>4, <3>1, <3>5 DEF Following
  <2> QED
    BY <2>8, <2>9
<1> QED
  BY <1>1, <1>2, <1>6, <1>7, PatchTurn

LEMMA ParseStep ==
  ASSUME GraphInv, parse_changed PROVE GraphInv'
<1>1. PICK built : built = build_graph_from_files(job.changed, nodes)
  OBVIOUS
<1>2. /\ job.pc = "parse"
      /\ job' = [job EXCEPT !.pc = "stale", !.built = built,
                            !.stale = Of(DOMAIN job.changed) \ built.nodes]
      /\ UNCHANGED <<history, meta, nodes, edges, faults, rebuilt, astray>>
  BY <1>1 DEF parse_changed, In
<1>3. DOMAIN job = GraphFields /\ JobOK(job, Tip, meta) /\ DOMAIN job.changed # {}
  BY <1>2 DEF GraphInv, JobOK
<1>4. /\ DOMAIN job' = GraphFields /\ job'.pc = "stale" /\ job'.to = job.to
      /\ job'.changed = job.changed /\ job'.gone = job.gone /\ job'.built = built
      /\ job'.stale = Of(DOMAIN job.changed) \ built.nodes
  BY <1>2, <1>3 DEF GraphFields
<1>5. /\ built.nodes = GraphNodes(job.changed)
      /\ \A e \in built.edges : e[2] \in Relations /\ Grounded(e, job.changed)
  BY <1>1, Built
<1>6. JobOK(job', Tip, meta) /\ ~Rebuilding(job')
  <2>1. \A s \in built.nodes : s = <<s[1], s[2]>>
    BY <1>5, SymbolParts
  <2> QED
    BY <1>3, <1>4, <1>5, <2>1 DEF JobOK, Rebuilding, Pcs
<1>7. GraphOK(nodes', edges')
  BY <1>2 DEF GraphInv
<1>8. ASSUME ~astray PROVE Following(job', nodes, edges, meta, rebuilt, history)
  <2>1. PICK is : is = history[meta]
    OBVIOUS
  <2>2. /\ rebuilt \in 1..meta
        /\ PatchOK(job, nodes, edges, meta, rebuilt, history)
        /\ Standing(edges, rebuilt, meta, history) /\ Carries(job, is)
    BY <1>2, <1>8, <2>1, UnderWay
  <2>3. Differing(job') = Differing(job) /\ Carries(job', is) /\ Parsed(job')
    BY <1>4, <1>5, <2>2 DEF Differing, Carries, Parsed
  <2>4. job'.stale = { s \in nodes : s[1] \in DOMAIN job'.changed } \ job'.built.nodes
    BY <1>4 DEF Of
  <2>5. \A s \in nodes \cup GraphNodes(is) : Placed(job', s, nodes, is)
    BY <1>2, <1>4, <2>1, <2>2, <2>3 DEF PatchOK, Placed
  <2>6. \A e \in edges : Sound(job', e, is)
    BY <1>2, <1>4, <2>1, <2>2, <2>3 DEF PatchOK, Sound
  <2>7. PatchOK(job', nodes, edges, meta, rebuilt, history)
    BY <1>4, <2>1, <2>2, <2>3, <2>4, <2>5, <2>6 DEF PatchOK
  <2> QED
    BY <1>4, <2>2, <2>7 DEF Following
<1> QED
  BY <1>2, <1>6, <1>7, <1>8, PatchTurn

LEMMA StaleStep ==
  ASSUME GraphInv, delete_stale PROVE GraphInv'
<1>1. /\ job.pc = "stale" /\ nodes' = nodes \ job.stale
      /\ edges' = { e \in edges : e[1] \notin job.stale /\ e[3] \notin job.stale }
      /\ job' = [job EXCEPT !.pc = "calls"]
      /\ UNCHANGED <<history, meta, faults, rebuilt, astray>>
  BY DEF delete_stale, In, DetachDelete, Goto
<1>2. GraphOK(nodes', edges')
  BY Detached DEF delete_stale
<1>3. DOMAIN job = GraphFields /\ JobOK(job, Tip, meta)
  BY DEF GraphInv, JobOK
<1>4. /\ DOMAIN job' = GraphFields /\ job'.pc = "calls" /\ job'.to = job.to
      /\ job'.changed = job.changed /\ job'.gone = job.gone /\ job'.built = job.built
  BY <1>1, <1>3, MovedOn
<1>5. JobOK(job', Tip, meta) /\ ~Rebuilding(job')
  BY <1>1, <1>3, <1>4 DEF JobOK, Rebuilding, Pcs
<1>6. ASSUME ~astray PROVE Following(job', nodes', edges', meta, rebuilt, history)
  <2>1. PICK is : is = history[meta]
    OBVIOUS
  <2>2. /\ rebuilt \in 1..meta /\ meta \in Nat /\ rebuilt \in Nat
        /\ PatchOK(job, nodes, edges, meta, rebuilt, history)
        /\ Standing(edges, rebuilt, meta, history) /\ Carries(job, is)
    BY <1>1, <1>6, <2>1, UnderWay
  <2>3. /\ \A path \in Differing(job) : Touched(path, history, rebuilt, meta)
        /\ Parsed(job)
        /\ job.stale = { s \in nodes : s[1] \in DOMAIN job.changed } \ job.built.nodes
        /\ \A s \in nodes \cup GraphNodes(is) : Placed(job, s, nodes, is)
        /\ \A e \in edges : Sound(job, e, is)
    BY <1>1, <2>1, <2>2 DEF PatchOK
  <2>4. Differing(job') = Differing(job) /\ Carries(job', is) /\ Parsed(job')
    BY <1>4, <2>2, <2>3 DEF Differing, Carries, Parsed
  <2>5. \A s \in GraphNodes(is) : s \notin job.stale
    BY <2>2, <2>3, Carried DEF Parsed
  <2>6. \A s \in job.stale : s[1] \in Differing(job)
    BY <2>3 DEF Differing
  <2>7. Standing(edges', rebuilt, meta, history)
    <3>1. ASSUME NEW e \in edges, Untouched(e, history, rebuilt, meta) PROVE e \in edges'
      <4>1. e[1][1] \notin Differing(job) /\ e[3] \in GraphNodes(is)
        BY <2>1, <2>2, <2>3, <3>1, Untaken
      <4> QED
        BY <1>1, <2>5, <2>6, <4>1
    <3> QED
      BY <2>2, <3>1 DEF Standing
  <2>8. ASSUME NEW s \in nodes' \cup GraphNodes(is) PROVE Placed(job', s, nodes', is)
    <3>1. Placed(job, s, nodes, is)
      BY <1>1, <2>3
    <3>2. s[1] \notin Differing(job') => (s \in nodes' <=> s \in GraphNodes(is))
      BY <1>1, <2>4, <2>6, <3>1 DEF Placed
    <3>3. s \in nodes' => s[1] \notin job'.gone
      BY <1>1, <1>4, <3>1 DEF Placed
    <3>4. ASSUME s \in nodes', s[1] \in DOMAIN job.changed PROVE s \in GraphNodes(is)
      <4>1. s \in job.built.nodes
        BY <1>1, <2>3, <3>4
      <4> QED
        BY <2>2, <2>3, <4>1, Carried DEF Parsed
    <3>5. s \in nodes' => s \in GraphNodes(is)
      BY <1>4, <2>4, <3>2, <3>3, <3>4 DEF Differing
    <3> QED
      BY <1>4, <3>2, <3>3, <3>5 DEF Placed
  <2>9. \A e \in edges' : Sound(job', e, is)
    BY <1>1, <1>4, <2>3, <2>4 DEF Sound
  <2>10. PatchOK(job', nodes', edges', meta, rebuilt, history)
    BY <1>4, <2>1, <2>3, <2>4, <2>8, <2>9 DEF PatchOK
  <2> QED
    BY <1>4, <2>2, <2>7, <2>10 DEF Following
<1> QED
  BY <1>1, <1>2, <1>5, <1>6, PatchTurn

\* the edges of the files of a patch start at the symbols it has parsed
LEMMA FromParsed ==
  ASSUME GraphInv, ~astray, job.pc \in {"calls", "implements"}
  PROVE  /\ \A e \in edges : e[1][1] \in Differing(job) => e[1] \in job.built.nodes
         /\ \A s \in job.built.nodes : s[1] \in Differing(job)
<1>1. PICK is : is = history[meta]
  OBVIOUS
<1>2. /\ PatchOK(job, nodes, edges, meta, rebuilt, history)
      /\ Carries(job, is) /\ GraphOK(nodes, edges)
  BY <1>1, UnderWay
<1>3. job.built.nodes = GraphNodes(job.changed)
  BY <1>2 DEF PatchOK, Parsed
<1>4. ASSUME NEW e \in edges, e[1][1] \in Differing(job) PROVE e[1] \in job.built.nodes
  <2>1. e[1] \in nodes
    BY <1>2 DEF GraphOK
  <2>2. Placed(job, e[1], nodes, is)
    BY <1>1, <1>2, <2>1 DEF PatchOK
  <2>3. e[1] \in GraphNodes(is) /\ e[1][1] \notin job.gone
    BY <2>1, <2>2 DEF Placed
  <2>4. e[1][1] \in DOMAIN job.changed
    BY <1>4, <2>3 DEF Differing
  <2> QED
    BY <1>2, <1>3, <2>3, <2>4, Carried
<1>5. \A s \in job.built.nodes : s[1] \in Differing(job)
  BY <1>2, <1>3, Carried DEF Differing
<1> QED
  BY <1>4, <1>5

LEMMA OutgoingStep ==
  ASSUME GraphInv, NEW rel,
         \/ job.pc = "calls" /\ rel = "CALLS" /\ job' = [job EXCEPT !.pc = "implements"]
         \/ job.pc = "implements" /\ rel = "IMPLEMENTS" /\ job' = [job EXCEPT !.pc = "nodes"],
         DeleteOutgoing(rel),
         UNCHANGED <<history, meta, nodes, faults, rebuilt, astray>>
  PROVE  GraphInv'
<1>1. edges' = { e \in edges : ~(e[1] \in job.built.nodes /\ e[2] = rel) }
  BY DEF DeleteOutgoing
<1>2. GraphOK(nodes', edges')
  BY <1>1 DEF GraphInv, GraphOK
<1>3. DOMAIN job = GraphFields /\ JobOK(job, Tip, meta) /\ DOMAIN job.changed # {}
  BY DEF GraphInv, JobOK
<1>4. /\ DOMAIN job' = GraphFields /\ job'.to = job.to
      /\ job'.changed = job.changed /\ job'.gone = job.gone /\ job'.built = job.built
      /\ \/ job.pc = "calls" /\ rel = "CALLS" /\ job'.pc = "implements"
         \/ job.pc = "implements" /\ rel = "IMPLEMENTS" /\ job'.pc = "nodes"
  <2>1. CASE job.pc = "calls" /\ rel = "CALLS" /\ job' = [job EXCEPT !.pc = "implements"]
    BY <1>3, <2>1, MovedOn
  <2>2. CASE job.pc = "implements" /\ rel = "IMPLEMENTS" /\ job' = [job EXCEPT !.pc = "nodes"]
    BY <1>3, <2>2, MovedOn
  <2> QED
    BY <2>1, <2>2
<1>5. JobOK(job', Tip, meta) /\ ~Rebuilding(job')
  BY <1>3, <1>4 DEF JobOK, Rebuilding, Pcs
<1>6. ASSUME ~astray PROVE Following(job', nodes', edges', meta, rebuilt, history)
  <2>1. PICK is : is = history[meta]
    OBVIOUS
  <2>2. /\ rebuilt \in 1..meta /\ meta \in Nat /\ rebuilt \in Nat
        /\ PatchOK(job, nodes, edges, meta, rebuilt, history)
        /\ Standing(edges, rebuilt, meta, history) /\ Carries(job, is)
        /\ GraphOK(nodes, edges)
    BY <1>4, <1>6, <2>1, UnderWay
  <2>3. /\ \A path \in Differing(job) : Touched(path, history, rebuilt, meta)
        /\ Parsed(job)
        /\ \A s \in nodes \cup GraphNodes(is) : Placed(job, s, nodes, is)
        /\ \A e \in edges : Sound(job, e, is)
    BY <1>4, <2>1, <2>2 DEF PatchOK
  <2>4. Differing(job') = Differing(job) /\ Carries(job', is) /\ Parsed(job')
    BY <1>4, <2>2, <2>3 DEF Differing, Carries, Parsed
  <2>5. /\ \A e \in edges : e[1][1] \in Differing(job) => e[1] \in job.built.nodes
        /\ \A s \in job.built.nodes : s[1] \in Differing(job)
    BY <1>4, <1>6, FromParsed
  <2>6. Standing(edges', rebuilt, meta, history)
    <3>1. ASSUME NEW e \in edges, Untouched(e, history, rebuilt, meta) PROVE e \in edges'
      <4>1. e[1][1] \notin Differing(job)
        BY <2>1, <2>2, <2>3, <3>1, Untaken
      <4> QED
        BY <1>1, <2>5, <4>1
    <3> QED
      BY <2>2, <3>1 DEF Standing
  <2>7. \A s \in nodes \cup GraphNodes(is) : Placed(job', s, nodes, is)
    BY <1>4, <2>3, <2>4 DEF Placed
  <2>8. ASSUME NEW e \in edges' PROVE Sound(job', e, is)
    <3>1. e \in edges /\ Sound(job, e, is) /\ ~(e[1] \in job.built.nodes /\ e[2] = rel)
      BY <1>1, <2>3
    <3>2. CASE Grounded(e, is)
      BY <3>2 DEF Sound
    <3>3. CASE ~Grounded(e, is)
      <4>1. e[1][1] \in Differing(job) /\ e[2] # rel /\ e[2] \in Relations
        BY <2>2, <2>5, <3>1, <3>3 DEF Sound, GraphOK
      <4>2. job.pc = "implements" => e[2] = "IMPLEMENTS"
        BY <3>1, <3>3 DEF Sound
      <4>3. job'.pc = "implements" /\ e[2] = "IMPLEMENTS"
        BY <1>4, <4>1, <4>2 DEF Relations
      <4> QED
        BY <2>4, <4>1, <4>3 DEF Sound
    <3> QED
      BY <3>2, <3>3
  <2>9. PatchOK(job', nodes, edges', meta, rebuilt, history)
    BY <1>4, <2>1, <2>3, <2>4, <2>7, <2>8 DEF PatchOK
  <2> QED
    BY <1>4, <2>2, <2>6, <2>9 DEF Following
<1> QED
  BY <1>2, <1>5, <1>6, PatchTurn

LEMMA IndexStep ==
  ASSUME GraphInv, Index PROVE GraphInv'
<1>1. PICK to \in 1..Tip :
        /\ job' = [AtRest EXCEPT !.pc = "clear", !.to = to,
                     !.built = build_graph_from_files(history[to], {})]
        /\ meta' = to
  BY DEF Index
<1>2. astray' = TRUE /\ UNCHANGED <<history, nodes, edges, faults, rebuilt>>
  BY DEF Index
<1>3. PICK built : built = build_graph_from_files(history[to], {})
  OBVIOUS
<1>4. /\ DOMAIN job' = GraphFields /\ job'.pc = "clear" /\ job'.to = to
      /\ job'.changed = <<>> /\ job'.built = built
  BY <1>1, <1>3 DEF AtRest, GraphFields
<1>5. DOMAIN job'.changed = {}
  BY <1>4
<1>6. Tip \in Nat \ {0} /\ UNCHANGED Tip /\ meta' \in 0..Tip /\ job'.to \in 0..Tip
      /\ to \in 1..Len(history)
  BY <1>1, <1>2, <1>4 DEF GraphInv, Tip
<1>7. /\ \A s \in built.nodes : s = <<s[1], s[2]>>
      /\ \A e \in built.edges : e[2] \in Relations
  BY <1>3, Built, SymbolParts
<1>8. JobOK(job', Tip', meta')
  BY <1>4, <1>6, <1>7 DEF JobOK, Pcs
<1>9. RebuildOK(job', nodes', edges', meta', history')
  BY <1>1, <1>2, <1>3, <1>4, <1>5, <1>6 DEF RebuildOK
<1> QED
  BY <1>2, <1>6, <1>8, <1>9 DEF GraphInv

LEMMA ClearStep ==
  ASSUME GraphInv, clear PROVE GraphInv'
<1>1. /\ job.pc = "clear" /\ nodes' = {} /\ edges' = {}
      /\ job' = [job EXCEPT !.pc = "nodes"]
      /\ UNCHANGED <<history, meta, faults, rebuilt, astray>>
  BY DEF clear, In, Goto
<1>2. /\ DOMAIN job = GraphFields /\ JobOK(job, Tip, meta) /\ astray
      /\ RebuildOK(job, nodes, edges, meta, history)
  BY <1>1 DEF GraphInv, JobOK, Rebuilding
<1>3. /\ DOMAIN job' = GraphFields /\ job'.pc = "nodes" /\ job'.to = job.to
      /\ job'.changed = job.changed /\ job'.built = job.built
  BY <1>1, <1>2, MovedOn
<1>4. JobOK(job', Tip, meta)
  BY <1>1, <1>2, <1>3 DEF JobOK, Pcs
<1>5. RebuildOK(job', nodes', edges', meta, history)
  BY <1>1, <1>2, <1>3 DEF RebuildOK
<1>6. GraphOK(nodes', edges')
  BY <1>1 DEF GraphOK
<1> QED
  BY <1>1, <1>2, <1>4, <1>5, <1>6, PatchTurn

\* the symbols of the parse and those outside it are those of the index
LEMMA NodesStep ==
  ASSUME GraphInv, upsert_nodes PROVE GraphInv'
<1>1. /\ job.pc = "nodes" /\ nodes' = nodes \cup job.built.nodes
      /\ job' = [job EXCEPT !.pc = "edges"]
      /\ UNCHANGED <<history, meta, edges, faults, rebuilt, astray>>
  BY DEF upsert_nodes, In, Goto
<1>2. DOMAIN job = GraphFields /\ JobOK(job, Tip, meta)
  BY DEF GraphInv, JobOK
<1>3. /\ DOMAIN job' = GraphFields /\ job'.pc = "edges" /\ job'.to = job.to
      /\ job'.changed = job.changed /\ job'.gone = job.gone /\ job'.built = job.built
  BY <1>1, <1>2, MovedOn
<1>4. JobOK(job', Tip, meta)
  BY <1>1, <1>2, <1>3 DEF JobOK, Pcs
<1>5. ASSUME Rebuilding(job')
      PROVE  astray /\ RebuildOK(job', nodes', edges', meta, history)
  <2>1. astray /\ RebuildOK(job, nodes, edges, meta, history)
    BY <1>1, <1>3, <1>5 DEF GraphInv, Rebuilding
  <2>2. job.built.nodes = GraphNodes(history[meta]) /\ nodes = {} /\ edges = {}
    BY <1>1, <2>1, Built DEF RebuildOK
  <2> QED
    BY <1>1, <1>3, <2>1, <2>2 DEF RebuildOK
<1>6. ASSUME ~astray PROVE Following(job', nodes', edges', meta, rebuilt, history)
  <2>1. PICK is : is = history[meta]
    OBVIOUS
  <2>2. /\ rebuilt \in 1..meta
        /\ PatchOK(job, nodes, edges, meta, rebuilt, history)
        /\ Standing(edges, rebuilt, meta, history) /\ Carries(job, is)
    BY <1>1, <1>6, <2>1, UnderWay
  <2>3. /\ \A path \in Differing(job) : Touched(path, history, rebuilt, meta)
        /\ Parsed(job)
        /\ \A s \in nodes \cup GraphNodes(is) : Placed(job, s, nodes, is)
        /\ \A e \in edges : Sound(job, e, is)
    BY <1>1, <2>1, <2>2 DEF PatchOK
  <2>4. Differing(job') = Differing(job) /\ Carries(job', is) /\ Parsed(job')
    BY <1>3, <2>2, <2>3 DEF Differing, Carries, Parsed
  <2>5. nodes' = GraphNodes(is)
    <3>1. ASSUME NEW s \in nodes' PROVE s \in GraphNodes(is)
      <4>1. CASE s \in nodes
        BY <1>1, <2>3, <4>1 DEF Placed
      <4>2. CASE s \in job.built.nodes
        BY <2>2, <2>3, <4>2, Carried DEF Parsed
      <4> QED
        BY <1>1, <4>1, <4>2
    <3>2. ASSUME NEW s \in GraphNodes(is) PROVE s \in nodes'
      <4>1. s[1] \notin job.gone
        BY <2>2, SymbolParts DEF Carries
      <4>2. CASE s[1] \in DOMAIN job.changed
        BY <1>1, <2>2, <2>3, <4>2, Carried DEF Parsed
      <4>3. CASE s[1] \notin DOMAIN job.changed
        BY <1>1, <2>3, <4>1, <4>3 DEF Placed, Differing
      <4> QED
        BY <4>2, <4>3
    <3> QED
      BY <3>1, <3>2
  <2>6. \A e \in edges : Sound(job', e, is)
    BY <1>1, <2>3 DEF Sound
  <2>7. PatchOK(job', nodes', edges, meta, rebuilt, history)
    BY <1>3, <2>1, <2>3, <2>4, <2>5, <2>6 DEF PatchOK
  <2> QED
    BY <1>1, <1>3, <2>2, <2>7 DEF Following
<1>7. GraphOK(nodes', edges')
  <2>1. \A s \in job.built.nodes : s = <<s[1], s[2]>>
    BY <1>1, <1>2 DEF JobOK
  <2>2. GraphOK(nodes, edges)
    BY DEF GraphInv
  <2> QED
    BY <1>1, <2>1, <2>2 DEF GraphOK
<1> QED
  BY <1>1, <1>4, <1>5, <1>6, <1>7, PatchTurn

\* An edge a rebuild finds from a symbol that stays to one that stays is
\* written: both of its ends are there.
LEMMA EdgesStep ==
  ASSUME GraphInv, upsert_edges PROVE GraphInv'
<1>1. PICK full \in BOOLEAN : full = (DOMAIN job.changed = {})
  OBVIOUS
<1>2. /\ job.pc = "edges" /\ job' = AtRest
      /\ edges' = edges \cup { e \in job.built.edges : {e[1], e[3]} \subseteq nodes }
      /\ rebuilt' = IF full THEN job.to ELSE rebuilt
      /\ UNCHANGED <<history, meta, nodes, faults>>
  BY <1>1 DEF upsert_edges, In
<1>3. astray' = (astray /\ ~full)
  BY <1>1 DEF upsert_edges
<1>4. /\ history \in Seq(Trees) /\ Tip \in Nat \ {0} /\ meta \in 0..Tip /\ rebuilt \in 0..Tip
      /\ JobOK(job, Tip, meta) /\ GraphOK(nodes, edges) /\ UNCHANGED Tip
      /\ faults \in 0..MaxFaults /\ astray \in BOOLEAN
  BY <1>2 DEF GraphInv, Tip
<1>5. GraphOK(nodes', edges')
  <2>1. \A e \in job.built.edges : e[2] \in Relations
    BY <1>2, <1>4 DEF JobOK
  <2> QED
    BY <1>2, <1>4, <2>1 DEF GraphOK
<1>6. JobOK(job', Tip', meta') /\ ~Rebuilding(job') /\ job'.pc = "rest"
  BY <1>2, <1>4, Resting
<1>7. CASE full
  <2>1. Rebuilding(job) /\ DOMAIN job.changed = {}
    BY <1>1, <1>2, <1>7 DEF Rebuilding
  <2>2. RebuildOK(job, nodes, edges, meta, history)
    BY <2>1 DEF GraphInv
  <2>3. PICK is : is = history[meta]
    OBVIOUS
  <2>4. PICK built : built = build_graph_from_files(is, {})
    OBVIOUS
  <2>5. /\ job.to = meta /\ meta \in 1..Tip /\ job.built = built
        /\ nodes = GraphNodes(is) /\ edges = {}
    BY <1>2, <2>2, <2>3, <2>4 DEF RebuildOK, Tip
  <2>6. is \in Trees
    BY <1>4, <2>3, <2>5, Version DEF Tip
  <2>7. rebuilt' = meta /\ edges' = { e \in built.edges : {e[1], e[3]} \subseteq nodes }
    BY <1>2, <1>7, <2>5
  <2>8. Mirrors(nodes, edges', is)
    BY <2>4, <2>5, <2>7, Built DEF Mirrors
  <2>9. Standing(edges', meta, meta, history)
    <3>1. ASSUME NEW e \in built.edges, Untouched(e, history, meta, meta)
          PROVE  e \in edges'
      <4>1. e[1] \in GraphNodes(is)
        BY <2>4, <2>6, BuiltFrom
      <4>2. meta \in meta..meta
        BY <1>4, <2>5
      <4>3. e[3] \in GraphNodes(is)
        BY <2>3, <3>1, <4>2 DEF Untouched
      <4> QED
        BY <2>5, <2>7, <4>1, <4>3
    <3> QED
      BY <2>3, <2>4, <3>1 DEF Standing
  <2>10. meta \in 1..meta /\ meta \in 0..Tip
    BY <1>4, <2>5
  <2>11. Following(job', nodes, edges', meta, meta, history)
    BY <1>6, <2>3, <2>8, <2>9, <2>10 DEF Following
  <2>12. astray' \in BOOLEAN
    BY <1>3
  <2> QED
    BY <1>2, <1>4, <1>5, <1>6, <2>7, <2>10, <2>11, <2>12 DEF GraphInv
<1>8. CASE ~full
  <2>1. astray' = astray
    BY <1>3, <1>4, <1>8, Zenon
  <2>2. rebuilt' = rebuilt
    BY <1>2, <1>8
  <2>3. ASSUME ~astray PROVE Following(job', nodes, edges', meta, rebuilt, history)
    <3>1. PICK is : is = history[meta]
      OBVIOUS
    <3>2. /\ rebuilt \in 1..meta
          /\ PatchOK(job, nodes, edges, meta, rebuilt, history)
          /\ Standing(edges, rebuilt, meta, history) /\ Carries(job, is)
      BY <1>2, <2>3, <3>1, UnderWay
    <3>3. /\ Parsed(job) /\ nodes = GraphNodes(is)
          /\ \A e \in edges : Sound(job, e, is)
      BY <1>2, <3>1, <3>2 DEF PatchOK
    <3>4. \A e \in job.built.edges : Grounded(e, is)
      BY <3>2, <3>3, Carried DEF Parsed
    <3>5. \A e \in edges : Grounded(e, is)
      BY <1>2, <3>3 DEF Sound
    <3>6. Mirrors(nodes, edges', is)
      BY <1>2, <3>3, <3>4, <3>5 DEF Mirrors
    <3>7. Standing(edges', rebuilt, meta, history)
      BY <1>2, <3>2 DEF Standing
    <3> QED
      BY <1>6, <3>1, <3>2, <3>6, <3>7 DEF Following
  <2>4. UNCHANGED <<history, meta, faults, rebuilt, astray>>
    BY <1>2, <2>1, <2>2
  <2>5. JobOK(job', Tip, meta)
    BY <1>2, <1>4, <1>6
  <2>6. ~astray => Following(job', nodes', edges', meta, rebuilt, history)
    BY <1>2, <2>3
  <2> QED
    BY <1>5, <1>6, <2>4, <2>5, <2>6, PatchTurn
<1> QED
  BY <1>7, <1>8

\* Before index_meta moves nothing has been touched.
LEMMA StopStep ==
  ASSUME GraphInv, Stop PROVE GraphInv'
<1>1. /\ faults < MaxFaults /\ faults' = faults + 1 /\ job' = AtRest
      /\ UNCHANGED <<history, meta, nodes, edges, rebuilt>>
  BY DEF Stop
<1>2. job.pc # "rest" /\ astray' = (astray \/ job.pc # "meta")
  BY DEF Stop, In
<1>3. /\ history \in Seq(Trees) /\ Tip \in Nat \ {0} /\ UNCHANGED Tip
      /\ faults' \in 0..MaxFaults /\ astray \in BOOLEAN
  BY <1>1, GraphBounds DEF GraphInv, Tip
<1>4. JobOK(job', Tip', meta') /\ ~Rebuilding(job') /\ job'.pc = "rest"
  BY <1>1, <1>3, Resting
<1>5. astray' \in BOOLEAN
  BY <1>2
<1>6. ASSUME ~astray' PROVE Following(job', nodes, edges, meta, rebuilt, history)
  <2>1. ~astray /\ job.pc = "meta"
    BY <1>2, <1>6, Zenon
  <2>2. Following(job, nodes, edges, meta, rebuilt, history)
    BY <2>1 DEF GraphInv
  <2> QED
    BY <1>4, <2>1, <2>2 DEF Following
<1> QED
  BY <1>1, <1>3, <1>4, <1>5, <1>6 DEF GraphInv

LEMMA GraphStart ==
  GraphInit => GraphInv
<1> SUFFICES ASSUME GraphInit PROVE GraphInv
  OBVIOUS
<1>1. PICK paths \in SUBSET DOMAIN SourcesOf :
        \E tree \in [paths -> Versions] :
          /\ \A p \in paths : tree[p] \in SourcesOf[p]
          /\ history = <<tree>>
  BY DEF GraphInit, Versions
<1>2. PICK tree \in [paths -> Versions] :
        (\A p \in paths : tree[p] \in SourcesOf[p]) /\ history = <<tree>>
  BY <1>1
<1>3. tree \in Trees
  BY <1>2 DEF Trees
<1>4. history \in Seq(Trees) /\ Tip = 1
  BY <1>2, <1>3 DEF Tip
<1>5. /\ meta = 0 /\ nodes = {} /\ edges = {} /\ job = AtRest
      /\ faults = 0 /\ rebuilt = 0 /\ astray = TRUE
  BY DEF GraphInit
<1>6. JobOK(job, Tip, meta) /\ ~Rebuilding(job)
  BY <1>4, <1>5, Resting
<1>7. GraphOK(nodes, edges) /\ faults \in 0..MaxFaults
  BY <1>5, GraphBounds DEF GraphOK
<1> QED
  BY <1>4, <1>5, <1>6, <1>7 DEF GraphInv

LEMMA GraphStep ==
  GraphInv /\ [GraphNext]_graphVars => GraphInv'
<1> SUFFICES ASSUME GraphInv, [GraphNext]_graphVars PROVE GraphInv'
  OBVIOUS
<1>1. ASSUME NEW path \in DOMAIN SourcesOf, Commit(path) PROVE GraphInv'
  BY <1>1, BranchStep
<1>2. CASE Patch
  <2>1. ASSUME delete_outgoing_calls PROVE GraphInv'
    BY <2>1, OutgoingStep DEF delete_outgoing_calls, In, Goto
  <2>2. ASSUME delete_outgoing_implements PROVE GraphInv'
    BY <2>2, OutgoingStep DEF delete_outgoing_implements, In, Goto
  <2> QED
    BY <1>2, <2>1, <2>2, PrepareStep, SetMetaStep, RemovedStep, ParseStep, StaleStep DEF Patch
<1>3. CASE Rebuild
  BY <1>3, IndexStep, ClearStep DEF Rebuild
<1>4. CASE UNCHANGED graphVars
  BY <1>4 DEF graphVars, GraphInv, Tip
<1> QED
  BY <1>1, <1>2, <1>3, <1>4, NodesStep, EdgesStep, StopStep DEF GraphNext

LEMMA GraphSays ==
  GraphInv => GraphFollowsTheIndex
<1> SUFFICES ASSUME GraphInv, InStep PROVE GraphFollowsTheIndex
  BY DEF GraphFollowsTheIndex, GraphIsOfTheIndex, UntouchedEdgesStay
<1>1. ~astray /\ job = AtRest
  BY DEF InStep
<1>2. Following(job, nodes, edges, meta, rebuilt, history)
  BY <1>1 DEF GraphInv
<1>3. Mirrors(nodes, edges, history[meta]) /\ Standing(edges, rebuilt, meta, history)
  BY <1>1, <1>2, Resting DEF Following
<1>4. GraphIsOfTheIndex
  BY <1>3 DEF GraphIsOfTheIndex, Mirrors, Grounded
<1>5. UntouchedEdgesStay
  BY <1>3 DEF UntouchedEdgesStay, Standing, Untouched
<1> QED
  BY <1>4, <1>5 DEF GraphFollowsTheIndex

(* The graph of a branch has the symbols of the commit index_meta names,   *)
(* no edge without a reference in the sources of that commit, and every    *)
(* edge of the last rebuild that nothing it depends on was touched since:  *)
(* after any number of patches, unless one of them failed half-way or went *)
(* back (patch_graph_incremental, `reviewer index').                       *)
THEOREM GraphFollows == GraphSpec => []GraphFollowsTheIndex
<1>1. GraphInit => GraphInv
  BY GraphStart
<1>2. GraphInv /\ [GraphNext]_graphVars => GraphInv'
  BY GraphStep
<1>3. GraphInv => GraphFollowsTheIndex
  BY GraphSays
<1> QED
  BY <1>1, <1>2, <1>3, PTL DEF GraphSpec
=============================================================================
