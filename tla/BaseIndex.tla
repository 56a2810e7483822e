------------------------------ MODULE BaseIndex ------------------------------
(***************************************************************************)
(* The base index of one tracked branch: the rows of `chunks` under        *)
(* ref = base:<branch> and the commit that `index_meta` says they are of.  *)
(* `reviewer index` builds it from a clone; every prepared review brings   *)
(* it up to the base commit of its pull request.  Both go through          *)
(* `update_base`, a sequence of transactions without one around them.      *)
(*                                                                         *)
(* Abstractions.  A commit is a tree: the Python files, the chunks of each *)
(* (symbol |-> text) and the paths its committed policy ignores.  The text *)
(* of a chunk stands for its content hash; the text written for symbol n   *)
(* of file p in commit c is <<c, p, n>>, so texts are equal only when one  *)
(* was kept or copied.  Vectors, line numbers and the graph are left out.  *)
(* The branch is linear: nobody rewrites its history.                      *)
(***************************************************************************)
EXTENDS Integers, FiniteSets, Sequences, Functions

CONSTANTS
    Path, Name,         \* files and symbols
    Process,            \* MCP servers and CLI runs that share the database
    MaxFiles,           \* compare lists no more files than this (300 on GitHub)
    Habits,             \* what else the developers do, see AllHabits
    MaxCommit,          \* BOUND: commits of the branch
    MaxTrouble          \* BOUND: attempts that fail or crash

AllHabits ==
    { "copy",           \* a chunk is moved, or repeated at another place
      "revert",         \* a file becomes what it was before
      "ignore",         \* the committed policy ignores other paths
      "empty",          \* no Python file is left
      "old_base",       \* a base commit or a clone behind the branch
      "moving_ref" }    \* a clone is pulled while it is indexed

ASSUME HabitsAssumption == Habits \subseteq AllHabits
ASSUME BoundsAssumption == /\ MaxFiles \in Nat \ {0}
                           /\ MaxCommit \in Nat \ {0}
                           /\ MaxTrouble \in Nat

VARIABLES
    history,    \* the commits of the branch on the hosting service
    chunk,      \* the rows of the base ref: <<path, symbol>> |-> text
    meta,       \* index_meta: a commit, 0 without a row
    job,        \* what every process is doing
    trouble     \* failures so far

vars == <<history, chunk, meta, job, trouble>>

Slot    == Path \X Name
Text    == (1..MaxCommit) \X Path \X Name
Rows    == UNION { [S -> Text] : S \in SUBSET Slot }
Content == UNION { [S -> Text] : S \in SUBSET Name }
Tree    == [file : UNION { [S -> Content] : S \in SUBSET Path }, ignored : SUBSET Path]

Tip == Len(history)

(* What f says, and what g says where f is silent.                         *)
Over(f, g) == [x \in DOMAIN f \cup DOMAIN g |-> IF x \in DOMAIN f THEN f[x] ELSE g[x]]
Just(x, y) == [z \in {x} |-> y]
Within(f, S) == Restrict(f, DOMAIN f \cap S)
Without(f, S) == Restrict(f, DOMAIN f \ S)

(* What the index of commit c should hold: a row for every chunk of every  *)
(* Python file that is not ignored.                                        *)
ChunksAt(c) ==
    LET tree == history[c]
        kept == DOMAIN tree.file \ tree.ignored
    IN  [s \in { s \in Slot : s[1] \in kept /\ s[2] \in DOMAIN tree.file[s[1]] } |->
            tree.file[s[1]][s[2]]]

(* `full' is for `reviewer index'; files, gone and ignored are arguments   *)
(* of update_base, todo what is left of the files.                         *)
Idle == [pc |-> "idle", full |-> FALSE, to |-> 0, files |-> {}, gone |-> {},
         ignored |-> {}, todo |-> {}, seen |-> {}, batch |-> <<>>]

Goto(i, pc) == job' = [job EXCEPT ![i].pc = pc]

-----------------------------------------------------------------------------
(* The branch *)

Fresh(p, S) == [n \in S |-> <<Tip + 1, p, n>>]

(* Contents that a push may give to file p: symbols are written, kept or   *)
(* dropped, or repeat the text of another symbol.                          *)
Edits(p) ==
    LET files == history[Tip].file
        old   == IF p \in DOMAIN files THEN files[p] ELSE <<>>
        used  == IF "copy" \in Habits
                 THEN UNION { Range(files[q]) : q \in DOMAIN files } ELSE {}
        edits == { Over(Fresh(p, F), Within(old, K)) : F, K \in SUBSET Name }
    IN  edits \cup { Over(Just(n, t), e) : n \in Name, t \in used, e \in edits }

Same(t, u, p) == /\ p \in DOMAIN t.file <=> p \in DOMAIN u.file
                 /\ p \in DOMAIN t.file => t.file[p] = u.file[p]

(* A file that changes does not become what it was.                        *)
GoesOn(tree) ==
    \A p \in Path : ~Same(history[Tip], tree, p) =>
        \A c \in 1..Tip : ~Same(history[c], tree, p)

Push(tree) ==
    /\ Tip < MaxCommit
    /\ "revert" \in Habits \/ GoesOn(tree)
    /\ "empty" \in Habits \/ DOMAIN tree.file \ tree.ignored # {}
    /\ history' = Append(history, tree)
    /\ UNCHANGED <<chunk, meta, job, trouble>>

Policies == IF "ignore" \in Habits THEN SUBSET Path ELSE {history[Tip].ignored}

EditFile(p) ==
    \E content \in Edits(p), paths \in Policies :
        Push([file    |-> Over(Just(p, content), history[Tip].file),
              ignored |-> paths])

RemoveFile(p) ==
    /\ p \in DOMAIN history[Tip].file
    /\ Push([history[Tip] EXCEPT !.file = Without(@, {p})])

(* A file goes and another comes in one commit, written anew or renamed.   *)
ReplaceFile(p, q) ==
    LET files   == history[Tip].file
        renamed == IF "copy" \in Habits THEN {files[p]} ELSE {}
    IN  /\ p \in DOMAIN files /\ q \notin DOMAIN files
        /\ \E content \in { Fresh(q, F) : F \in SUBSET Name } \cup renamed :
              Push([history[Tip] EXCEPT !.file = Over(Just(q, content), Without(@, {p}))])

-----------------------------------------------------------------------------
(* What the hosting service answers: compare is three-dot, from the merge  *)
(* base, so it lists nothing when `to` is behind `from`.  A renamed file is *)
(* listed under its new name only.                                         *)

Changed(from, to) ==
    IF to <= from THEN {}
    ELSE { p \in Path : ~Same(history[from], history[to], p) }

Renamed(from, to) ==
    LET was == history[from].file
        is  == history[to].file
    IN  { p \in DOMAIN was \ DOMAIN is :
            \E q \in DOMAIN is \ DOMAIN was : Range(was[p]) \cap Range(is[q]) # {} }

Listings(from, to) ==
    LET all == Changed(from, to) \ Renamed(from, to)
    IN  IF Cardinality(all) <= MaxFiles THEN {all}
        ELSE { L \in SUBSET all : Cardinality(L) = MaxFiles }

-----------------------------------------------------------------------------
(* The two callers *)

Begin(i, full, to, listed) ==
    LET files == listed \cap DOMAIN history[to].file
    IN  job' = [job EXCEPT ![i] =
          [Idle EXCEPT !.pc = "remove", !.full = full, !.to = to,
                       !.files = files, !.todo = files, !.gone = listed \ files,
                       !.ignored = history[to].ignored]]

Bases == IF "old_base" \in Habits THEN 1..Tip ELSE {Tip}

(* ReviewService.prepare of a pull request whose base commit is `to`: a    *)
(* branch that was never indexed, or is at that commit, is left alone.     *)
Prepare(i) ==
    /\ job[i] = Idle
    /\ meta # 0
    /\ \E to \in Bases \ {meta} : \E listed \in Listings(meta, to) :
          Begin(i, FALSE, to, listed)
    /\ UNCHANGED <<history, chunk, meta, trouble>>

(* `reviewer index` on a clone whose branch is at commit `to`.             *)
Index(i) ==
    /\ job[i] = Idle
    /\ \E to \in Bases :
          Begin(i, TRUE, to, DOMAIN history[to].file \ history[to].ignored)
    /\ UNCHANGED <<history, chunk, meta, trouble>>

-----------------------------------------------------------------------------
(* update_base, a transaction at a time *)

(* The commit that is read.  A review reads files at the SHA of the base   *)
(* commit; `reviewer index` resolves the name of the branch every time.    *)
At(i) == IF job[i].full /\ "moving_ref" \in Habits THEN Tip ELSE job[i].to

(* Files that the listing says are removed lose their rows.                *)
DeleteRemoved(i) ==
    /\ job[i].pc = "remove"
    /\ chunk' = Without(chunk, job[i].gone \X Name)
    /\ Goto(i, "hashes")
    /\ UNCHANGED <<history, meta, trouble>>

(* existing_hashes: read once, before any file is looked at.               *)
ReadHashes(i) ==
    /\ job[i].pc = "hashes"
    /\ job' = [job EXCEPT ![i].pc = "files", ![i].seen = Range(chunk)]
    /\ UNCHANGED <<history, chunk, meta, trouble>>

(* The rows of a file that are embedded: one for each text not seen.       *)
NewRows(content, seen) ==
    { R \in SUBSET DOMAIN content :
        /\ \A n, k \in R : content[n] = content[k] => n = k
        /\ { content[n] : n \in R } = Range(content) \ seen }

\* Seeded fault: symbols that a file no longer has keep their rows.
SyncFileAppending(i, p) ==
    LET files   == history[At(i)].file
        content == files[p]
    IN  /\ job[i].pc = "files"
        /\ p \in job[i].todo
        /\ IF p \in job[i].ignored \/ p \notin DOMAIN files
           THEN /\ chunk' = Without(chunk, {p} \X Name)
                /\ job' = [job EXCEPT ![i].todo = @ \ {p}]
           ELSE \E R \in NewRows(content, job[i].seen) :
                  /\ chunk' = chunk
                  /\ job' = [job EXCEPT
                       ![i].todo  = @ \ {p},
                       ![i].seen  = @ \cup Range(content),
                       ![i].batch = Over(@, [s \in {p} \X R |-> content[s[2]]])]
        /\ UNCHANGED <<history, meta, trouble>>

(* A file the policy ignores, or that cannot be found at the commit, loses *)
(* its rows.  Otherwise rows of symbols it no longer has are deleted, and  *)
(* rows with an unseen text wait for the embedder.                         *)
SyncFile(i, p) ==
    LET files   == history[At(i)].file
        content == files[p]
    IN  /\ job[i].pc = "files"
        /\ p \in job[i].todo
        /\ IF p \in job[i].ignored \/ p \notin DOMAIN files
           THEN /\ chunk' = Without(chunk, {p} \X Name)
                /\ job' = [job EXCEPT ![i].todo = @ \ {p}]
           ELSE \E R \in NewRows(content, job[i].seen) :
                  /\ chunk' = Without(chunk, {p} \X (Name \ DOMAIN content))
                  /\ job' = [job EXCEPT
                       ![i].todo  = @ \ {p},
                       ![i].seen  = @ \cup Range(content),
                       ![i].batch = Over(@, [s \in {p} \X R |-> content[s[2]]])]
        /\ UNCHANGED <<history, meta, trouble>>

\* Seeded fault: ON CONFLICT DO NOTHING.
UpsertIgnoring(i) ==
    /\ job[i].pc = "files" /\ job[i].todo = {}
    /\ chunk' = Over(chunk, job[i].batch)
    /\ Goto(i, IF job[i].full THEN "sweep" ELSE "meta")
    /\ UNCHANGED <<history, meta, trouble>>

(* _embed_and_upsert: one call of the embedder, then one transaction that  *)
(* replaces rows of the same path and symbol.                              *)
Upsert(i) ==
    /\ job[i].pc = "files" /\ job[i].todo = {}
    /\ chunk' = Over(job[i].batch, chunk)
    /\ Goto(i, IF job[i].full THEN "sweep" ELSE "meta")
    /\ UNCHANGED <<history, meta, trouble>>

(* delete_paths_except, which does nothing for an empty list of files.     *)
Sweep(i) ==
    /\ job[i].pc = "sweep"
    /\ chunk' = IF job[i].files = {} THEN chunk
                ELSE Within(chunk, job[i].files \X Name)
    /\ Goto(i, "meta")
    /\ UNCHANGED <<history, meta, trouble>>

SetMeta(i) ==
    /\ job[i].pc = "meta"
    /\ meta' = At(i)
    /\ job' = [job EXCEPT ![i] = Idle]
    /\ UNCHANGED <<history, chunk, trouble>>

(* A file cannot be read, the embedder or the database fails, the process  *)
(* is killed: what was committed stays, the rest is forgotten.             *)
Fail(i) ==
    /\ job[i] # Idle
    /\ trouble < MaxTrouble
    /\ trouble' = trouble + 1
    /\ job' = [job EXCEPT ![i] = Idle]
    /\ UNCHANGED <<history, chunk, meta>>

-----------------------------------------------------------------------------
(* The branch starts with any files, each with all its symbols, and any    *)
(* policy that leaves one of them.                                         *)
Init ==
    /\ \E paths, ignored \in SUBSET Path :
         /\ paths \ ignored # {}
         /\ history = << [file    |-> [p \in paths |-> [n \in Name |-> <<1, p, n>>]],
                          ignored |-> ignored] >>
    /\ chunk = <<>> /\ meta = 0 /\ trouble = 0
    /\ job = [i \in Process |-> Idle]

Develop ==
    \/ \E p \in Path : EditFile(p) \/ RemoveFile(p)
    \/ \E p, q \in Path : ReplaceFile(p, q)

Step(i) ==
    \/ DeleteRemoved(i) \/ ReadHashes(i) \/ Upsert(i) \/ Sweep(i) \/ SetMeta(i)
    \/ \E p \in Path : SyncFile(i, p)

Next ==
    \/ Develop
    \/ \E i \in Process : Prepare(i) \/ Index(i) \/ Step(i) \/ Fail(i)

Spec == Init /\ [][Next]_vars

(* A sync that has begun goes on, and pull requests keep being reviewed.   *)
FairSpec ==
    Spec /\ \A i \in Process : WF_vars(Step(i)) /\ WF_vars(Prepare(i))

-----------------------------------------------------------------------------
(* Properties *)

(* Types of all variables.  A process that is not idle works on a commit   *)
(* of the branch, rows wait only of files it has looked at, and only       *)
(* `reviewer index` sweeps (update_base, ReviewService.prepare, cli.index). *)
TypeOK ==
    /\ history \in Seq(Tree) /\ Tip \in 1..MaxCommit
    /\ chunk \in Rows
    /\ meta \in 0..Tip
    /\ trouble \in 0..MaxTrouble
    /\ \A i \in Process :
         /\ job[i].pc \in {"idle", "remove", "hashes", "files", "sweep", "meta"}
         /\ job[i].to \in 0..Tip /\ (job[i] # Idle => job[i].to # 0)
         /\ job[i].files \subseteq Path /\ job[i].ignored \subseteq Path
         /\ job[i].gone \subseteq Path \ job[i].files
         /\ job[i].todo \subseteq job[i].files
         /\ job[i].batch \in Rows
         /\ DOMAIN job[i].batch \cap (job[i].todo \X Name) = {}
         /\ job[i].pc = "sweep" => job[i].full

(* Between the commit in index_meta and the tip the index may lag, but not *)
(* further: a row is of one of these commits, and a chunk that none of     *)
(* them touches has its row, whatever failed in between (update_base,      *)
(* ReviewService.prepare, `reviewer index`).                               *)
DriftIsBounded ==
    meta # 0 =>
        \A s \in Slot :
            LET Has(c, t) == s \in DOMAIN ChunksAt(c) /\ ChunksAt(c)[s] = t
            IN  /\ s \in DOMAIN chunk =>
                     \E c \in meta..Tip : Has(c, chunk[s])
                /\ s \in DOMAIN ChunksAt(meta) =>
                     \/ s \in DOMAIN chunk
                     \/ \E c \in meta..Tip : ~Has(c, ChunksAt(meta)[s])

(* An indexed branch catches up once the pushes and the failures end: the  *)
(* self-healing of ReviewService.prepare needs no `reviewer index`.        *)
HealsItself == meta # 0 ~> (meta = Tip /\ chunk = ChunksAt(Tip))
=============================================================================
