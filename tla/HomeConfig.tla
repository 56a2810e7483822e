----------------------------- MODULE HomeConfig -----------------------------
(***************************************************************************)
(* The configuration of a repository in the home directory: its review     *)
(* policy and the branches to index.  reviewer init and reviewer config    *)
(* migrate write it, every command reads it (reviewer/config/branches.py,  *)
(* layers.py, onboarding.py, and the commands in entrypoints/cli.py).      *)
(*                                                                         *)
(* A file is known by its inode, as in the code; a new file has a new one. *)
(* Simplifications: a policy is one value, and a layer that has one hides  *)
(* the ones below (what happens to the keys is in PolicyMerge); a text     *)
(* read twice in a row without a write between is read once.  VCS and      *)
(* editors are external.                                                   *)
(***************************************************************************)
EXTENDS Commands

VARIABLES
  home,     \* repos/<owner>/<name>.yml: inode (0: no file), kind, content
  base,     \* review.yml, for all repositories
  inodes,   \* how many files there were
  locked,   \* the inode whose flock each terminal has, or 0
  cfg       \* the registers of a configuration command at each terminal

configs == <<home, base, inodes, locked, cfg>>

_PUBLISH_ATTEMPTS == 3

NoText == [policy |-> "none", block |-> "none"]
NoConfig ==
  [seen |-> 0, text |-> NoText, block |-> "none", effective |-> "none",
   source |-> "none", tries |-> 0, ret |-> "none", lost |-> FALSE,
   pending |-> FALSE]

Block == {"none", "env", "chosen", "mine", "bad"}
Policy == {"none", "committed", "mine", "invalid", "credential"}

ConfigInit ==
  /\ home = case.home /\ base = case.base /\ inodes = case.home.ino
  /\ locked = [t \in Terminal |-> 0]
  /\ cfg = [t \in Terminal |-> NoConfig]

ConfigOK ==
  /\ home.ino \in Nat /\ home.kind \in {"absent", "regular", "symlink", "malformed"}
  /\ home.policy \in Policy /\ home.block \in Block
  /\ home.ino = 0 <=> home.kind = "absent"
  /\ base.kind \in {"regular", "malformed"} /\ base.block \in Block
  /\ \A t \in Terminal : cfg[t].tries \in 0.._PUBLISH_ATTEMPTS
  /\ \A t, u \in Terminal : locked[t] = locked[u] => t = u \/ locked[t] = 0

---------------------------------------------------------------------------
Keeps(t, r) == cfg' = [cfg EXCEPT ![t] = Over(r, cfg[t])]

\* The command is over, and lets go of the file.
Leave(t, how) ==
  /\ Ends(t, how)
  /\ cfg' = [cfg EXCEPT ![t] = NoConfig]
  /\ locked' = [locked EXCEPT ![t] = 0]

\* A HomeConfigError.
Fails(t) == Leave(t, "error")

\* The policy part of migrate: its error waits for the branches.
Pends(t) == Go(t, "m_branches") /\ Keeps(t, [pending |-> TRUE])

Free(t) == \A u \in Terminal \ {t} : locked[u] # home.ino

Readable(t) == home.ino = cfg[t].seen /\ home.kind = "regular"

Content == [policy |-> home.policy, block |-> home.block]

---------------------------------------------------------------------------
(* resolve_repo_branches: the repository's file, then the one for all,     *)
(* then the environment.  It goes on with cfg.ret.                         *)

Resolves(t, ret) == Go(t, "b_look") /\ Keeps(t, [ret |-> ret])

\* lstat
resolve_look(t) ==
  /\ Runs(t, "b_look")
  /\ IF home.kind = "symlink" THEN Fails(t)
     ELSE Go(t, "b_read") /\ Keeps(t, [seen |-> home.ino]) /\ UNCHANGED locked
  /\ UNCHANGED <<home, base, inodes>>

\* _load_layer and _parse_block.
_load_layer(file) == IF file.block = "bad" THEN "error" ELSE file.block

\* The lock is waited for, and let go with the file; a file that is another
\* by then is an error, as is one that is there and cannot be understood.
resolve_read(t) ==
  /\ Runs(t, "b_read")
  /\ cfg[t].seen # 0 /\ Readable(t) => Free(t)
  /\ LET text == IF cfg[t].seen = 0 THEN NoText ELSE Content
         own == _load_layer(text)
         all == _load_layer(base)
         Found(source, index) ==
           /\ Go(t, cfg[t].ret)
           /\ Keeps(t, [text |-> text, source |-> source, effective |-> index])
           /\ UNCHANGED locked
         lost == cfg[t].seen # 0 /\ ~Readable(t)
     IN IF lost \/ own = "error" THEN Fails(t)
        ELSE IF own # "none" THEN Found("home:repo", own)
        ELSE IF base.kind = "malformed" \/ all = "error" THEN Fails(t)
        ELSE IF all # "none" THEN Found("home:review", all)
        ELSE Found("env", "env")
  /\ UNCHANGED <<home, base, inodes>>

---------------------------------------------------------------------------
(* publish_repository_block. *)

publish_repository_block(t) ==
  /\ Runs(t, "p_look")
  /\ IF home.kind = "symlink" THEN Fails(t)
     ELSE /\ Go(t, IF home.kind = "absent" THEN "p_link" ELSE "p_read")
          /\ Keeps(t, [seen |-> home.ino]) /\ UNCHANGED locked
  /\ UNCHANGED <<home, base, inodes>>

Done(t) == Leave(t, IF cfg[t].pending THEN "error" ELSE "ok")

\* The file is new: it has an inode of its own.
Creates(policy, block) ==
  /\ inodes' = inodes + 1
  /\ home' = [ino |-> inodes + 1, kind |-> "regular", policy |-> policy,
              block |-> block]

\* _publish_new_config: a link, which does not replace what is there.
_publish_new_config(t) ==
  /\ Runs(t, "p_link")
  /\ IF home.kind = "absent"
     THEN Creates("none", cfg[t].block) /\ Done(t)
     ELSE /\ UNCHANGED <<home, inodes>>
          /\ IF cfg[t].tries + 1 = _PUBLISH_ATTEMPTS THEN Fails(t)
             ELSE /\ Go(t, "p_look") /\ Keeps(t, [tries |-> cfg[t].tries + 1])
                  /\ UNCHANGED locked
  /\ UNCHANGED base

\* _read_locked_destination, whose lock is kept until the end.
_read_locked_destination(t) ==
  /\ Runs(t, "p_read")
  /\ Readable(t) => Free(t)
  /\ IF ~Readable(t) THEN Fails(t)
     ELSE IF home.block # "none" THEN Done(t)
     ELSE /\ locked' = [locked EXCEPT ![t] = home.ino]
          /\ Go(t, "p_check") /\ Keeps(t, [text |-> Content])
  /\ UNCHANGED <<home, base, inodes>>

\* Seeded fault: the file is replaced whichever it is by now.
_replace_destination_blindly(t) ==
  /\ Runs(t, "p_check")
  /\ Go(t, "p_replace")
  /\ UNCHANGED configs

\* _replace_destination: is it still the file that was read?
_replace_destination(t) ==
  /\ Runs(t, "p_check")
  /\ IF home.ino = cfg[t].seen
     THEN Go(t, "p_replace") /\ UNCHANGED <<locked, cfg>>
     ELSE Fails(t)
  /\ UNCHANGED <<home, base, inodes>>

\* The new text is the old one with the block at its end.
_append_repository_candidate(t) ==
  /\ Runs(t, "p_replace")
  /\ Creates(cfg[t].text.policy, cfg[t].block)
  /\ Done(t)
  /\ UNCHANGED base

---------------------------------------------------------------------------
(* reviewer init, the stage of the repository. *)

init(t) ==
  /\ Starts(t, "init")
  /\ Resolves(t, "i_plan")
  /\ UNCHANGED <<home, base, inodes, locked>>

\* plan_repository_config: a file that has a block stays as it is.  The plan
\* is shown, and may be refused.
plan_repository_config(t) ==
  /\ Runs(t, "i_plan")
  /\ \/ /\ cfg[t].source = "home:repo" /\ Resolves(t, "i_show") /\ UNCHANGED locked
     \/ /\ cfg[t].source # "home:repo"
        /\ Go(t, "p_look") /\ Keeps(t, [block |-> Job(t).block])
        /\ UNCHANGED locked
     \/ Leave(t, "ok")
  /\ UNCHANGED <<home, base, inodes>>

\* init and config show end with what they have read.
config_shown(t) ==
  /\ Runs(t, "i_show") /\ Leave(t, "ok")
  /\ UNCHANGED <<home, base, inodes>>

config_show(t) ==
  /\ Starts(t, "config show")
  /\ Resolves(t, "i_show")
  /\ UNCHANGED <<home, base, inodes, locked>>

---------------------------------------------------------------------------
(* reviewer config migrate: the policy, then the branches. *)

\* The branches say which ref to ask for the policy.
config_migrate(t) ==
  /\ Starts(t, "config migrate")
  /\ Resolves(t, "m_fetch")
  /\ UNCHANGED <<home, base, inodes, locked>>

_credential_path(policy) == policy = "credential"

_validate_known_policy_data(policy) == policy # "invalid"

\* Two texts say the same; keys and their order do not matter.
_semantic_equal(one, other) == one = other

\* What is fetched is a mapping without a credential, and of known shape;
\* the layers at home can be read.
migrate_repo_config(t) ==
  /\ Runs(t, "m_fetch")
  /\ \/ IF /\ case.committed # "none" /\ ~_credential_path(case.committed)
           /\ base.kind = "regular"
           /\ \A p \in {case.committed, base.policy, home.policy} :
                _validate_known_policy_data(p)
           /\ home.kind \in {"absent", "regular"}
        THEN Go(t, "m_look") /\ UNCHANGED cfg
        ELSE Pends(t)
     \/ /\ GoBadly(t, "offline", "m_branches") /\ Keeps(t, [pending |-> TRUE])
  /\ UNCHANGED <<home, base, inodes, locked>>

\* _read_destination_mapping does not lock.
_read_destination_mapping(t) ==
  /\ Runs(t, "m_look")
  /\ IF home.kind = "symlink" \/ (home.kind = "absent" /\ cfg[t].lost) THEN Pends(t)
     ELSE /\ Go(t, IF home.kind = "absent" THEN "m_link" ELSE "m_read")
          /\ Keeps(t, [seen |-> home.ino])
  /\ UNCHANGED <<home, base, inodes, locked>>

\* A file that is there has the same policy, or the command has failed; a
\* file with branches alone has another policy.
_existing_migration_result(t) ==
  /\ Runs(t, "m_read")
  /\ IF Readable(t) /\ _semantic_equal(home.policy, case.committed)
     THEN Go(t, "m_branches") /\ UNCHANGED cfg
     ELSE Pends(t)
  /\ UNCHANGED <<home, base, inodes, locked>>

migrate_publish(t) ==
  /\ Runs(t, "m_link")
  /\ IF home.kind = "absent"
     THEN /\ Creates(case.committed, "none")
          /\ Go(t, "m_branches") /\ UNCHANGED cfg
     ELSE /\ Go(t, "m_look") /\ Keeps(t, [lost |-> TRUE])
          /\ UNCHANGED <<home, inodes>>
  /\ UNCHANGED <<base, locked>>

migrate_branches(t) ==
  /\ Runs(t, "m_branches")
  /\ Resolves(t, "m_block")
  /\ UNCHANGED <<home, base, inodes, locked>>

\* Branches that any file at home gives already are left where they are.
migrate_repo_branches(t) ==
  /\ Runs(t, "m_block")
  /\ IF cfg[t].source \in {"home:repo", "home:review"} THEN Done(t)
     ELSE Go(t, "p_look") /\ Keeps(t, [block |-> cfg[t].effective]) /\ UNCHANGED locked
  /\ UNCHANGED <<home, base, inodes>>

ConfigStep(t) ==
  \/ resolve_look(t)
  \/ resolve_read(t)
  \/ publish_repository_block(t)
  \/ _publish_new_config(t)
  \/ _read_locked_destination(t)
  \/ _replace_destination(t)
  \/ _append_repository_candidate(t)
  \/ init(t)
  \/ plan_repository_config(t)
  \/ config_show(t)
  \/ config_shown(t)
  \/ config_migrate(t)
  \/ migrate_repo_config(t)
  \/ _read_destination_mapping(t)
  \/ _existing_migration_result(t)
  \/ migrate_publish(t)
  \/ migrate_branches(t)
  \/ migrate_repo_branches(t)

\* The kernel takes the lock back.
ConfigKilled(t) ==
  /\ cfg' = [cfg EXCEPT ![t] = NoConfig]
  /\ locked' = [locked EXCEPT ![t] = 0]
  /\ UNCHANGED <<home, base, inodes>>

\* An editor saves a file by renaming another onto it; or the file is
\* removed.  What is saved between the last look of _replace_destination and
\* its rename is lost: there the people of this model do not write.
EditHome ==
  /\ Happens("edit_home") /\ \A t \in Terminal : at[t] # "p_replace"
  /\ \/ Creates("mine", home.block)
     \/ /\ home.kind # "absent" /\ UNCHANGED inodes
        /\ home' = [ino |-> 0, kind |-> "absent", policy |-> "none", block |-> "none"]
  /\ UNCHANGED <<base, locked, cfg>>

---------------------------------------------------------------------------
(* What is in the file stays in it, whoever put it there: no command takes *)
(* away or changes a policy or a block of branches, although two of them   *)
(* and an editor write at once, each a whole file.                         *)
CommandsKeepEachOther ==
  [][at' # at =>
       /\ home.policy # "none" => home'.policy = home.policy
       /\ home.block # "none" => home'.block = home.block]_home

\* What reviewer does in this repository, by the files.
EffectiveBranches ==
  IF home.block # "none" THEN home.block
  ELSE IF base.block # "none" THEN base.block ELSE "env"
EffectivePolicy ==
  IF home.policy # "none" THEN home.policy
  ELSE IF case.committed # "none" THEN case.committed ELSE base.policy

(* config migrate moves the settings and changes none: the branches that   *)
(* are indexed and the policy in force are the same after each of its      *)
(* steps, also when the branches come from the file for all repositories,  *)
(* and when init writes at the same time.                                  *)
MigrationChangesNothing ==
  [][\A t \in Terminal :
       at'[t] # at[t] /\ at[t] # "prompt" /\ Job(t).run = "config migrate" =>
         /\ EffectiveBranches' = EffectiveBranches
         /\ EffectivePolicy' = EffectivePolicy]_home
=============================================================================
