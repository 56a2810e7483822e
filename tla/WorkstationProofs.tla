-------------------------- MODULE WorkstationProofs --------------------------
(***************************************************************************)
(* Proofs about the machine of a developer (Workstation), for any number   *)
(* of terminals and commands, any machines, and any number of kills,       *)
(* failures and edits.                                                     *)
(*                                                                         *)
(* The argument for DecisionsStand.  A command that rewrites the           *)
(* configuration of a repository holds the lock of the file, and what it   *)
(* is about to write is what the file says plus its own settings: a write  *)
(* by anyone else gives the file a new inode, which the look before the    *)
(* replacement tells (ConfigInv).  An update replaces the Compose file     *)
(* under its lock, and only when its second look at it shows what the      *)
(* first one did (Synced).                                                 *)
(* The launcher runs the entry that its screen has shown last (UiInv).     *)
(*                                                                         *)
(* The argument for FreshSkillsAreWhole.  What an installer has taken out  *)
(* of its archive is in place (Fetched), since all who are at work have    *)
(* the same archive (SameArchive).  So the stamp is made of a directory    *)
(* that was whole (StampTrue), and skills_staleness compares the directory *)
(* with it hash by hash.                                                   *)
(*                                                                         *)
(* The argument for ToldIsTrue has four parts, over what a terminal has    *)
(* still to type (Queued).  To start the services is advised where a store *)
(* of this machine is down, and only a start that somebody types ends that *)
(* (AdviceInv).  After every layer the report has one source for every     *)
(* path that is merged, the layer that gave it its value (ReportTrue).  An *)
(* update that preserves the Compose file has found there, under the lock, *)
(* what is neither recorded nor new (Known), and what updates write is     *)
(* recorded by the end (FileKnown).  In the loop over the clients a client *)
(* is still to come, installed, or counted among the errors (Bound); what  *)
(* was done for the one that has its turn is known at every step (Local),  *)
(* and no other step takes back what was installed (StaysInstalled).       *)
(***************************************************************************)
EXTENDS Workstation, FiniteSetTheorems, WellFoundedInduction, TLAPS

-----------------------------------------------------------------------------
(* The shell.                                                              *)

Shelled ==
  /\ DOMAIN at = Terminal /\ DOMAIN todo = Terminal /\ DOMAIN caller = Terminal
  /\ DOMAIN told = Terminal /\ case \in Cases
  /\ \A t \in Terminal : caller[t] \in {"shell", "update_after"}

\* A step of t, or of what it runs, leaves the other terminals alone.
Walks(t) ==
  /\ at[t] # "prompt" \/ todo[t] # << >>
  /\ case' = case
  /\ DOMAIN at' = Terminal /\ DOMAIN todo' = Terminal /\ DOMAIN caller' = Terminal
  /\ DOMAIN told' = Terminal
  /\ \A u \in Terminal \ {t} : /\ at'[u] = at[u] /\ todo'[u] = todo[u]
                               /\ caller'[u] = caller[u] /\ told'[u] = told[u]
  /\ \/ todo'[t] = todo[t] /\ at'[t] # "prompt"
     \/ todo'[t] = Tail(todo[t]) /\ at'[t] = "prompt" /\ caller'[t] = "shell"
  /\ caller'[t] \in {"shell", "update_after"}
  /\ \/ caller'[t] = caller[t] /\ at'[t] # "update_after"
     \/ caller'[t] = "shell" /\ at'[t] \in {"prompt", caller[t]}
     \/ caller'[t] = "update_after" /\ at[t] = "update_clients" /\ at'[t] = "client"

Out == {"prompt", "update_after"}

InstallPc ==
  {"client", "native_fails", "give_up", "plain_plan", "plain_backup", "plain_write",
   "skills", "extract", "stamp",
   "codex_read", "codex_snapshot", "codex_market", "codex_verify", "codex_mcp",
   "codex_backup", "codex_write", "codex_add", "codex_post", "codex_migrate",
   "codex_unmove", "codex_restore",
   "claude_read", "claude_market", "claude_update", "claude_plugin", "mcp_get",
   "mcp_remove", "mcp_add", "allow_plan", "allow_backup", "allow_write"}

UpdatePc ==
  {"upgrade", "latest", "fresh", "compose_fetch", "compose_lock", "compose_read",
   "compose_create", "compose_again", "compose_replace", "compose_state",
   "compose_unlock", "update_clients", "update_after", "update_done", "update_fails",
   "update_advises"}

LEMMA PlainPaths ==
  ASSUME Shelled, NEW t \in Terminal, PlainStep(t)
  PROVE  Walks(t) /\ at'[t] \in InstallPc \cup Out /\ world' = world
<1> USE DEF Shelled, Walks, Out, InstallPc, Runs, Starts, Go, GoBadly, Ends, Finish, NextClient, clients
<1>1. CASE install(t)
  BY <1>1 DEF install
<1>2. CASE install_skills(t)
  BY <1>2 DEF install_skills
<1>3. CASE install_client(t)
  BY <1>3 DEF install_client
<1>4. CASE native_fails(t)
  BY <1>4 DEF native_fails
<1>5. CASE give_up(t)
  BY <1>5 DEF give_up
<1>6. CASE plain_plan(t)
  BY <1>6 DEF plain_plan
<1>7. CASE plain_backup(t)
  BY <1>7 DEF plain_backup, Backup
<1>8. CASE plain_write(t)
  BY <1>8 DEF plain_write, Write
<1>9. CASE TornWrite(t)
  BY <1>9 DEF TornWrite, Spend
<1>10. CASE _ensure_skills(t)
  BY <1>10 DEF _ensure_skills
<1>11. CASE extract_skills(t)
  BY <1>11 DEF extract_skills
<1>12. CASE ExtractFails(t)
  BY <1>12 DEF ExtractFails
<1>13. CASE stamp_skills_dir(t)
  BY <1>13 DEF stamp_skills_dir
<1> QED
  BY <1>1, <1>2, <1>3, <1>4, <1>5, <1>6, <1>7, <1>8, <1>9, <1>10, <1>11, <1>12, <1>13
     DEF PlainStep

LEMMA CodexPaths ==
  ASSUME Shelled, NEW t \in Terminal, CodexStep(t)
  PROVE  Walks(t) /\ at'[t] \in (InstallPc \ {"extract", "stamp"}) \cup Out /\ world' = world
<1> USE DEF Shelled, Walks, Out, InstallPc, UpdatePc, Runs, Starts, Go, GoBadly, Ends, Finish, NextClient, clients
<1>1. CASE codex_read(t)
  BY <1>1 DEF codex_read
<1>2. CASE _snapshot_config(t)
  BY <1>2 DEF _snapshot_config
<1>3. CASE codex_market(t)
  BY <1>3 DEF codex_market
<1>4. CASE codex_verify(t)
  BY <1>4 DEF codex_verify
<1>5. CASE codex_mcp(t)
  BY <1>5 DEF codex_mcp
<1>6. CASE codex_backup(t)
  BY <1>6 DEF codex_backup, Backup
<1>7. CASE codex_write(t)
  BY <1>7 DEF codex_write, Write
<1>8. CASE codex_add(t)
  BY <1>8 DEF codex_add
<1>9. CASE codex_post(t)
  BY <1>9 DEF codex_post
<1>10. CASE migrate_legacy_skills(t)
  BY <1>10 DEF migrate_legacy_skills
<1>11. CASE migration_undone(t)
  BY <1>11 DEF migration_undone
<1>12. CASE _restore_configs(t)
  BY <1>12 DEF _restore_configs
<1>13. CASE CodexProgramFails(t)
  BY <1>13 DEF CodexProgramFails
<1>14. CASE CodexProgramLacks(t)
  BY <1>14 DEF CodexProgramLacks
<1> QED
  BY <1>1, <1>2, <1>3, <1>4, <1>5, <1>6, <1>7, <1>8, <1>9, <1>10, <1>11, <1>12, <1>13, <1>14
     DEF CodexStep

LEMMA ClaudePaths ==
  ASSUME Shelled, NEW t \in Terminal, ClaudeStep(t)
  PROVE  Walks(t) /\ at'[t] \in (InstallPc \ {"extract", "stamp"}) \cup Out /\ world' = world
<1> USE DEF Shelled, Walks, Out, InstallPc, UpdatePc, Runs, Starts, Go, GoBadly, Ends, Finish, NextClient, clients
<1>1. CASE claude_read(t)
  BY <1>1 DEF claude_read
<1>2. CASE claude_market(t)
  BY <1>2 DEF claude_market, Program
<1>3. CASE claude_update(t)
  BY <1>3 DEF claude_update, Program
<1>4. CASE claude_plugin(t)
  BY <1>4 DEF claude_plugin, Program
<1>5. CASE claude_mcp_get(t)
  BY <1>5 DEF claude_mcp_get
<1>6. CASE claude_mcp_remove(t)
  BY <1>6 DEF claude_mcp_remove, Program
<1>7. CASE claude_mcp_add(t)
  BY <1>7 DEF claude_mcp_add, Program
<1>8. CASE _apply_claude_allowlist(t)
  BY <1>8 DEF _apply_claude_allowlist
<1>9. CASE allow_backup(t)
  BY <1>9 DEF allow_backup, Backup
<1>10. CASE allow_write(t)
  BY <1>10 DEF allow_write
<1> QED
  BY <1>1, <1>2, <1>3, <1>4, <1>5, <1>6, <1>7, <1>8, <1>9, <1>10
     DEF ClaudeStep

LEMMA UpdatePaths ==
  ASSUME Shelled, NEW t \in Terminal, UpdateStep(t)
  PROVE  Walks(t) /\ at'[t] \in {"client"} \cup UpdatePc \cup Out
<1> USE DEF Shelled, Walks, Out, InstallPc, UpdatePc, Runs, Starts, Go, GoBadly, Ends, Finish, NextClient
<1>1. CASE update(t)
  BY <1>1 DEF update, Updates
<1>2. CASE check_latest(t)
  BY <1>2 DEF check_latest, UpgradeDue
<1>3. CASE upgrade_uv_tool(t)
  BY <1>3 DEF upgrade_uv_tool
<1>4. CASE run_fresh_artifact_refresh(t)
  BY <1>4 DEF run_fresh_artifact_refresh
<1>5. CASE download_compose(t)
  BY <1>5 DEF download_compose
<1>6. CASE _update_lock(t)
  BY <1>6 DEF _update_lock
<1>7. CASE sync_compose_file(t)
  BY <1>7 DEF sync_compose_file, Preserve
<1>8. CASE compose_again(t)
  BY <1>8 DEF compose_again, Preserve, NoResult
<1>9. CASE compose_replace(t)
  BY <1>9 DEF compose_replace
<1>10. CASE compose_create(t)
  BY <1>10 DEF compose_create, Preserve
<1>11. CASE _write_state(t)
  BY <1>11 DEF _write_state
<1>12. CASE compose_error(t) \/ compose_unlock(t)
  BY <1>12 DEF compose_error, NoResult, compose_unlock
<1>13. CASE _refresh_update_artifacts(t)
  BY <1>13 DEF _refresh_update_artifacts, Calls
<1>14. CASE update_after(t)
  BY <1>14 DEF update_after
<1>15. CASE update_done(t)
  BY <1>15 DEF update_done, UpdateEnds
<1>16. CASE update_fails(t) \/ update_advises(t)
  BY <1>16 DEF update_fails, update_advises, UpdateEnds
<1> QED
  BY <1>1, <1>2, <1>3, <1>4, <1>5, <1>6, <1>7, <1>8, <1>9, <1>10, <1>11, <1>12, <1>13, <1>14, <1>15, <1>16
     DEF UpdateStep

LEMMA ServicePaths ==
  ASSUME Shelled, NEW t \in Terminal, ServiceStep(t)
  PROVE  Walks(t) /\ at'[t] \in {"check_probe", "check_graph", "check_providers"} \cup Out
<1> USE DEF Shelled, Walks, Out, InstallPc, UpdatePc, Runs, Starts, Go, GoBadly, Ends, Finish, NextClient
<1>1. CASE start_services(t)
  BY <1>1 DEF start_services, Composes
<1>2. CASE stop_services(t)
  BY <1>2 DEF stop_services, Composes
<1>3. CASE check(t)
  BY <1>3 DEF check
<1>4. CASE check_probe(t)
  BY <1>4 DEF check_probe
<1>5. CASE check_graph(t)
  BY <1>5 DEF check_graph
<1>6. CASE check_providers(t)
  BY <1>6 DEF check_providers
<1> QED
  BY <1>1, <1>2, <1>3, <1>4, <1>5, <1>6
     DEF ServiceStep

LEMMA ReportPaths ==
  ASSUME Shelled, NEW t \in Terminal, ReportStep(t)
  PROVE  Walks(t) /\ at'[t] \in {"r_base", "r_committed", "r_home", "r_told"} \cup Out
<1> USE DEF Shelled, Walks, Out, InstallPc, UpdatePc, Runs, Starts, Go, GoBadly, Ends, Finish, NextClient
<1>1. CASE config_report(t)
  BY <1>1 DEF config_report
<1>2. CASE merge_base(t)
  BY <1>2 DEF merge_base, Merges
<1>3. CASE merge_committed(t)
  BY <1>3 DEF merge_committed, Merges
<1>4. CASE merge_home(t)
  BY <1>4 DEF merge_home, Merges
<1>5. CASE config_reported(t)
  BY <1>5 DEF config_reported
<1> QED
  BY <1>1, <1>2, <1>3, <1>4, <1>5
     DEF ReportStep

LEMMA LauncherPaths ==
  ASSUME Shelled, NEW t \in Terminal, LauncherStep(t)
  PROVE  Walks(t) /\ at'[t] \in {"launcher", "launched", "launched_update"} \cup Out
<1> USE DEF Shelled, Walks, Out, InstallPc, UpdatePc, Runs, Starts, Go, GoBadly, Ends, Finish, NextClient
<1>1. CASE launcher(t)
  BY <1>1 DEF launcher
<1>2. CASE set_query(t)
  BY <1>2 DEF set_query, Press, On, shell, Leaves, Active
<1>3. CASE move(t)
  BY <1>3 DEF move, Press, On, shell, Leaves, Active
<1>4. CASE open_selected(t)
  BY <1>4 DEF open_selected, Press, On, shell, Leaves, Active
<1>5. CASE set_value(t)
  BY <1>5 DEF set_value, Press, On, shell, Leaves, Active
<1>6. CASE open_preview(t)
  BY <1>6 DEF open_preview, Press, On, shell, Leaves, Active
<1>7. CASE _start_update_check(t)
  BY <1>7 DEF _start_update_check, Press, On, shell, Leaves, Active
<1>8. CASE _finish_update_check(t)
  BY <1>8 DEF _finish_update_check, Press, On, shell, Leaves, Active
<1>9. CASE back(t)
  BY <1>9 DEF back, Press, On, shell, Leaves, Active
<1>10. CASE confirm(t)
  BY <1>10 DEF confirm, Press, On, shell, Leaves, Active
<1>11. CASE cancel(t)
  BY <1>11 DEF cancel, Press, On, shell, Leaves, Active
<1>12. CASE launched(t)
  BY <1>12 DEF launched
<1> QED
  BY <1>1, <1>2, <1>3, <1>4, <1>5, <1>6, <1>7, <1>8, <1>9, <1>10, <1>11, <1>12
     DEF LauncherStep

-----------------------------------------------------------------------------
(* The configuration of a repository.                                      *)

ConfigPc ==
  {"b_look", "b_read", "p_look", "p_link", "p_read", "p_check", "p_replace",
   "i_plan", "i_show", "m_fetch", "m_look", "m_read", "m_link", "m_branches", "m_block"}

Register ==
  {"seen", "text", "block", "effective", "source", "tries", "ret", "lost", "pending"}

Registers == /\ DOMAIN cfg = Terminal /\ DOMAIN locked = Terminal
             /\ \A t \in Terminal : DOMAIN cfg[t] = Register

HomeIs(kind, ino, policy, block) ==
  /\ kind = "absent" <=> ino = 0
  /\ kind = "absent" => policy = "none" /\ block = "none"

HomeSound ==
  /\ inodes \in Nat /\ home.ino \in 0..inodes
  /\ HomeIs(home.kind, home.ino, home.policy, home.block)

\* What a command has read, and goes by.
Migrating(t) == at[t] # "prompt" /\ Job(t).run = "config migrate"

Publishing == {"p_look", "p_link", "p_read", "p_check", "p_replace"}

Resolved(t) ==
  /\ at[t] \in {"b_look", "b_read"} =>
       cfg[t].ret \in {"i_plan", "i_show", "m_fetch", "m_block"}
  /\ at[t] \in {"m_look", "m_link"} => case.committed # "none"
  /\ Migrating(t) =>
       /\ at[t] \in {"b_look", "b_read"} => cfg[t].ret \in {"m_fetch", "m_block"}
       /\ at[t] # "i_plan"
       /\ at[t] = "m_block" =>
            \/ cfg[t].source \in {"home:repo", "home:review"}
            \/ cfg[t].effective = "env" /\ base.block = "none"
       /\ at[t] \in Publishing => cfg[t].block = "env" /\ base.block = "none"

\* Whoever is about to replace the file has its lock, and its text as it is.
Held(t) ==
  /\ locked[t] \in 0..inodes
  /\ at[t] \in {"p_check", "p_replace"} =>
       /\ cfg[t].seen = locked[t] /\ locked[t] # 0
       /\ home.ino = locked[t] => /\ cfg[t].text.policy = home.policy
                                  /\ home.block = "none"
  /\ at[t] = "p_replace" => home.ino = locked[t]

Alone == \A t, u \in Terminal : t # u /\ locked[t] = locked[u] => locked[t] = 0

ConfigInv ==
  /\ Registers /\ HomeSound /\ Alone
  /\ \A t \in Terminal : Resolved(t) /\ Held(t)

\* Who is not t has its registers and its lock as before, and the file is
\* the same, or a new one with what was in it.
Publishes(t) ==
  /\ base' = base /\ DOMAIN cfg' = Terminal /\ DOMAIN locked' = Terminal
  /\ DOMAIN cfg'[t] = Register
  /\ \A u \in Terminal \ {t} : cfg'[u] = cfg[u] /\ locked'[u] = locked[u]
  /\ locked'[t] \in {0, locked[t]} \/ (locked'[t] = home.ino /\ Free(t))
  /\ \/ home' = home /\ inodes' = inodes
     \/ /\ inodes' = inodes + 1 /\ home'.ino = inodes + 1
        /\ home'.kind = "regular"
        /\ home.kind = "absent" \/ (at[t] = "p_replace" /\ home.ino = locked[t])

LEMMA ConfigPaths ==
  ASSUME Shelled, ConfigInv, NEW t \in Terminal, ConfigStep(t)
  PROVE  Walks(t) /\ at'[t] \in ConfigPc \cup Out
<1>1. /\ DOMAIN cfg = Terminal
      /\ at[t] \in {"b_look", "b_read"} =>
           cfg[t].ret \in {"i_plan", "i_show", "m_fetch", "m_block"}
  BY DEF ConfigInv, Registers, Resolved
<1> USE DEF Shelled, Walks, Out, ConfigPc, Runs, Starts, Go, GoBadly, Ends, Leave, Fails, Done, Pends, Resolves

<1>2. CASE resolve_look(t)
  BY <1>1, <1>2 DEF resolve_look
<1>3. CASE resolve_read(t)
  BY <1>1, <1>3 DEF resolve_read
<1>4. CASE publish_repository_block(t)
  BY <1>1, <1>4 DEF publish_repository_block
<1>5. CASE _publish_new_config(t)
  BY <1>1, <1>5 DEF _publish_new_config
<1>6. CASE _read_locked_destination(t)
  BY <1>1, <1>6 DEF _read_locked_destination
<1>7. CASE _replace_destination(t)
  BY <1>1, <1>7 DEF _replace_destination
<1>8. CASE _append_repository_candidate(t)
  BY <1>1, <1>8 DEF _append_repository_candidate
<1>9. CASE init(t)
  BY <1>1, <1>9 DEF init
<1>10. CASE plan_repository_config(t)
  BY <1>1, <1>10 DEF plan_repository_config
<1>11. CASE config_show(t)
  BY <1>1, <1>11 DEF config_show
<1>12. CASE config_shown(t)
  BY <1>1, <1>12 DEF config_shown
<1>13. CASE config_migrate(t)
  BY <1>1, <1>13 DEF config_migrate
<1>14. CASE migrate_repo_config(t)
  BY <1>1, <1>14 DEF migrate_repo_config
<1>15. CASE _read_destination_mapping(t)
  BY <1>1, <1>15 DEF _read_destination_mapping
<1>16. CASE _existing_migration_result(t)
  BY <1>1, <1>16 DEF _existing_migration_result
<1>17. CASE migrate_publish(t)
  BY <1>1, <1>17 DEF migrate_publish
<1>18. CASE migrate_branches(t)
  BY <1>1, <1>18 DEF migrate_branches
<1>19. CASE migrate_repo_branches(t)
  BY <1>1, <1>19 DEF migrate_repo_branches
<1> QED
  BY <1>2, <1>3, <1>4, <1>5, <1>6, <1>7, <1>8, <1>9, <1>10, <1>11, <1>12, <1>13, <1>14, <1>15, <1>16, <1>17, <1>18, <1>19
     DEF ConfigStep

LEMMA ConfigPublishes ==
  ASSUME Shelled, ConfigInv, NEW t \in Terminal, ConfigStep(t)
  PROVE  Publishes(t)
<1>1. /\ DOMAIN cfg = Terminal /\ DOMAIN locked = Terminal /\ DOMAIN cfg[t] = Register
      /\ at[t] = "p_replace" => home.ino = locked[t]
  BY DEF ConfigInv, Registers, Held
<1> USE <1>1 DEF Publishes, Register, Runs, Leave, Fails, Done, Pends, Resolves, Keeps, Over, NoConfig, Creates
<1>2. CASE resolve_look(t)
  BY <1>2 DEF resolve_look
<1>3. CASE resolve_read(t)
  BY <1>3 DEF resolve_read
<1>4. CASE publish_repository_block(t)
  BY <1>4 DEF publish_repository_block
<1>5. CASE _publish_new_config(t)
  BY <1>5 DEF _publish_new_config
<1>6. CASE _read_locked_destination(t)
  BY <1>6 DEF _read_locked_destination
<1>7. CASE _replace_destination(t)
  BY <1>7 DEF _replace_destination
<1>8. CASE _append_repository_candidate(t)
  BY <1>8 DEF _append_repository_candidate
<1>9. CASE init(t)
  BY <1>9 DEF init
<1>10. CASE plan_repository_config(t)
  BY <1>10 DEF plan_repository_config
<1>11. CASE config_show(t)
  BY <1>11 DEF config_show
<1>12. CASE config_shown(t)
  BY <1>12 DEF config_shown
<1>13. CASE config_migrate(t)
  BY <1>13 DEF config_migrate
<1>14. CASE migrate_repo_config(t)
  BY <1>14 DEF migrate_repo_config
<1>15. CASE _read_destination_mapping(t)
  BY <1>15 DEF _read_destination_mapping
<1>16. CASE _existing_migration_result(t)
  BY <1>16 DEF _existing_migration_result
<1>17. CASE migrate_publish(t)
  BY <1>17 DEF migrate_publish
<1>18. CASE migrate_branches(t)
  BY <1>18 DEF migrate_branches
<1>19. CASE migrate_repo_branches(t)
  BY <1>19 DEF migrate_repo_branches
<1> QED
  BY <1>2, <1>3, <1>4, <1>5, <1>6, <1>7, <1>8, <1>9, <1>10, <1>11, <1>12, <1>13, <1>14, <1>15, <1>16, <1>17, <1>18, <1>19
     DEF ConfigStep

LEMMA ConfigFollows ==
  ASSUME Shelled, ConfigInv, NEW t \in Terminal, ConfigStep(t)
  PROVE  Resolved(t)'
<1>1. /\ DOMAIN cfg = Terminal /\ DOMAIN cfg[t] = Register /\ Resolved(t)
  BY DEF ConfigInv, Registers
<1>2. /\ Shelled /\ Walks(t) /\ base' = base
      /\ at'[t] = "prompt" \/ todo'[t] = todo[t]
      /\ case' = case
  BY ConfigPaths, ConfigPublishes DEF Walks, Publishes
<1>0. at'[t] \in Out => Resolved(t)'
  BY DEF Out, Resolved, Publishing
<1>Q. ASSUME NEW how, Leave(t, how)
      PROVE  Resolved(t)'
  BY <1>0, <1>Q DEF Leave, Ends, Shelled, Out
<1>A. ASSUME resolve_look(t)
      PROVE  \/ \E how : Leave(t, how)
             \/ at[t] = "b_look" /\ at'[t] = "b_read" /\ cfg'[t].ret = cfg[t].ret
  BY <1>A, <1>1 DEF resolve_look, Shelled, Runs, Go, Fails, Done, Keeps, Over, Register
<1>B. ASSUME resolve_read(t)
      PROVE  \/ \E how : Leave(t, how)
             \/ /\ at[t] = "b_read" /\ at'[t] = cfg[t].ret
                /\ \/ cfg'[t].source \in {"home:repo", "home:review"}
                   \/ cfg'[t].effective = "env" /\ base.block = "none"
  BY <1>B, <1>1 DEF resolve_read, Shelled, Runs, Go, Fails, Done, Keeps, Over, Register, _load_layer
<1>C. ASSUME publish_repository_block(t)
      PROVE  \/ \E how : Leave(t, how)
             \/ at[t] = "p_look" /\ at'[t] \in {"p_link", "p_read"} /\ cfg'[t].block = cfg[t].block
  BY <1>C, <1>1 DEF publish_repository_block, Shelled, Runs, Go, Fails, Done, Keeps, Over, Register
<1>D. ASSUME _publish_new_config(t)
      PROVE  \/ \E how : Leave(t, how)
             \/ at[t] = "p_link" /\ at'[t] = "p_look" /\ cfg'[t].block = cfg[t].block
  BY <1>D, <1>1 DEF _publish_new_config, Shelled, Runs, Go, Fails, Done, Keeps, Over, Register
<1>E. ASSUME _read_locked_destination(t)
      PROVE  \/ \E how : Leave(t, how)
             \/ at[t] = "p_read" /\ at'[t] = "p_check" /\ cfg'[t].block = cfg[t].block
  BY <1>E, <1>1 DEF _read_locked_destination, Shelled, Runs, Go, Fails, Done, Keeps, Over, Register
<1>F. ASSUME migrate_repo_branches(t)
      PROVE  \/ \E how : Leave(t, how)
             \/ /\ at[t] = "m_block" /\ at'[t] = "p_look" /\ cfg'[t].block = cfg[t].effective
                /\ cfg[t].source \notin {"home:repo", "home:review"}
  BY <1>F, <1>1 DEF migrate_repo_branches, Shelled, Runs, Go, Fails, Done, Keeps, Over, Register
<1>G. ASSUME _replace_destination(t)
      PROVE  \/ \E how : Leave(t, how)
             \/ at[t] = "p_check" /\ at'[t] = "p_replace" /\ cfg'[t] = cfg[t]
  BY <1>G, <1>1 DEF _replace_destination, Shelled, Runs, Starts, Go, GoBadly, Fails, Done, Keeps, Over, Register, Resolves, Pends
<1>H. ASSUME _append_repository_candidate(t)
      PROVE  \E how : Leave(t, how)
  BY <1>H, <1>1 DEF _append_repository_candidate, Shelled, Runs, Starts, Go, GoBadly, Fails, Done, Keeps, Over, Register, Resolves, Pends
<1>I. ASSUME init(t)
      PROVE  /\ at[t] = "prompt" /\ Job(t).run = "init"
             /\ at'[t] = "b_look" /\ cfg'[t].ret = "i_plan"
  BY <1>I, <1>1 DEF init, Shelled, Runs, Starts, Go, GoBadly, Fails, Done, Keeps, Over, Register, Resolves, Pends
<1>J. ASSUME plan_repository_config(t)
      PROVE  \/ \E how : Leave(t, how)
             \/ at[t] = "i_plan" /\ at'[t] = "b_look" /\ cfg'[t].ret = "i_show"
             \/ at[t] = "i_plan" /\ at'[t] = "p_look"
  BY <1>J, <1>1 DEF plan_repository_config, Shelled, Runs, Starts, Go, GoBadly, Fails, Done, Keeps, Over, Register, Resolves, Pends
<1>K. ASSUME config_show(t)
      PROVE  /\ at[t] = "prompt" /\ Job(t).run = "config show"
             /\ at'[t] = "b_look" /\ cfg'[t].ret = "i_show"
  BY <1>K, <1>1 DEF config_show, Shelled, Runs, Starts, Go, GoBadly, Fails, Done, Keeps, Over, Register, Resolves, Pends
<1>L. ASSUME config_shown(t)
      PROVE  \E how : Leave(t, how)
  BY <1>L, <1>1 DEF config_shown, Shelled, Runs, Starts, Go, GoBadly, Fails, Done, Keeps, Over, Register, Resolves, Pends
<1>M. ASSUME config_migrate(t)
      PROVE  at'[t] = "b_look" /\ cfg'[t].ret = "m_fetch"
  BY <1>M, <1>1 DEF config_migrate, Shelled, Runs, Starts, Go, GoBadly, Fails, Done, Keeps, Over, Register, Resolves, Pends
<1>N. ASSUME migrate_repo_config(t)
      PROVE  \/ at'[t] = "m_branches"
             \/ at'[t] = "m_look" /\ case.committed # "none"
  BY <1>N, <1>1 DEF migrate_repo_config, Shelled, Runs, Starts, Go, GoBadly, Fails, Done, Keeps, Over, Register, Resolves, Pends
<1>O. ASSUME _read_destination_mapping(t)
      PROVE  at[t] = "m_look" /\ at'[t] \in {"m_branches", "m_link", "m_read"}
  BY <1>O, <1>1 DEF _read_destination_mapping, Shelled, Runs, Starts, Go, GoBadly, Fails, Done, Keeps, Over, Register, Resolves, Pends
<1>P. ASSUME _existing_migration_result(t)
      PROVE  at'[t] = "m_branches"
  BY <1>P, <1>1 DEF _existing_migration_result, Shelled, Runs, Starts, Go, GoBadly, Fails, Done, Keeps, Over, Register, Resolves, Pends
<1>R. ASSUME migrate_publish(t)
      PROVE  at[t] = "m_link" /\ at'[t] \in {"m_branches", "m_look"}
  BY <1>R, <1>1 DEF migrate_publish, Shelled, Runs, Starts, Go, GoBadly, Fails, Done, Keeps, Over, Register, Resolves, Pends
<1>S. ASSUME migrate_branches(t)
      PROVE  at'[t] = "b_look" /\ cfg'[t].ret = "m_block"
  BY <1>S, <1>1 DEF migrate_branches, Shelled, Runs, Starts, Go, GoBadly, Fails, Done, Keeps, Over, Register, Resolves, Pends
<1> USE <1>1, <1>2 DEF Resolved, Migrating, Job, Publishing
<1>3. CASE resolve_look(t)
  BY <1>3, <1>A, <1>Q
<1>4. CASE resolve_read(t)
  BY <1>4, <1>B, <1>Q
<1>5. CASE publish_repository_block(t)
  BY <1>5, <1>C, <1>Q
<1>6. CASE _publish_new_config(t)
  BY <1>6, <1>D, <1>Q
<1>7. CASE _read_locked_destination(t)
  BY <1>7, <1>E, <1>Q
<1>8. CASE _replace_destination(t)
  BY <1>8, <1>G, <1>Q
<1>9. CASE _append_repository_candidate(t)
  BY <1>9, <1>H, <1>Q
<1>10. CASE init(t)
  BY <1>10, <1>I
<1>11. CASE plan_repository_config(t)
  BY <1>11, <1>J, <1>Q
<1>12. CASE config_show(t)
  BY <1>12, <1>K
<1>13. CASE config_shown(t)
  BY <1>13, <1>L, <1>Q
<1>14. CASE config_migrate(t)
  BY <1>14, <1>M
<1>15. CASE migrate_repo_config(t)
  BY <1>15, <1>N
<1>16. CASE _read_destination_mapping(t)
  BY <1>16, <1>O
<1>17. CASE _existing_migration_result(t)
  BY <1>17, <1>P
<1>18. CASE migrate_publish(t)
  BY <1>18, <1>R
<1>19. CASE migrate_branches(t)
  BY <1>19, <1>S
<1>20. CASE migrate_repo_branches(t)
  BY <1>20, <1>F, <1>Q
<1> QED
  BY <1>3, <1>4, <1>5, <1>6, <1>7, <1>8, <1>9, <1>10, <1>11, <1>12, <1>13, <1>14, <1>15, <1>16, <1>17, <1>18, <1>19, <1>20
     DEF ConfigStep

LEMMA ConfigHolds ==
  ASSUME Shelled, ConfigInv, NEW t \in Terminal, ConfigStep(t)
  PROVE  Held(t)'
<1>1. /\ DOMAIN cfg = Terminal /\ DOMAIN cfg[t] = Register /\ DOMAIN locked = Terminal
      /\ Resolved(t) /\ Held(t) /\ HomeSound
  BY DEF ConfigInv, Registers
<1> USE <1>1 DEF Shelled, Resolved, Held, HomeSound, HomeIs, Publishing, Register, Runs, Starts, Go, GoBadly, Ends, Leave, Fails, Done, Pends, Resolves, Keeps, Over, NoConfig, Creates
<1>2. CASE resolve_look(t)
  BY <1>2 DEF resolve_look
<1>3. CASE resolve_read(t)
  BY <1>3 DEF resolve_read, Content, NoText, _load_layer
<1>4. CASE publish_repository_block(t)
  BY <1>4 DEF publish_repository_block
<1>5. CASE _publish_new_config(t)
  BY <1>5 DEF _publish_new_config
<1>6. CASE _read_locked_destination(t)
  BY <1>6 DEF _read_locked_destination, Content, Readable
<1>7. CASE _replace_destination(t)
  BY <1>7 DEF _replace_destination
<1>8. CASE _append_repository_candidate(t)
  BY <1>8 DEF _append_repository_candidate
<1>9. CASE init(t)
  BY <1>9 DEF init
<1>10. CASE plan_repository_config(t)
  BY <1>10 DEF plan_repository_config
<1>11. CASE config_show(t)
  BY <1>11 DEF config_show
<1>12. CASE config_shown(t)
  BY <1>12 DEF config_shown
<1>13. CASE config_migrate(t)
  BY <1>13 DEF config_migrate
<1>14. CASE migrate_repo_config(t)
  BY <1>14 DEF migrate_repo_config
<1>15. CASE _read_destination_mapping(t)
  BY <1>15 DEF _read_destination_mapping
<1>16. CASE _existing_migration_result(t)
  BY <1>16 DEF _existing_migration_result
<1>17. CASE migrate_publish(t)
  BY <1>17 DEF migrate_publish
<1>18. CASE migrate_branches(t)
  BY <1>18 DEF migrate_branches
<1>19. CASE migrate_repo_branches(t)
  BY <1>19 DEF migrate_repo_branches
<1> QED
  BY <1>2, <1>3, <1>4, <1>5, <1>6, <1>7, <1>8, <1>9, <1>10, <1>11, <1>12, <1>13, <1>14, <1>15, <1>16, <1>17, <1>18, <1>19
     DEF ConfigStep

\* What a step of t leaves to the other terminals.
LEMMA ConfigSpares ==
  ASSUME Shelled, ConfigInv, NEW t \in Terminal, Publishes(t), Walks(t),
         NEW u \in Terminal \ {t}
  PROVE  Resolved(u)' /\ Held(u)'
<1>1. /\ at'[u] = at[u] /\ todo'[u] = todo[u] /\ case' = case
      /\ cfg'[u] = cfg[u] /\ locked'[u] = locked[u] /\ base' = base
  BY DEF Walks, Publishes
<1>2. Resolved(u) /\ Held(u) /\ Held(t) /\ HomeSound
  BY DEF ConfigInv
<1>3. Resolved(u)'
  BY <1>1, <1>2 DEF Resolved, Migrating, Job, Publishing
<1>4. CASE home' = home /\ inodes' = inodes
  BY <1>1, <1>2, <1>3, <1>4 DEF Held, HomeSound
<1>5. CASE /\ inodes' = inodes + 1 /\ home'.ino = inodes + 1
           /\ home.kind = "absent" \/ (at[t] = "p_replace" /\ home.ino = locked[t])
  <2>1. at[u] # "p_replace"
    BY <1>2, <1>5 DEF Held, HomeSound, HomeIs, ConfigInv, Alone
  <2> QED
    BY <1>1, <1>2, <1>3, <1>5, <2>1 DEF Held, HomeSound
<1> QED
  BY <1>3, <1>4, <1>5 DEF Publishes

LEMMA ConfigKept ==
  ASSUME Shelled, ConfigInv, NEW t \in Terminal, ConfigStep(t)
  PROVE  ConfigInv'
<1>1. Publishes(t) /\ Walks(t) /\ Resolved(t)' /\ Held(t)'
  BY ConfigPaths, ConfigPublishes, ConfigFollows, ConfigHolds
<1>2. \A u \in Terminal : Resolved(u)' /\ Held(u)'
  BY <1>1, ConfigSpares
<1>3. Registers'
  BY <1>1 DEF ConfigInv, Registers, Publishes
<1>4. HomeSound'
  BY <1>1 DEF ConfigInv, HomeSound, HomeIs, Publishes
<1>5. Alone'
  BY <1>1, Z3 DEF ConfigInv, Alone, Publishes, Free, Registers
<1> QED
  BY <1>2, <1>3, <1>4, <1>5 DEF ConfigInv

\* The three writes there are.
LEMMA ConfigWrites ==
  ASSUME NEW t \in Terminal, ConfigStep(t), home' # home
  PROVE  \/ /\ at[t] = "p_link" /\ home.kind = "absent"
            /\ home'.policy = "none" /\ home'.block = cfg[t].block
         \/ /\ at[t] = "m_link" /\ home.kind = "absent"
            /\ home'.policy = case.committed /\ home'.block = "none"
         \/ /\ at[t] = "p_replace"
            /\ home'.policy = cfg[t].text.policy /\ home'.block = cfg[t].block
<1> USE DEF Runs, Creates
<1>1. CASE resolve_look(t)
  BY <1>1 DEF resolve_look
<1>2. CASE resolve_read(t)
  BY <1>2 DEF resolve_read
<1>3. CASE publish_repository_block(t)
  BY <1>3 DEF publish_repository_block
<1>4. CASE _publish_new_config(t)
  BY <1>4 DEF _publish_new_config
<1>5. CASE _read_locked_destination(t)
  BY <1>5 DEF _read_locked_destination
<1>6. CASE _replace_destination(t)
  BY <1>6 DEF _replace_destination
<1>7. CASE _append_repository_candidate(t)
  BY <1>7 DEF _append_repository_candidate
<1>8. CASE init(t)
  BY <1>8 DEF init
<1>9. CASE plan_repository_config(t)
  BY <1>9 DEF plan_repository_config
<1>10. CASE config_show(t)
  BY <1>10 DEF config_show
<1>11. CASE config_shown(t)
  BY <1>11 DEF config_shown
<1>12. CASE config_migrate(t)
  BY <1>12 DEF config_migrate
<1>13. CASE migrate_repo_config(t)
  BY <1>13 DEF migrate_repo_config
<1>14. CASE _read_destination_mapping(t)
  BY <1>14 DEF _read_destination_mapping
<1>15. CASE _existing_migration_result(t)
  BY <1>15 DEF _existing_migration_result
<1>16. CASE migrate_publish(t)
  BY <1>16 DEF migrate_publish
<1>17. CASE migrate_branches(t)
  BY <1>17 DEF migrate_branches
<1>18. CASE migrate_repo_branches(t)
  BY <1>18 DEF migrate_repo_branches
<1> QED
  BY <1>1, <1>2, <1>3, <1>4, <1>5, <1>6, <1>7, <1>8, <1>9, <1>10, <1>11, <1>12, <1>13, <1>14, <1>15, <1>16, <1>17, <1>18
     DEF ConfigStep

\* What is in the file stays in it.
FileKept ==
  /\ home.policy # "none" => home'.policy = home.policy
  /\ home.block # "none" => home'.block = home.block

LEMMA ConfigKeepsFile ==
  ASSUME ConfigInv, NEW t \in Terminal, ConfigStep(t)
  PROVE  FileKept
<1>1. Held(t) /\ HomeSound
  BY DEF ConfigInv
<1>2. CASE home' = home
  BY <1>2 DEF FileKept
<1>3. CASE home' # home
  BY <1>1, <1>3, ConfigWrites DEF FileKept, Held, HomeSound, HomeIs
<1> QED
  BY <1>2, <1>3

\* config migrate moves the settings, and changes none.
Unmoved ==
  EffectiveBranches' = EffectiveBranches /\ EffectivePolicy' = EffectivePolicy

LEMMA MigrationMoves ==
  ASSUME Shelled, ConfigInv, NEW t \in Terminal, ConfigStep(t), Migrating(t),
         home' # home
  PROVE  Unmoved
<1>1. Held(t) /\ HomeSound /\ Resolved(t)
  BY DEF ConfigInv
<1>2. case' = case /\ base' = base
  BY ConfigPaths, ConfigPublishes DEF Walks, Publishes
<1>3. CASE at[t] = "p_link"
  <2>1. /\ home.policy = "none" /\ home.block = "none" /\ home'.policy = "none"
        /\ home'.block = "env" /\ base.block = "none"
    BY <1>1, <1>3, ConfigWrites DEF HomeSound, HomeIs, Resolved, Publishing
  <2> QED
    BY <1>2, <2>1 DEF Unmoved, EffectiveBranches, EffectivePolicy
<1>4. CASE at[t] = "m_link"
  <2>1. /\ home.policy = "none" /\ home.block = "none" /\ home'.block = "none"
        /\ home'.policy = case.committed /\ case.committed # "none"
    BY <1>1, <1>4, ConfigWrites DEF HomeSound, HomeIs, Resolved
  <2> QED
    BY <1>2, <2>1 DEF Unmoved, EffectiveBranches, EffectivePolicy
<1>5. CASE at[t] = "p_replace"
  <2>1. /\ home'.policy = home.policy /\ home.block = "none"
        /\ home'.block = "env" /\ base.block = "none"
    BY <1>1, <1>5, ConfigWrites DEF Held, Resolved, Publishing
  <2> QED
    BY <1>2, <2>1 DEF Unmoved, EffectiveBranches, EffectivePolicy
<1> QED
  BY <1>3, <1>4, <1>5, ConfigWrites

LEMMA EditorKeepsConfig ==
  ASSUME Shelled, ConfigInv, EditHome
  PROVE  ConfigInv'
<1>1. /\ at' = at /\ todo' = todo /\ case' = case
      /\ base' = base /\ locked' = locked /\ cfg' = cfg
      /\ \A t \in Terminal : at[t] # "p_replace"
  BY DEF EditHome, Happens
<1>2. /\ inodes' \in Nat /\ inodes' >= inodes /\ home'.ino \in {0, inodes + 1}
      /\ HomeSound'
  BY DEF EditHome, Creates, HomeSound, HomeIs, ConfigInv
<1>3. ASSUME NEW t \in Terminal
      PROVE  Resolved(t)' /\ Held(t)'
  <2>1. Resolved(t) /\ Held(t) /\ HomeSound
    BY DEF ConfigInv
  <2>2. Resolved(t)'
    BY <1>1, <2>1 DEF Resolved, Migrating, Job, Publishing
  <2>3. Held(t)'
    BY <1>1, <1>2, <2>1 DEF Held, HomeSound
  <2> QED
    BY <2>2, <2>3
<1> QED
  BY <1>1, <1>2, <1>3 DEF ConfigInv, Registers, Alone

\* A step of t that is no step of a configuration command.
LEMMA OthersKeepConfig ==
  ASSUME Shelled, ConfigInv, NEW t \in Terminal, Walks(t), UNCHANGED configs,
         at'[t] \notin ConfigPc
  PROVE  ConfigInv'
<1>1. /\ home' = home /\ base' = base /\ inodes' = inodes /\ locked' = locked
      /\ cfg' = cfg /\ case' = case
  BY DEF configs, Walks
<1>2. Resolved(t)' /\ Held(t)'
  BY <1>1 DEF ConfigInv, Resolved, Held, Publishing, ConfigPc
<1>3. ASSUME NEW u \in Terminal \ {t}
      PROVE  Resolved(u)' /\ Held(u)'
  <2>1. at'[u] = at[u] /\ todo'[u] = todo[u] /\ Resolved(u) /\ Held(u)
    BY DEF Walks, ConfigInv
  <2>2. Resolved(u)'
    BY <1>1, <2>1 DEF Resolved, Migrating, Job
  <2>3. Held(u)'
    BY <1>1, <2>1 DEF Held
  <2> QED
    BY <2>2, <2>3
<1> QED
  BY <1>1, <1>2, <1>3 DEF ConfigInv, Registers, Alone, HomeSound, HomeIs

LEMMA KillKeepsConfig ==
  ASSUME Shelled, ConfigInv, NEW t \in Terminal, Walks(t), at'[t] = "prompt",
         ConfigKilled(t)
  PROVE  ConfigInv'
<1>1. /\ home' = home /\ base' = base /\ inodes' = inodes /\ case' = case
      /\ locked' = [locked EXCEPT ![t] = 0] /\ cfg' = [cfg EXCEPT ![t] = NoConfig]
  BY DEF ConfigKilled, Walks
<1>2. DOMAIN cfg = Terminal /\ DOMAIN locked = Terminal /\ HomeSound
  BY DEF ConfigInv, Registers
<1>3. Resolved(t)' /\ Held(t)'
  BY <1>1, <1>2 DEF Resolved, Held, Migrating, Publishing, HomeSound
<1>4. ASSUME NEW u \in Terminal \ {t}
      PROVE  Resolved(u)' /\ Held(u)'
  <2>1. cfg'[u] = cfg[u] /\ locked'[u] = locked[u]
    BY <1>1, <1>2
  <2>2. at'[u] = at[u] /\ todo'[u] = todo[u]
    BY DEF Walks
  <2>3. Resolved(u) /\ Held(u)
    BY DEF ConfigInv
  <2>4. Resolved(u)'
    BY <1>1, <2>1, <2>2, <2>3 DEF Resolved, Migrating, Job, Publishing
  <2>5. Held(u)'
    BY <1>1, <2>1, <2>2, <2>3 DEF Held
  <2> QED
    BY <2>4, <2>5
<1> QED
  BY <1>1, <1>2, <1>3, <1>4 DEF ConfigInv, Registers, Register, NoConfig, Alone, HomeSound, HomeIs

-----------------------------------------------------------------------------
(* The Compose file.                                                       *)

UpdateRegister == {"content", "existing", "action", "failed"}

\* Where the lock is held.
Locking ==
  {"compose_read", "compose_create", "compose_again", "compose_replace",
   "compose_state", "compose_unlock"}

\* Whoever is about to replace the file knows what it holds, and that its
\* user has not written it.
Synced(t) ==
  /\ upd[t].content \in VersionOrNone
  /\ at[t] \in Locking => lock = t
  /\ at[t] \in {"compose_again", "compose_replace"} => upd[t].existing \in VersionOrNone
  /\ at[t] = "compose_replace" /\ "edit_any_time" \notin case.trouble =>
       compose.file = upd[t].existing

WorldSound == world \in [main : Version, pypi : VersionOrNone, tool : VersionOrNone]

ComposeInv ==
  /\ DOMAIN upd = Terminal /\ \A t \in Terminal : DOMAIN upd[t] = UpdateRegister
  /\ compose \in [file : VersionOrNone \cup {Edited}, link : BOOLEAN,
                  recorded : VersionOrNone]
  /\ \A t \in Terminal : Synced(t)

\* Who is not t has what it had; the file changes under the lock alone.
Syncs(t) ==
  /\ DOMAIN upd' = Terminal /\ DOMAIN upd'[t] = UpdateRegister
  /\ \A u \in Terminal \ {t} : upd'[u] = upd[u]
  /\ world' = world \/ \E v \in {world.pypi, world.tool} : world' = [world EXCEPT !.tool = v]
  /\ compose' = compose
       \/ /\ at[t] \in Locking
          /\ \E k \in {"file", "recorded"} : compose' = [compose EXCEPT ![k] = upd[t].content]
  /\ \/ lock' = lock \/ (lock = Nobody /\ lock' = t)
     \/ at[t] \in Locking /\ lock' = Nobody

LEMMA UpdateSyncs ==
  ASSUME Shelled, ComposeInv, NEW t \in Terminal, UpdateStep(t)
  PROVE  Syncs(t)
<1>1. DOMAIN upd = Terminal /\ DOMAIN upd[t] = UpdateRegister
  BY DEF ComposeInv
<1> USE <1>1 DEF Syncs, UpdateRegister, Locking, Runs, Note, Over, NoUpdate, Preserve, UpdateEnds, clients, updates
<1>2. CASE update(t)
  BY <1>2 DEF update
<1>3. CASE check_latest(t)
  BY <1>3 DEF check_latest, UpgradeDue
<1>4. CASE upgrade_uv_tool(t)
  BY <1>4 DEF upgrade_uv_tool
<1>5. CASE run_fresh_artifact_refresh(t)
  BY <1>5 DEF run_fresh_artifact_refresh
<1>6. CASE download_compose(t)
  BY <1>6 DEF download_compose
<1>7. CASE _update_lock(t)
  BY <1>7 DEF _update_lock
<1>8. CASE sync_compose_file(t)
  BY <1>8 DEF sync_compose_file
<1>9. CASE compose_again(t)
  BY <1>9 DEF compose_again, NoResult
<1>10. CASE compose_replace(t)
  BY <1>10 DEF compose_replace
<1>11. CASE compose_create(t)
  BY <1>11 DEF compose_create
<1>12. CASE _write_state(t)
  BY <1>12 DEF _write_state
<1>13. CASE compose_error(t) \/ compose_unlock(t)
  BY <1>13 DEF compose_error, NoResult, compose_unlock
<1>14. CASE _refresh_update_artifacts(t)
  BY <1>14 DEF _refresh_update_artifacts
<1>15. CASE update_after(t)
  BY <1>15 DEF update_after
<1>16. CASE update_done(t)
  BY <1>16 DEF update_done
<1>17. CASE update_fails(t) \/ update_advises(t)
  BY <1>17 DEF update_fails, update_advises
<1> QED
  BY <1>2, <1>3, <1>4, <1>5, <1>6, <1>7, <1>8, <1>9, <1>10, <1>11, <1>12, <1>13, <1>14, <1>15, <1>16, <1>17
     DEF UpdateStep

LEMMA UpdateGoesOn ==
  ASSUME Shelled, ComposeInv, WorldSound, Nobody \notin Terminal, NEW t \in Terminal, UpdateStep(t)
  PROVE  Synced(t)'
<1>1. /\ DOMAIN upd = Terminal /\ DOMAIN upd[t] = UpdateRegister /\ Synced(t)
      /\ world.main \in VersionOrNone
      /\ compose \in [file : VersionOrNone \cup {Edited}, link : BOOLEAN,
                     recorded : VersionOrNone]
  BY DEF ComposeInv, WorldSound, VersionOrNone
<1>2. DOMAIN at = Terminal /\ caller[t] \in {"shell", "update_after"}
  BY DEF Shelled
<1>3. None \in VersionOrNone /\ VersionOrNone' = VersionOrNone
  BY DEF VersionOrNone
<1> USE <1>1, <1>2, <1>3 DEF Synced, UpdateRegister, Locking, Runs, Go, GoBadly, Calls, Starts, Ends, Note, Over, NoUpdate, Preserve, UpdateEnds, Updates, updates
<1>4. CASE update(t)
  BY <1>4 DEF update
<1>5. CASE check_latest(t)
  BY <1>5 DEF check_latest, UpgradeDue
<1>6. CASE upgrade_uv_tool(t)
  <2>1. upd' = upd /\ lock' = lock /\ at'[t] \in {"fresh", "update_fails"}
    BY <1>6 DEF upgrade_uv_tool
  <2> QED
    BY <2>1
<1>7. CASE run_fresh_artifact_refresh(t)
  BY <1>7 DEF run_fresh_artifact_refresh
<1>8. CASE download_compose(t)
  BY <1>8 DEF download_compose
<1>9. CASE _update_lock(t)
  BY <1>9 DEF _update_lock
<1>10. CASE sync_compose_file(t)
  BY <1>10 DEF sync_compose_file, _read_recorded_hash
<1>11. CASE compose_again(t)
  BY <1>11 DEF compose_again, NoResult
<1>12. CASE compose_replace(t)
  BY <1>12 DEF compose_replace
<1>13. CASE compose_create(t)
  <2>1. CASE compose.file = None
    <3>1. /\ upd'[t].content = upd[t].content /\ lock' = lock
          /\ at'[t] = "compose_state" /\ at[t] = "compose_create"
      BY <1>13, <2>1 DEF compose_create
    <3> QED
      BY <3>1
  <2>2. CASE compose.file # None
    <3>1. /\ upd'[t].content = upd[t].content /\ lock' = lock
          /\ at'[t] = "compose_unlock" /\ at[t] = "compose_create"
      BY <1>13, <2>2 DEF compose_create
    <3> QED
      BY <3>1
  <2> QED
    BY <2>1, <2>2
<1>14. CASE _write_state(t)
  BY <1>14 DEF _write_state
<1>15. CASE compose_error(t) \/ compose_unlock(t)
  BY <1>15 DEF compose_error, NoResult, compose_unlock
<1>16. CASE _refresh_update_artifacts(t)
  BY <1>16 DEF _refresh_update_artifacts
<1>17. CASE update_after(t)
  BY <1>17 DEF update_after
<1>18. CASE update_done(t)
  BY <1>18 DEF update_done
<1>19. CASE update_fails(t) \/ update_advises(t)
  BY <1>19 DEF update_fails, update_advises
<1> QED
  BY <1>4, <1>5, <1>6, <1>7, <1>8, <1>9, <1>10, <1>11, <1>12, <1>13, <1>14, <1>15, <1>16, <1>17, <1>18, <1>19
     DEF UpdateStep

\* Who is not t keeps what it knows, since t changes the file under the lock.
LEMMA UpdateSpares ==
  ASSUME Shelled, ComposeInv, NEW t \in Terminal, Syncs(t), Walks(t),
         NEW u \in Terminal \ {t}
  PROVE  Synced(u)'
<1>1. /\ at'[u] = at[u] /\ upd'[u] = upd[u] /\ case' = case
      /\ Synced(u) /\ Synced(t)
  BY DEF Walks, Syncs, ComposeInv
<1>2. VersionOrNone' = VersionOrNone
  BY DEF VersionOrNone
<1>3. CASE at[u] \notin Locking
  BY <1>1, <1>2, <1>3 DEF Synced, Locking
<1>4. CASE at[u] \in Locking
  <2>1. lock = u /\ at[t] \notin Locking
    BY <1>1, <1>4 DEF Synced
  <2>2. lock' = u /\ compose' = compose
    BY <2>1, NobodyAssumption DEF Syncs
  <2> QED
    BY <1>1, <1>2, <2>2 DEF Synced
<1> QED
  BY <1>3, <1>4

LEMMA UpdateKeepsCompose ==
  ASSUME Shelled, ComposeInv, WorldSound, NEW t \in Terminal, UpdateStep(t)
  PROVE  ComposeInv' /\ WorldSound'
<1>1. Walks(t) /\ Syncs(t) /\ Synced(t)'
  BY UpdatePaths, UpdateSyncs, UpdateGoesOn, NobodyAssumption
<1>2. upd[t].content \in VersionOrNone
  BY DEF ComposeInv, Synced
<1>3. compose' \in [file : VersionOrNone \cup {Edited}, link : BOOLEAN,
                   recorded : VersionOrNone]
  <2>1. PICK k \in {"file", "recorded"} :
          compose' = compose \/ compose' = [compose EXCEPT ![k] = upd[t].content]
    BY <1>1 DEF Syncs
  <2>2. compose \in [file : VersionOrNone \cup {Edited}, link : BOOLEAN,
                    recorded : VersionOrNone]
    BY DEF ComposeInv
  <2>3. CASE k = "file"
    BY <1>2, <2>1, <2>2, <2>3
  <2>4. CASE k = "recorded"
    BY <1>2, <2>1, <2>2, <2>4
  <2> QED
    BY <2>3, <2>4
<1>4. WorldSound'
  BY <1>1 DEF Syncs, WorldSound, VersionOrNone, Version
<1>5. \A u \in Terminal : Synced(u)'
  BY <1>1, UpdateSpares
<1>6. /\ DOMAIN upd' = Terminal
      /\ \A u \in Terminal : DOMAIN upd'[u] = UpdateRegister
  BY <1>1 DEF Syncs, ComposeInv
<1> QED
  BY <1>3, <1>4, <1>5, <1>6 DEF ComposeInv, VersionOrNone, Version, Edited

\* A command that does not update.
LEMMA OthersKeepCompose ==
  ASSUME Shelled, ComposeInv, NEW t \in Terminal, Walks(t), UNCHANGED updates,
         at'[t] \notin UpdatePc \ {"update_after"}
  PROVE  ComposeInv'
<1>1. compose' = compose /\ lock' = lock /\ upd' = upd
  BY DEF updates
<1>2. Synced(t)'
  BY <1>1 DEF ComposeInv, Synced, Locking, UpdatePc, VersionOrNone, Version
<1>3. ASSUME NEW u \in Terminal \ {t}
      PROVE  Synced(u)'
  BY <1>1 DEF ComposeInv, Synced, Locking, Walks, VersionOrNone, Version
<1> QED
  BY <1>1, <1>2, <1>3 DEF ComposeInv, VersionOrNone, Version, Edited

LEMMA KillKeepsCompose ==
  ASSUME Shelled, ComposeInv, NEW t \in Terminal, Walks(t), at'[t] = "prompt",
         UpdateKilled(t)
  PROVE  ComposeInv'
<1>1. /\ DOMAIN upd = Terminal /\ upd' = [upd EXCEPT ![t] = NoUpdate]
      /\ lock' = IF lock = t THEN Nobody ELSE lock
      /\ compose' = compose
  BY DEF UpdateKilled, ComposeInv
<1>2. Synced(t)'
  BY <1>1 DEF Synced, Locking, NoUpdate, VersionOrNone
<1>3. ASSUME NEW u \in Terminal \ {t}
      PROVE  Synced(u)'
  <2>1. at'[u] = at[u] /\ upd'[u] = upd[u] /\ Synced(u) /\ case' = case
    BY <1>1 DEF Walks, ComposeInv
  <2> QED
    BY <1>1, <2>1 DEF Synced, Locking, VersionOrNone, Version
<1> QED
  BY <1>1, <1>2, <1>3
     DEF ComposeInv, UpdateRegister, NoUpdate, VersionOrNone, Version, Edited

LEMMA EditorKeepsCompose ==
  ASSUME Shelled, ComposeInv, EditCompose
  PROVE  ComposeInv' /\ at' = at /\ compose'.file \in {Edited, None}
<1>1. /\ at' = at /\ lock' = lock /\ upd' = upd
      /\ \A t \in Terminal :
           at[t] # "compose_replace" \/ "edit_any_time" \in case.trouble
      /\ case' = case
  BY DEF EditCompose, Happens
<1>2. PICK file \in {Edited, None} : compose' = [compose EXCEPT !.file = file]
  BY DEF EditCompose
<1>3. \A t \in Terminal : Synced(t)'
  BY <1>1 DEF ComposeInv, Synced, Locking, VersionOrNone, Version
<1> QED
  BY <1>1, <1>2, <1>3 DEF ComposeInv, VersionOrNone, Version, Edited, None

\* The two writes there are.
LEMMA ComposeWrites ==
  ASSUME ComposeInv, NEW t \in Terminal, UpdateStep(t), compose'.file # compose.file
  PROVE  at[t] = "compose_replace" \/ compose.file = None
<1>1. compose \in [file : VersionOrNone \cup {Edited}, link : BOOLEAN,
                  recorded : VersionOrNone]
  BY DEF ComposeInv
<1> USE <1>1 DEF Runs, updates, UpdateEnds
<1>2. CASE update(t)
  BY <1>2 DEF update
<1>3. CASE check_latest(t)
  BY <1>3 DEF check_latest, UpgradeDue
<1>4. CASE upgrade_uv_tool(t)
  BY <1>4 DEF upgrade_uv_tool
<1>5. CASE run_fresh_artifact_refresh(t)
  BY <1>5 DEF run_fresh_artifact_refresh
<1>6. CASE download_compose(t)
  BY <1>6 DEF download_compose
<1>7. CASE _update_lock(t)
  BY <1>7 DEF _update_lock
<1>8. CASE sync_compose_file(t)
  BY <1>8 DEF sync_compose_file
<1>9. CASE compose_again(t)
  BY <1>9 DEF compose_again, NoResult
<1>10. CASE compose_replace(t)
  BY <1>10 DEF compose_replace
<1>11. CASE compose_create(t)
  BY <1>11 DEF compose_create
<1>12. CASE _write_state(t)
  BY <1>12 DEF _write_state
<1>13. CASE compose_error(t) \/ compose_unlock(t)
  BY <1>13 DEF compose_error, NoResult, compose_unlock
<1>14. CASE _refresh_update_artifacts(t)
  BY <1>14 DEF _refresh_update_artifacts
<1>15. CASE update_after(t)
  BY <1>15 DEF update_after
<1>16. CASE update_done(t)
  BY <1>16 DEF update_done
<1>17. CASE update_fails(t) \/ update_advises(t)
  BY <1>17 DEF update_fails, update_advises
<1> QED
  BY <1>2, <1>3, <1>4, <1>5, <1>6, <1>7, <1>8, <1>9, <1>10, <1>11, <1>12, <1>13, <1>14, <1>15, <1>16, <1>17
     DEF UpdateStep

LEMMA EditedIsNoVersion == Edited \notin VersionOrNone
BY ShippedAssumption DEF Edited, VersionOrNone, Version, None

LEMMA UpdateKeepsEdited ==
  ASSUME ComposeInv, NEW t \in Terminal, UpdateStep(t), compose.file = Edited,
         "edit_any_time" \notin case.trouble
  PROVE  compose'.file = Edited
<1>1. None # Edited
  BY EditedIsNoVersion DEF VersionOrNone
<1>2. at[t] # "compose_replace"
  BY EditedIsNoVersion DEF ComposeInv, Synced
<1> QED
  BY <1>1, <1>2, ComposeWrites

-----------------------------------------------------------------------------
(* The launcher.                                                           *)

Widget ==
  {"screen", "found", "selected", "value", "prepared", "answer", "checking",
   "visible", "keys", "argv"}

\* A preview is of the form as it stands, and a check that is waited for has
\* its screen.
Drawn(u) ==
  /\ u.screen = "preview" => u.prepared = u.value /\ u.value = "good"
  /\ u.checking /\ u.visible => u.screen = "update_result"

UiInv ==
  DOMAIN ui = Terminal /\ \A t \in Terminal : DOMAIN ui[t] = Widget /\ Drawn(ui[t])

\* What may be seen to happen at t.
Confirmed(t) ==
  ui'[t].argv # "none" /\ ui[t].argv = "none" =>
    \/ On(t, "preview") /\ ui'[t].argv = ui[t].value /\ ui[t].value = "good"
    \/ On(t, "update_result") /\ ui'[t].argv = "update" /\ ~ui[t].checking
NotMoved(t) ==
  ui[t].checking /\ ~ui'[t].checking /\ at'[t] = "launcher" =>
    ui'[t].screen = ui[t].screen

Draws(t) ==
  /\ DOMAIN ui' = Terminal /\ DOMAIN ui'[t] = Widget
  /\ Drawn(ui'[t]) /\ Confirmed(t) /\ NotMoved(t)
  /\ \A u \in Terminal \ {t} : ui'[u] = ui[u]

\* A key sets some widgets, and leaves the others.
LEMMA KeyPressed ==
  ASSUME UiInv, NEW t \in Terminal, NEW r, Press(t, r),
         DOMAIN r \subseteq Widget \ {"keys"}
  PROVE  /\ DOMAIN ui' = Terminal /\ DOMAIN ui'[t] = Widget
         /\ \A u \in Terminal \ {t} : ui'[u] = ui[u]
         /\ \A k \in DOMAIN r : ui'[t][k] = r[k]
         /\ \A k \in Widget \ DOMAIN r : k # "keys" => ui'[t][k] = ui[t][k]
BY DEF UiInv, Press, Over, Widget

LEMMA LauncherDraws ==
  ASSUME Shelled, UiInv, NEW t \in Terminal, LauncherStep(t)
  PROVE  Draws(t)
<1>1. /\ DOMAIN ui = Terminal /\ DOMAIN ui[t] = Widget /\ Drawn(ui[t])
      /\ DOMAIN at = Terminal
  BY DEF UiInv, Shelled
<1>A. ASSUME open_preview(t) PROVE Draws(t)
  <2>1. CASE ui[t].value # "good"
    <3>1. Press(t, [screen |-> "details"])
      BY <1>A, <2>1 DEF open_preview
    <3>2. /\ ui'[t].screen = "details" /\ ui'[t].argv = ui[t].argv
          /\ ui'[t].checking = ui[t].checking /\ ui'[t].visible = ui[t].visible
          /\ DOMAIN ui' = Terminal /\ DOMAIN ui'[t] = Widget
          /\ \A u \in Terminal \ {t} : ui'[u] = ui[u]
      BY <3>1, KeyPressed DEF Widget
    <3> QED
      BY <1>1, <1>A, <3>2 DEF Draws, Drawn, Confirmed, NotMoved, open_preview, On
  <2>2. CASE ui[t].value = "good"
    <3>1. Press(t, [screen |-> "preview", prepared |-> ui[t].value])
      BY <1>A, <2>2 DEF open_preview
    <3>2. /\ ui'[t].screen = "preview" /\ ui'[t].prepared = ui[t].value
          /\ ui'[t].value = ui[t].value /\ ui'[t].argv = ui[t].argv
          /\ ui'[t].checking = ui[t].checking /\ ui'[t].visible = ui[t].visible
          /\ DOMAIN ui' = Terminal /\ DOMAIN ui'[t] = Widget
          /\ \A u \in Terminal \ {t} : ui'[u] = ui[u]
      BY <3>1, KeyPressed DEF Widget
    <3> QED
      BY <1>1, <1>A, <2>2, <3>2 DEF Draws, Drawn, Confirmed, NotMoved, open_preview, On
  <2> QED
    BY <2>1, <2>2
<1>B. ASSUME _start_update_check(t) PROVE Draws(t)
  <2>1. CASE ui[t].answer # "none"
    <3>1. Press(t, [screen |-> "update_result"])
      BY <1>B, <2>1 DEF _start_update_check
    <3>2. /\ ui'[t].screen = "update_result" /\ ui'[t].argv = ui[t].argv
          /\ ui'[t].checking = ui[t].checking
          /\ DOMAIN ui' = Terminal /\ DOMAIN ui'[t] = Widget
          /\ \A u \in Terminal \ {t} : ui'[u] = ui[u]
      BY <3>1, KeyPressed DEF Widget
    <3> QED
      BY <1>1, <3>2 DEF Draws, Drawn, Confirmed, NotMoved
  <2>2. CASE ui[t].answer = "none"
    <3>1. Press(t, [screen |-> "update_result", checking |-> TRUE, visible |-> TRUE])
      BY <1>B, <2>2 DEF _start_update_check
    <3>2. /\ ui'[t].screen = "update_result" /\ ui'[t].argv = ui[t].argv
          /\ ui'[t].checking = TRUE
          /\ DOMAIN ui' = Terminal /\ DOMAIN ui'[t] = Widget
          /\ \A u \in Terminal \ {t} : ui'[u] = ui[u]
      BY <3>1, KeyPressed DEF Widget
    <3> QED
      BY <1>1, <3>2 DEF Draws, Drawn, Confirmed, NotMoved
  <2> QED
    BY <2>1, <2>2
<1>C. ASSUME back(t) PROVE Draws(t)
  <2>1. CASE On(t, "preview") /\ Press(t, [screen |-> "details"])
    <3>1. /\ ui'[t].screen = "details" /\ ui'[t].argv = ui[t].argv
          /\ ui'[t].checking = ui[t].checking /\ ui'[t].visible = ui[t].visible
          /\ DOMAIN ui' = Terminal /\ DOMAIN ui'[t] = Widget
          /\ \A u \in Terminal \ {t} : ui'[u] = ui[u]
      BY <2>1, KeyPressed DEF Widget
    <3> QED
      BY <1>1, <2>1, <3>1 DEF Draws, Drawn, Confirmed, NotMoved, On
  <2>2. CASE On(t, "details") /\ Press(t, [screen |-> "palette", prepared |-> "none"])
    <3>1. /\ ui'[t].screen = "palette" /\ ui'[t].argv = ui[t].argv
          /\ ui'[t].checking = ui[t].checking /\ ui'[t].visible = ui[t].visible
          /\ DOMAIN ui' = Terminal /\ DOMAIN ui'[t] = Widget
          /\ \A u \in Terminal \ {t} : ui'[u] = ui[u]
      BY <2>2, KeyPressed DEF Widget
    <3> QED
      BY <1>1, <2>2, <3>1 DEF Draws, Drawn, Confirmed, NotMoved, On
  <2>3. CASE \E answer : Press(t, [screen |-> "details", visible |-> FALSE, answer |-> answer])
    <3>1. PICK answer : Press(t, [screen |-> "details", visible |-> FALSE, answer |-> answer])
      BY <2>3
    <3>2. /\ ui'[t].screen = "details" /\ ui'[t].argv = ui[t].argv
          /\ ui'[t].checking = ui[t].checking /\ ui'[t].visible = FALSE
          /\ DOMAIN ui' = Terminal /\ DOMAIN ui'[t] = Widget
          /\ \A u \in Terminal \ {t} : ui'[u] = ui[u]
      BY <3>1, KeyPressed DEF Widget
    <3> QED
      BY <1>1, <3>2 DEF Draws, Drawn, Confirmed, NotMoved
  <2> QED
    BY <1>C, <2>1, <2>2, <2>3 DEF back
<1>D. ASSUME confirm(t) PROVE Draws(t)
  <2>1. CASE /\ On(t, "preview") /\ ui[t].prepared # "none"
             /\ Leaves(t, ui[t].prepared, Go(t, "launched"))
    <3>1. /\ ui' = [ui EXCEPT ![t] = [NoUi EXCEPT !.argv = ui[t].prepared]]
          /\ at'[t] = "launched"
      BY <1>1, <2>1 DEF Leaves, Go
    <3>2. /\ DOMAIN ui' = Terminal /\ DOMAIN ui'[t] = Widget
          /\ \A u \in Terminal \ {t} : ui'[u] = ui[u]
          /\ ui'[t].argv = ui[t].prepared /\ Drawn(ui'[t])
      BY <1>1, <3>1 DEF NoUi, Widget, Drawn
    <3> QED
      BY <1>1, <2>1, <3>1, <3>2 DEF Draws, Drawn, Confirmed, NotMoved, On
  <2>2. CASE /\ On(t, "update_result") /\ _can_run_update(t)
             /\ Leaves(t, "update", Go(t, "launched_update"))
    <3>1. /\ ui' = [ui EXCEPT ![t] = [NoUi EXCEPT !.argv = "update"]]
          /\ at'[t] = "launched_update"
      BY <1>1, <2>2 DEF Leaves, Go
    <3>2. /\ DOMAIN ui' = Terminal /\ DOMAIN ui'[t] = Widget
          /\ \A u \in Terminal \ {t} : ui'[u] = ui[u]
          /\ ui'[t].argv = "update" /\ Drawn(ui'[t])
      BY <1>1, <3>1 DEF NoUi, Widget, Drawn
    <3> QED
      BY <1>1, <2>2, <3>1, <3>2 DEF Draws, Drawn, Confirmed, NotMoved, On, _can_run_update
  <2> QED
    BY <1>D, <2>1, <2>2 DEF confirm
<1> USE <1>1 DEF Draws, Drawn, Confirmed, NotMoved, Widget, On, Active, Press, Over, Runs, Starts, Go, Ends, NoUi, Leaves, Shelled, Entry
<1>2. CASE launcher(t)
  BY <1>2 DEF launcher
<1>3. CASE set_query(t)
  BY <1>3 DEF set_query
<1>4. CASE move(t)
  BY <1>4 DEF move
<1>5. CASE open_selected(t)
  BY <1>5 DEF open_selected
<1>6. CASE set_value(t)
  BY <1>6 DEF set_value
<1>7. CASE open_preview(t)
  BY <1>7, <1>A
<1>8. CASE _start_update_check(t)
  BY <1>8, <1>B
<1>9. CASE _finish_update_check(t)
  BY <1>9 DEF _finish_update_check
<1>10. CASE back(t)
  BY <1>10, <1>C
<1>11. CASE confirm(t)
  BY <1>11, <1>D
<1>12. CASE cancel(t)
  BY <1>12 DEF cancel
<1>13. CASE launched(t)
  BY <1>13 DEF launched
<1> QED
  BY <1>2, <1>3, <1>4, <1>5, <1>6, <1>7, <1>8, <1>9, <1>10, <1>11, <1>12, <1>13
     DEF LauncherStep

-----------------------------------------------------------------------------
(* The whole workstation.                                                  *)

MachineInv == Shelled /\ ConfigInv /\ ComposeInv /\ WorldSound /\ UiInv

\* What a step leaves of the decisions of a person.
Stands ==
  /\ at' # at => FileKept
  /\ home' # home =>
       \A t \in Terminal : at'[t] # at[t] /\ Migrating(t) => Unmoved
  /\ compose.file = Edited /\ compose'.file # Edited
     /\ "edit_any_time" \notin case.trouble =>
       compose'.file = None /\ \A t \in Terminal : at'[t] = at[t]
  /\ ui' # ui => \A t \in Terminal : Confirmed(t) /\ NotMoved(t)

LEMMA WalksShelled ==
  ASSUME Shelled, NEW t \in Terminal, Walks(t)
  PROVE  Shelled'
BY DEF Shelled, Walks

\* A step that leaves a part of the machine alone leaves its decisions alone.
LEMMA SameFile == home' = home => FileKept
BY DEF FileKept

LEMMA SameUi ==
  ASSUME UiInv, ui' = ui
  PROVE  UiInv'
BY DEF UiInv, Drawn

LEMMA DrawsUi ==
  ASSUME UiInv, NEW t \in Terminal, Draws(t)
  PROVE  UiInv' /\ \A u \in Terminal : Confirmed(u) /\ NotMoved(u)
<1>1. UiInv'
  BY DEF UiInv, Draws
<1>2. ASSUME NEW u \in Terminal
      PROVE  Confirmed(u) /\ NotMoved(u)
  BY DEF Draws, Confirmed, NotMoved
<1> QED
  BY <1>1, <1>2

LEMMA PcsApart ==
  /\ InstallPc \cap ConfigPc = {} /\ InstallPc \cap UpdatePc = {}
  /\ UpdatePc \cap ConfigPc = {} /\ Out \cap ConfigPc = {}
  /\ Out \cap UpdatePc = {"update_after"}
BY DEF InstallPc, ConfigPc, UpdatePc, Out

LEMMA InstallingStands ==
  ASSUME MachineInv, NEW t \in Terminal, Installing(t)
  PROVE  MachineInv' /\ Stands
<1>1. InstallStep(t) /\ UNCHANGED updates /\ UNCHANGED configs /\ ui' = ui
  BY DEF Installing
<1>2. Walks(t) /\ at'[t] \in InstallPc \cup Out /\ world' = world
  BY <1>1, PlainPaths, CodexPaths, ClaudePaths DEF InstallStep, MachineInv
<1>3. Shelled' /\ ConfigInv' /\ ComposeInv' /\ UiInv'
  BY <1>1, <1>2, WalksShelled, OthersKeepConfig, OthersKeepCompose, SameUi, PcsApart
     DEF MachineInv
<1>4. WorldSound'
  BY <1>2 DEF MachineInv, WorldSound, Version, VersionOrNone
<1>5. Stands
  BY <1>1, SameFile DEF Stands, configs, updates
<1> QED
  BY <1>3, <1>4, <1>5 DEF MachineInv

LEMMA UpdatingStands ==
  ASSUME MachineInv, NEW t \in Terminal, Updating(t)
  PROVE  MachineInv' /\ Stands
<1>1. UpdateStep(t) /\ UNCHANGED configs /\ ui' = ui
  BY DEF Updating
<1>2. Walks(t) /\ at'[t] \in {"client"} \cup UpdatePc \cup Out
  BY <1>1, UpdatePaths DEF MachineInv
<1>3. at'[t] \notin ConfigPc
  BY <1>2, PcsApart DEF ConfigPc
<1>4. ComposeInv' /\ WorldSound'
  BY <1>1, UpdateKeepsCompose DEF MachineInv
<1>5. Shelled' /\ ConfigInv' /\ UiInv'
  BY <1>1, <1>2, <1>3, WalksShelled, OthersKeepConfig, SameUi DEF MachineInv
<1>6. compose.file = Edited /\ "edit_any_time" \notin case.trouble =>
        compose'.file = Edited
  BY <1>1, UpdateKeepsEdited DEF MachineInv
<1>7. Stands
  BY <1>1, <1>6, SameFile DEF Stands, configs
<1> QED
  BY <1>4, <1>5, <1>7 DEF MachineInv

LEMMA ServingStands ==
  ASSUME MachineInv, NEW t \in Terminal, Serving(t)
  PROVE  MachineInv' /\ Stands
<1>1. ServiceStep(t) /\ UNCHANGED configs /\ ui' = ui
  BY DEF Serving
<1>2. Walks(t) /\ at'[t] \in {"check_probe", "check_graph", "check_providers"} \cup Out
  BY <1>1, ServicePaths DEF MachineInv
<1>3. UNCHANGED updates /\ world' = world
  BY <1>1 DEF ServiceStep, start_services, stop_services, Composes, check, check_probe,
     check_graph, check_providers, clients
<1>4. at'[t] \notin ConfigPc /\ at'[t] \notin UpdatePc \ {"update_after"}
  BY <1>2 DEF ConfigPc, UpdatePc, Out
<1>5. Shelled' /\ ConfigInv' /\ ComposeInv' /\ UiInv'
  BY <1>1, <1>2, <1>3, <1>4, WalksShelled, OthersKeepConfig, OthersKeepCompose, SameUi
     DEF MachineInv
<1>6. WorldSound'
  BY <1>3 DEF MachineInv, WorldSound, Version, VersionOrNone
<1>7. Stands
  BY <1>1, <1>3, SameFile DEF Stands, configs, updates
<1> QED
  BY <1>5, <1>6, <1>7 DEF MachineInv

LEMMA ConfiguringStands ==
  ASSUME MachineInv, NEW t \in Terminal, Configuring(t)
  PROVE  MachineInv' /\ Stands
<1>1. ConfigStep(t) /\ UNCHANGED updates /\ world' = world /\ ui' = ui
  BY DEF Configuring, clients
<1>2. Walks(t) /\ at'[t] \in ConfigPc \cup Out
  BY <1>1, ConfigPaths DEF MachineInv
<1>3. at'[t] \notin UpdatePc \ {"update_after"}
  BY <1>2, PcsApart
<1>4. Shelled' /\ ConfigInv' /\ ComposeInv' /\ UiInv'
  BY <1>1, <1>2, <1>3, WalksShelled, ConfigKept, OthersKeepCompose, SameUi DEF MachineInv
<1>5. WorldSound'
  BY <1>1 DEF MachineInv, WorldSound, Version, VersionOrNone
<1>6. ASSUME NEW u \in Terminal, at'[u] # at[u], Migrating(u), home' # home
      PROVE  Unmoved
  BY <1>1, <1>2, <1>6, MigrationMoves DEF MachineInv, Walks
<1>7. FileKept
  BY <1>1, ConfigKeepsFile DEF MachineInv
<1>8. Stands
  BY <1>1, <1>6, <1>7 DEF Stands, updates
<1> QED
  BY <1>4, <1>5, <1>8 DEF MachineInv

LEMMA ReportingStands ==
  ASSUME MachineInv, NEW t \in Terminal, Reporting(t)
  PROVE  MachineInv' /\ Stands
<1>1. ReportStep(t) /\ UNCHANGED updates /\ world' = world /\ UNCHANGED configs /\ ui' = ui
  BY DEF Reporting, clients
<1>2. Walks(t) /\ at'[t] \in {"r_base", "r_committed", "r_home", "r_told"} \cup Out
  BY <1>1, ReportPaths DEF MachineInv
<1>3. at'[t] \notin ConfigPc /\ at'[t] \notin UpdatePc \ {"update_after"}
  BY <1>2 DEF ConfigPc, UpdatePc, Out
<1>4. Shelled' /\ ConfigInv' /\ ComposeInv' /\ UiInv'
  BY <1>1, <1>2, <1>3, WalksShelled, OthersKeepConfig, OthersKeepCompose, SameUi
     DEF MachineInv
<1>5. WorldSound'
  BY <1>1 DEF MachineInv, WorldSound, Version, VersionOrNone
<1>6. Stands
  BY <1>1, SameFile DEF Stands, configs, updates
<1> QED
  BY <1>4, <1>5, <1>6 DEF MachineInv

LEMMA LaunchingStands ==
  ASSUME MachineInv, NEW t \in Terminal, Launching(t)
  PROVE  MachineInv' /\ Stands
<1>1. UNCHANGED updates /\ world' = world /\ UNCHANGED configs
  BY DEF Launching, clients
<1>2. CASE LauncherStep(t)
  <2>1. Walks(t) /\ at'[t] \in {"launcher", "launched", "launched_update"} \cup Out
    BY <1>2, LauncherPaths DEF MachineInv
  <2>2. at'[t] \notin ConfigPc /\ at'[t] \notin UpdatePc \ {"update_after"}
    BY <2>1 DEF ConfigPc, UpdatePc, Out
  <2>3. UiInv' /\ \A u \in Terminal : Confirmed(u) /\ NotMoved(u)
    BY <1>2, LauncherDraws, DrawsUi DEF MachineInv
  <2>4. Shelled' /\ ConfigInv' /\ ComposeInv'
    BY <1>1, <2>1, <2>2, WalksShelled, OthersKeepConfig, OthersKeepCompose DEF MachineInv
  <2>5. WorldSound'
    BY <1>1 DEF MachineInv, WorldSound, Version, VersionOrNone
  <2>6. Stands
    BY <1>1, <2>3, SameFile DEF Stands, configs, updates
  <2> QED
    BY <2>3, <2>4, <2>5, <2>6 DEF MachineInv
<1>3. CASE launched_update(t)
  <2>1. Walks(t) /\ at'[t] \in {"compose_fetch", "upgrade", "latest"}
    BY <1>3 DEF launched_update, Updates, Runs, Go, Walks, MachineInv, Shelled
  <2>2. at'[t] \notin ConfigPc
    BY <2>1 DEF ConfigPc
  <2>3. Draws(t)
    BY <1>3, <2>1 DEF launched_update, Draws, Drawn, Confirmed, NotMoved, NoUi, Widget,
       MachineInv, UiInv
  <2>4. UiInv' /\ \A u \in Terminal : Confirmed(u) /\ NotMoved(u)
    BY <2>3, DrawsUi DEF MachineInv
  <2>5. Synced(t)'
    BY <1>1, <2>1 DEF MachineInv, ComposeInv, Synced, Locking, updates, VersionOrNone, Version
  <2>6. ComposeInv'
    <3>1. Syncs(t)
      BY <1>1 DEF Syncs, MachineInv, ComposeInv, updates
    <3>2. \A u \in Terminal : Synced(u)'
      BY <2>1, <2>5, <3>1, UpdateSpares DEF MachineInv
    <3> QED
      BY <1>1, <3>2
         DEF MachineInv, ComposeInv, updates, VersionOrNone, Version, Edited
  <2>7. Shelled' /\ ConfigInv'
    BY <1>1, <2>1, <2>2, WalksShelled, OthersKeepConfig DEF MachineInv
  <2>8. WorldSound'
    BY <1>1 DEF MachineInv, WorldSound, Version, VersionOrNone
  <2>9. Stands
    BY <1>1, <2>4, SameFile DEF Stands, configs, updates
  <2> QED
    BY <2>4, <2>6, <2>7, <2>8, <2>9 DEF MachineInv
<1> QED
  BY <1>2, <1>3 DEF Launching

LEMMA KilledStands ==
  ASSUME MachineInv, NEW t \in Terminal, Killed(t)
  PROVE  MachineInv' /\ Stands
<1>1. /\ Kill(t) /\ world' = world /\ UpdateKilled(t) /\ ConfigKilled(t)
      /\ LauncherKilled(t)
  BY DEF Killed
<1>2. Walks(t) /\ at'[t] = "prompt"
  BY <1>1 DEF Kill, Walks, MachineInv, Shelled
<1>3. Draws(t)
  BY <1>1, <1>2 DEF LauncherKilled, Draws, Drawn, Confirmed, NotMoved, NoUi, Widget,
     MachineInv, UiInv
<1>4. UiInv' /\ \A u \in Terminal : Confirmed(u) /\ NotMoved(u)
  BY <1>3, DrawsUi DEF MachineInv
<1>5. Shelled' /\ ConfigInv' /\ ComposeInv'
  BY <1>1, <1>2, WalksShelled, KillKeepsConfig, KillKeepsCompose DEF MachineInv
<1>6. WorldSound'
  BY <1>1 DEF MachineInv, WorldSound, Version, VersionOrNone
<1>7. home' = home /\ compose' = compose
  BY <1>1 DEF ConfigKilled, UpdateKilled
<1>8. Stands
  BY <1>4, <1>7, SameFile DEF Stands
<1> QED
  BY <1>4, <1>5, <1>6, <1>8 DEF MachineInv

LEMMA StillStands ==
  ASSUME MachineInv, at' = at, todo' = todo, case' = case, caller' = caller, told' = told,
         UNCHANGED configs \/ ConfigInv',
         UNCHANGED updates \/ ComposeInv', WorldSound', ui' = ui,
         compose'.file # compose.file => compose'.file \in {Edited, None}
  PROVE  MachineInv' /\ Stands
<1>1. Shelled' /\ UiInv'
  BY SameUi DEF MachineInv, Shelled
<1>2. ConfigInv'
  <2>1. CASE UNCHANGED configs
    <3>1. /\ home' = home /\ base' = base /\ inodes' = inodes /\ locked' = locked
          /\ cfg' = cfg
      BY <2>1 DEF configs
    <3>2. \A t \in Terminal : Resolved(t)'
      BY <3>1 DEF MachineInv, ConfigInv, Resolved, Migrating, Job, Publishing
    <3>3. \A t \in Terminal : Held(t)'
      BY <3>1 DEF MachineInv, ConfigInv, Held
    <3> QED
      BY <3>1, <3>2, <3>3 DEF MachineInv, ConfigInv, Registers, HomeSound, HomeIs, Alone
  <2> QED
    BY <2>1
<1>3. ComposeInv'
  BY DEF updates, MachineInv, ComposeInv, Synced, Locking, VersionOrNone, Version, Edited
<1>4. Stands
  BY DEF Stands
<1> QED
  BY <1>1, <1>2, <1>3, <1>4 DEF MachineInv

LEMMA OthersStand ==
  ASSUME MachineInv, Others
  PROVE  MachineInv' /\ Stands
<1>1. CASE People /\ UNCHANGED <<updates, containers, configs, report, ui>>
  <2>1. /\ at' = at /\ todo' = todo /\ case' = case /\ caller' = caller /\ told' = told
        /\ world' = world
             \/ (world.main + 1 \in Version /\ world' = [world EXCEPT !.main = @ + 1])
             \/ world' = [world EXCEPT !.pypi = world.main]
    BY <1>1 DEF People, Edit, EditSkill, Merge, Release, Happens
  <2>2. WorldSound'
    BY <2>1 DEF MachineInv, WorldSound, Version, VersionOrNone
  <2> QED
    BY <1>1, <2>1, <2>2, StillStands DEF configs, updates
<1>2. CASE EditCompose /\ UNCHANGED <<containers, configs, report, ui>>
  <2>1. /\ at' = at /\ todo' = todo /\ case' = case /\ caller' = caller /\ told' = told
        /\ world' = world
    BY <1>2 DEF EditCompose, Happens, clients
  <2>2. ComposeInv' /\ compose'.file \in {Edited, None}
    BY <1>2, EditorKeepsCompose DEF MachineInv
  <2>3. WorldSound'
    BY <2>1 DEF MachineInv, WorldSound, Version, VersionOrNone
  <2> QED
    BY <1>2, <2>1, <2>2, <2>3, StillStands DEF configs
<1>3. CASE Crowd /\ UNCHANGED <<configs, report, ui>>
  <2>1. /\ at' = at /\ todo' = todo /\ case' = case /\ caller' = caller /\ told' = told
        /\ world' = world
        /\ UNCHANGED updates
    BY <1>3 DEF Crowd, Happens, clients
  <2>2. WorldSound'
    BY <2>1 DEF MachineInv, WorldSound, Version, VersionOrNone
  <2> QED
    BY <1>3, <2>1, <2>2, StillStands DEF configs, updates
<1>4. CASE EditHome /\ UNCHANGED <<clients, updates, containers, report, ui>>
  <2>1. /\ at' = at /\ todo' = todo /\ case' = case /\ caller' = caller /\ told' = told
        /\ world' = world
    BY <1>4 DEF EditHome, Happens, clients
  <2>2. ConfigInv'
    BY <1>4, EditorKeepsConfig DEF MachineInv
  <2>3. WorldSound'
    BY <2>1 DEF MachineInv, WorldSound, Version, VersionOrNone
  <2> QED
    BY <1>4, <2>1, <2>2, <2>3, StillStands DEF updates
<1> QED
  BY <1>1, <1>2, <1>3, <1>4 DEF Others

LEMMA MachineSteps ==
  ASSUME MachineInv, [Next]_machine
  PROVE  MachineInv' /\ Stands
<1>1. CASE UNCHANGED machine
  <2>1. /\ at' = at /\ todo' = todo /\ case' = case /\ caller' = caller /\ told' = told
        /\ world' = world
        /\ UNCHANGED configs /\ UNCHANGED updates /\ ui' = ui
    BY <1>1 DEF machine, shell, clients
  <2>2. WorldSound'
    BY <2>1 DEF MachineInv, WorldSound, Version, VersionOrNone
  <2> QED
    BY <2>1, <2>2, StillStands DEF updates, configs
<1>2. ASSUME NEW t \in Terminal, Step(t)
      PROVE  MachineInv' /\ Stands
  BY <1>2, InstallingStands, UpdatingStands, ServingStands, ConfiguringStands,
     ReportingStands, LaunchingStands DEF Step
<1>3. ASSUME NEW t \in Terminal, Killed(t)
      PROVE  MachineInv' /\ Stands
  BY <1>3, KilledStands
<1>4. CASE Others
  BY <1>4, OthersStand
<1>5. CASE Idle
  BY <1>1, <1>5 DEF Idle
<1> QED
  BY <1>1, <1>2, <1>3, <1>4, <1>5 DEF Next

LEMMA MachineStart == Init => MachineInv
<1> SUFFICES ASSUME Init PROVE MachineInv
  OBVIOUS
<1>1. Shelled /\ \A t \in Terminal : at[t] = "prompt"
  BY CommandsAssumption DEF Init, ShellInit, Shelled
<1>2. /\ home = case.home /\ inodes = case.home.ino
      /\ locked = [t \in Terminal |-> 0] /\ cfg = [t \in Terminal |-> NoConfig]
  BY DEF Init, ConfigInit
<1>3. HomeSound
  BY <1>1, <1>2, MachinesAssumption DEF Shelled, HomeSound, HomeIs
<1>4. ASSUME NEW t \in Terminal
      PROVE  Resolved(t) /\ Held(t)
  <2>1. at[t] = "prompt" /\ locked[t] = 0 /\ inodes \in Nat
    BY <1>1, <1>2, <1>3 DEF HomeSound
  <2>2. Resolved(t)
    BY <2>1 DEF Resolved, Migrating, Publishing
  <2>3. Held(t)
    BY <2>1 DEF Held
  <2> QED
    BY <2>2, <2>3
<1>5. ConfigInv
  BY <1>2, <1>3, <1>4 DEF ConfigInv, Registers, Register, NoConfig, Alone
<1>6. ComposeInv
  BY <1>1, MachinesAssumption DEF Init, UpdateInit, ComposeInv, Synced, Locking,
     UpdateRegister, NoUpdate, VersionOrNone, Shelled
<1>7. WorldSound
  BY <1>1, MachinesAssumption
     DEF Init, InstallInit, WorldSound, Shelled, VersionOrNone
<1>8. UiInv
  BY DEF Init, LauncherInit, UiInv, Drawn, NoUi, Widget
<1> QED
  BY <1>1, <1>5, <1>6, <1>7, <1>8 DEF MachineInv

\* Nobody writes the Compose file between the last look of an update at it
\* and the replacement.
NoLateEdit == \A c \in Cases : "edit_any_time" \notin c.trouble

\* Whatever commands run side by side, are killed or fail, and whatever people
\* do meanwhile: what is in the configuration of a repository stays in it, an
\* edited Compose file stays as it is, config migrate changes no setting, and
\* the launcher runs what it has shown.
THEOREM DecisionsKept == NoLateEdit => (Spec => DecisionsStand)
<1> SUFFICES ASSUME NoLateEdit PROVE Spec => DecisionsStand
  OBVIOUS
<1>1. Init => MachineInv
  BY MachineStart
<1>2. MachineInv /\ [Next]_machine => MachineInv' /\ Stands
  BY MachineSteps
<1>3. Stands =>
        [at' # at =>
           /\ home.policy # "none" => home'.policy = home.policy
           /\ home.block # "none" => home'.block = home.block]_home
  BY DEF Stands, FileKept
<1>4. MachineInv /\ Stands =>
        [compose.file = Edited /\ compose'.file # Edited =>
           /\ compose'.file = None
           /\ \A t \in Terminal : at'[t] = at[t]]_compose
  BY DEF Stands, MachineInv, Shelled, NoLateEdit
<1>5. Stands =>
        [\A t \in Terminal :
           at'[t] # at[t] /\ at[t] # "prompt" /\ Job(t).run = "config migrate" =>
             /\ EffectiveBranches' = EffectiveBranches
             /\ EffectivePolicy' = EffectivePolicy]_home
  BY DEF Stands, Migrating, Unmoved
<1>6. Stands =>
        [\A t \in Terminal :
           /\ ui'[t].argv # "none" /\ ui[t].argv = "none" =>
                \/ On(t, "preview") /\ ui'[t].argv = ui[t].value /\ ui[t].value = "good"
                \/ On(t, "update_result") /\ ui'[t].argv = "update" /\ ~ui[t].checking
           /\ ui[t].checking /\ ~ui'[t].checking /\ at'[t] = "launcher" =>
                ui'[t].screen = ui[t].screen]_ui
  BY DEF Stands, Confirmed, NotMoved
<1> QED
  BY <1>1, <1>2, <1>3, <1>4, <1>5, <1>6, PTL
     DEF Spec, DecisionsStand, CommandsKeepEachOther, UserComposeIsKept,
         MigrationChangesNothing, LauncherRunsWhatItShows

-----------------------------------------------------------------------------
(* Skills as files.                                                        *)

InstallRegister ==
  {"targets", "all", "no_skills", "skills_only", "errors", "tar", "offline", "left",
   "plan", "pkg", "snapshot", "market", "before", "expected", "moved"}

\* What has been taken out of the archive is there.
Fetched(t) ==
  /\ inst[t].tar \in VersionOrNone
  /\ at[t] = "extract" =>
       /\ inst[t].tar \in Version /\ inst[t].left \subseteq Skill
       /\ \A s \in Shipped[inst[t].tar] \ inst[t].left : skills[s] = inst[t].tar
  /\ at[t] = "stamp" =>
       /\ inst[t].tar \in Version
       /\ \A s \in Shipped[inst[t].tar] : skills[s] = inst[t].tar

\* A stamp was written of a directory that was whole.
StampTrue ==
  \/ stamp = NoStamp
  \/ /\ stamp.etag \in Version
     /\ \A s \in Shipped[stamp.etag] : stamp.hashes[s] = stamp.etag

\* Two installers at once have the same archive.
SameArchive ==
  \/ "merge" \notin case.trouble /\ \A t \in Terminal : inst[t].tar \in {None, world.main}
  \/ \E t \in Terminal : \A u \in Terminal \ {t} : at[u] = "prompt" /\ todo[u] = << >>

Registered ==
  DOMAIN inst = Terminal /\ \A t \in Terminal : DOMAIN inst[t] = InstallRegister

SkillInv ==
  /\ Registered
  /\ DOMAIN skills = Skill
  /\ \A t \in Terminal : Fetched(t)
  /\ StampTrue /\ SameArchive

\* The registers of t change, and its archive is the one it had, none, or the
\* newest.
Loads(t) ==
  /\ DOMAIN inst' = Terminal /\ DOMAIN inst'[t] = InstallRegister
  /\ \A u \in Terminal \ {t} : inst'[u] = inst[u]
  /\ inst'[t].tar \in {None, inst[t].tar, world.main}

\* So does the directory, by one skill of that archive.
Extracts(t) ==
  skills' = skills \/ (at[t] = "extract"
                       /\ \E s \in Skill : skills' = [skills EXCEPT ![s] = inst[t].tar])

LEMMA PlainLoads ==
  ASSUME Registered, NEW t \in Terminal, PlainStep(t)
  PROVE  Loads(t)
<1>1. DOMAIN inst = Terminal /\ DOMAIN inst[t] = InstallRegister
  BY DEF Registered
<1> USE <1>1 DEF Loads, InstallRegister, Set, Over, NoInstall, Finish, NextClient
<1>2. CASE install(t)
  BY <1>2 DEF install
<1>3. CASE install_skills(t)
  BY <1>3 DEF install_skills
<1>4. CASE install_client(t)
  BY <1>4 DEF install_client
<1>5. CASE native_fails(t)
  BY <1>5 DEF native_fails
<1>6. CASE give_up(t)
  BY <1>6 DEF give_up
<1>7. CASE plain_plan(t)
  BY <1>7 DEF plain_plan
<1>8. CASE plain_backup(t)
  BY <1>8 DEF plain_backup
<1>9. CASE plain_write(t)
  BY <1>9 DEF plain_write
<1>10. CASE TornWrite(t)
  BY <1>10 DEF TornWrite
<1>11. CASE _ensure_skills(t)
  BY <1>11 DEF _ensure_skills
<1>12. CASE extract_skills(t)
  <2>1. CASE inst' = inst
    BY <2>1
  <2>2. CASE \E s \in inst[t].left : Set(t, [left |-> inst[t].left \ {s}])
    BY <2>2
  <2> QED
    BY ONLY <1>12, <2>1, <2>2 DEF extract_skills
<1>13. CASE ExtractFails(t)
  BY <1>13 DEF ExtractFails
<1>14. CASE stamp_skills_dir(t)
  BY <1>14 DEF stamp_skills_dir
<1> QED
  BY <1>2, <1>3, <1>4, <1>5, <1>6, <1>7, <1>8, <1>9, <1>10, <1>11, <1>12, <1>13, <1>14
     DEF PlainStep

LEMMA CodexLoads ==
  ASSUME Registered, NEW t \in Terminal, CodexStep(t)
  PROVE  Loads(t) /\ UNCHANGED <<skills, stamp>>
<1>1. DOMAIN inst = Terminal /\ DOMAIN inst[t] = InstallRegister
  BY DEF Registered
<1> USE <1>1 DEF Loads, InstallRegister, Set, Over, NoInstall, Finish, NextClient, clients, homes
<1>2. CASE codex_read(t)
  BY <1>2 DEF codex_read
<1>3. CASE _snapshot_config(t)
  BY <1>3 DEF _snapshot_config
<1>4. CASE codex_market(t)
  BY <1>4 DEF codex_market
<1>5. CASE codex_verify(t)
  BY <1>5 DEF codex_verify
<1>6. CASE codex_mcp(t)
  BY <1>6 DEF codex_mcp
<1>7. CASE codex_backup(t)
  BY <1>7 DEF codex_backup
<1>8. CASE codex_write(t)
  BY <1>8 DEF codex_write
<1>9. CASE codex_add(t)
  BY <1>9 DEF codex_add
<1>10. CASE codex_post(t)
  BY <1>10 DEF codex_post
<1>11. CASE migrate_legacy_skills(t)
  <2>1. UNCHANGED <<skills, stamp>>
    BY <1>11 DEF migrate_legacy_skills
  <2>2. CASE inst[t].left = {}
    <3>1. Set(t, [targets |-> Rest(t)])
      BY <1>11, <2>2 DEF migrate_legacy_skills
    <3> QED
      BY <2>1, <3>1
  <2>3. CASE inst' = inst
    BY <2>1, <2>3
  <2>4. ASSUME NEW s, Set(t, [left |-> inst[t].left \ {s}, moved |-> inst[t].moved \cup {s}])
        PROVE  Loads(t)
    BY <2>4
  <2> QED
    BY ONLY <1>11, <2>1, <2>2, <2>3, <2>4 DEF migrate_legacy_skills
<1>12. CASE migration_undone(t)
  <2>1. UNCHANGED <<skills, stamp>>
    BY <1>12 DEF migration_undone
  <2>2. CASE inst[t].moved = {}
    <3>1. Set(t, [targets |-> Rest(t)])
      BY <1>12, <2>2 DEF migration_undone
    <3> QED
      BY <2>1, <3>1
  <2>3. CASE inst' = inst
    BY <2>1, <2>3
  <2>4. ASSUME NEW s, Set(t, [moved |-> inst[t].moved \ {s}])
        PROVE  Loads(t)
    BY <2>4
  <2> QED
    BY ONLY <1>12, <2>1, <2>2, <2>3, <2>4 DEF migration_undone
<1>13. CASE _restore_configs(t)
  BY <1>13 DEF _restore_configs
<1>14. CASE CodexProgramFails(t)
  BY <1>14 DEF CodexProgramFails
<1>15. CASE CodexProgramLacks(t)
  BY <1>15 DEF CodexProgramLacks
<1> QED
  BY <1>2, <1>3, <1>4, <1>5, <1>6, <1>7, <1>8, <1>9, <1>10, <1>11, <1>12, <1>13, <1>14, <1>15
     DEF CodexStep

LEMMA ClaudeLoads ==
  ASSUME Registered, NEW t \in Terminal, ClaudeStep(t)
  PROVE  Loads(t) /\ UNCHANGED <<skills, stamp>>
<1>1. DOMAIN inst = Terminal /\ DOMAIN inst[t] = InstallRegister
  BY DEF Registered
<1> USE <1>1 DEF Loads, InstallRegister, Set, Over, NoInstall, Finish, NextClient, clients, homes
<1>2. CASE claude_read(t)
  BY <1>2 DEF claude_read
<1>3. CASE claude_market(t)
  BY <1>3 DEF claude_market
<1>4. CASE claude_update(t)
  BY <1>4 DEF claude_update
<1>5. CASE claude_plugin(t)
  BY <1>5 DEF claude_plugin
<1>6. CASE claude_mcp_get(t)
  BY <1>6 DEF claude_mcp_get
<1>7. CASE claude_mcp_remove(t)
  BY <1>7 DEF claude_mcp_remove
<1>8. CASE claude_mcp_add(t)
  BY <1>8 DEF claude_mcp_add
<1>9. CASE _apply_claude_allowlist(t)
  BY <1>9 DEF _apply_claude_allowlist
<1>10. CASE allow_backup(t)
  BY <1>10 DEF allow_backup
<1>11. CASE allow_write(t)
  BY <1>11 DEF allow_write
<1> QED
  BY <1>2, <1>3, <1>4, <1>5, <1>6, <1>7, <1>8, <1>9, <1>10, <1>11
     DEF ClaudeStep

\* Three actions work on the directory.
LEMMA PlainSpares ==
  ASSUME Shelled, NEW t \in Terminal, PlainStep(t)
  PROVE  \/ /\ at'[t] \notin {"extract", "stamp"} /\ UNCHANGED <<skills, stamp>>
         \/ _ensure_skills(t) \/ extract_skills(t) \/ stamp_skills_dir(t)
<1> USE DEF Shelled, Runs, Starts, Go, GoBadly, Ends, Finish, NextClient, Backup, Write, homes
<1>1. CASE install(t)
  BY <1>1 DEF install
<1>2. CASE install_skills(t)
  BY <1>2 DEF install_skills
<1>3. CASE install_client(t)
  BY <1>3 DEF install_client
<1>4. CASE native_fails(t)
  BY <1>4 DEF native_fails
<1>5. CASE give_up(t)
  BY <1>5 DEF give_up
<1>6. CASE plain_plan(t)
  BY <1>6 DEF plain_plan
<1>7. CASE plain_backup(t)
  BY <1>7 DEF plain_backup
<1>8. CASE plain_write(t)
  BY <1>8 DEF plain_write
<1>9. CASE TornWrite(t)
  BY <1>9 DEF TornWrite
<1>12. CASE ExtractFails(t)
  BY <1>12 DEF ExtractFails
<1> QED
  BY <1>1, <1>2, <1>3, <1>4, <1>5, <1>6, <1>7, <1>8, <1>9, <1>12
     DEF PlainStep

LEMMA ShippedSkills == \A v \in Version : Shipped[v] \subseteq Skill
BY ShippedAssumption DEF Version

LEMMA EnsureFetches ==
  ASSUME Shelled, SkillInv, WorldSound, NEW t \in Terminal, _ensure_skills(t)
  PROVE  Fetched(t)' /\ UNCHANGED <<skills, stamp>>
<1>1. /\ DOMAIN inst = Terminal /\ DOMAIN inst[t] = InstallRegister /\ Fetched(t)
      /\ DOMAIN at = Terminal /\ world.main \in Version
  BY DEF SkillInv, Registered, Shelled, WorldSound
<1>2. UNCHANGED <<skills, stamp>>
  BY DEF _ensure_skills, homes
<1>3. VersionOrNone' = VersionOrNone /\ Version' = Version
  BY DEF VersionOrNone, Version
<1>4. inst[t].tar \in VersionOrNone
  BY <1>1 DEF Fetched
<1>5. CASE at'[t] = "client" \/ at'[t] = "give_up"
  <2>1. inst'[t].tar = inst[t].tar
    BY <1>1, <1>5 DEF _ensure_skills, NextClient, Go, GoBadly, Set, Over, InstallRegister
  <2>2. at'[t] # "extract" /\ at'[t] # "stamp"
    BY <1>5
  <2>3. inst'[t].tar \in VersionOrNone'
    BY <1>3, <1>4, <2>1
  <2> QED
    BY <1>2, <2>2, <2>3 DEF Fetched
<1>6. CASE at'[t] # "client" /\ at'[t] # "give_up"
  <2>1. PICK tar \in Version : /\ at'[t] = "extract"
                              /\ Set(t, [tar |-> tar, left |-> Shipped[tar]])
    <3>1. IF inst[t].tar = None THEN world.main \in Version ELSE inst[t].tar \in Version
      BY <1>1, <1>4 DEF VersionOrNone
    <3> QED
      BY <1>1, <1>6, <3>1 DEF _ensure_skills, NextClient, Go, GoBadly
  <2>2. inst'[t].tar = tar /\ inst'[t].left = Shipped[tar]
    BY <1>1, <2>1 DEF Set, Over, InstallRegister
  <2> QED
    BY <1>2, <1>3, <2>1, <2>2, ShippedSkills DEF Fetched, VersionOrNone
<1> QED
  BY <1>2, <1>5, <1>6

LEMMA ExtractFetches ==
  ASSUME Shelled, SkillInv, NEW t \in Terminal, extract_skills(t)
  PROVE  Fetched(t)' /\ Extracts(t) /\ stamp' = stamp
<1>1. /\ DOMAIN inst = Terminal /\ DOMAIN inst[t] = InstallRegister /\ Fetched(t)
      /\ DOMAIN at = Terminal /\ DOMAIN skills = Skill
  BY DEF SkillInv, Registered, Shelled
<1>2. /\ at[t] = "extract" /\ stamp' = stamp
  BY DEF extract_skills, Runs
<1>3. /\ inst[t].tar \in Version /\ inst[t].left \subseteq Skill
      /\ \A s \in Shipped[inst[t].tar] \ inst[t].left : skills[s] = inst[t].tar
      /\ inst[t].tar \in VersionOrNone
  BY <1>1, <1>2 DEF Fetched
<1>4. VersionOrNone' = VersionOrNone /\ Version' = Version
  BY DEF VersionOrNone, Version
<1>5. CASE inst[t].left = {}
  <2>1. at'[t] = "stamp" /\ inst' = inst /\ skills' = skills
    BY <1>1, <1>5 DEF extract_skills, Go
  <2> QED
    BY <1>2, <1>3, <1>4, <1>5, <2>1 DEF Fetched, Extracts
<1>6. CASE inst[t].left # {}
  <2>1. PICK s \in inst[t].left : /\ skills' = [skills EXCEPT ![s] = inst[t].tar]
                                 /\ Set(t, [left |-> inst[t].left \ {s}])
                                 /\ at'[t] = "extract"
    BY <1>1, <1>6 DEF extract_skills, Go
  <2>2. inst'[t].tar = inst[t].tar /\ inst'[t].left = inst[t].left \ {s}
    BY <1>1, <2>1 DEF Set, Over, InstallRegister
  <2>3. \A r \in Shipped[inst[t].tar] \ inst'[t].left : skills'[r] = inst[t].tar
    BY <1>1, <1>3, <2>1, <2>2
  <2> QED
    BY <1>2, <1>3, <1>4, <2>1, <2>2, <2>3 DEF Fetched, Extracts
<1> QED
  BY <1>5, <1>6

LEMMA StampFetches ==
  ASSUME Shelled, SkillInv, NEW t \in Terminal, stamp_skills_dir(t)
  PROVE  Fetched(t)' /\ skills' = skills /\ StampTrue'
<1>1. /\ DOMAIN inst = Terminal /\ DOMAIN inst[t] = InstallRegister /\ Fetched(t)
      /\ DOMAIN at = Terminal
  BY DEF SkillInv, Registered, Shelled
<1>2. /\ at[t] = "stamp" /\ at'[t] = "client" /\ skills' = skills
      /\ stamp' = [etag |-> inst[t].tar, pkg |-> inst[t].pkg, hashes |-> skills]
      /\ Set(t, [targets |-> Rest(t)])
  BY <1>1 DEF stamp_skills_dir, Runs, write_skills_stamp, _skill_file_hashes, NextClient, Go
<1>3. inst'[t].tar = inst[t].tar
  BY <1>1, <1>2 DEF Set, Over, InstallRegister
<1>4. Fetched(t)'
  BY <1>1, <1>2, <1>3 DEF Fetched, VersionOrNone, Version
<1>5. /\ stamp'.etag \in Version
      /\ \A s \in Shipped[stamp'.etag] : stamp'.hashes[s] = stamp'.etag
  BY <1>1, <1>2 DEF Fetched
<1> QED
  BY <1>2, <1>4, <1>5 DEF StampTrue, Version

\* Who is not t finds in the directory what it put there.
LEMMA SkillsSpared ==
  ASSUME SkillInv, NEW t \in Terminal, Walks(t), Loads(t), Extracts(t),
         NEW u \in Terminal \ {t}
  PROVE  Fetched(u)'
<1>1. at'[u] = at[u] /\ inst'[u] = inst[u] /\ Fetched(u)
  BY DEF Walks, Loads, SkillInv, Registered
<1>2. VersionOrNone' = VersionOrNone /\ Version' = Version
  BY DEF VersionOrNone, Version
<1>3. CASE at[u] \notin {"extract", "stamp"} \/ skills' = skills
  BY <1>1, <1>2, <1>3 DEF Fetched
<1>4. CASE at[u] \in {"extract", "stamp"} /\ skills' # skills
  <2>1. PICK s \in Skill : skills' = [skills EXCEPT ![s] = inst[t].tar]
    BY <1>4 DEF Extracts
  <2>2. at[u] # "prompt" /\ (at[t] # "prompt" \/ todo[t] # << >>)
    BY <1>4 DEF Walks
  <2>3. \A v \in Terminal : inst[v].tar \in {None, world.main}
    BY <2>2 DEF SkillInv, Registered, SameArchive
  <2>4. at[t] = "extract"
    BY <1>4 DEF Extracts
  <2>5. inst[t].tar \in Version /\ inst[u].tar \in Version
    BY <1>1, <1>4, <2>4 DEF SkillInv, Registered, Fetched
  <2>6. inst[t].tar = inst[u].tar
    BY <2>3, <2>5, ShippedAssumption DEF Version, None
  <2>7. \A r \in Skill : skills[r] = inst[u].tar => skills'[r] = inst[u].tar
    BY <2>1, <2>6 DEF SkillInv, Registered
  <2>8. \A r \in Shipped[inst[u].tar] : r \in Skill
    BY <2>5, ShippedSkills
  <2> QED
    BY <1>1, <1>2, <2>7, <2>8 DEF Fetched
<1> QED
  BY <1>3, <1>4

\* A step of t by what it does to its registers, the directory and the stamp.
LEMMA SkillsKept ==
  ASSUME Shelled, SkillInv, NEW t \in Terminal, Walks(t), Loads(t), Extracts(t),
         Fetched(t)', StampTrue', world'.main = world.main
  PROVE  SkillInv'
<1>1. \A u \in Terminal : Fetched(u)'
  BY SkillsSpared
<1>2. /\ DOMAIN inst' = Terminal /\ DOMAIN skills' = Skill
      /\ \A u \in Terminal : DOMAIN inst'[u] = InstallRegister
  BY DEF SkillInv, Registered, Loads, Extracts
<1>3. ASSUME "merge" \notin case.trouble, \A u \in Terminal : inst[u].tar \in {None, world.main}
      PROVE  SameArchive'
  <2>1. ASSUME NEW u \in Terminal
        PROVE  inst'[u].tar \in {None, world'.main}
    BY <1>3 DEF Loads
  <2>2. "merge" \notin case'.trouble
    BY <1>3 DEF Walks
  <2> QED
    BY <2>1, <2>2 DEF SameArchive
<1>4. ASSUME NEW v \in Terminal, \A u \in Terminal \ {v} : at[u] = "prompt" /\ todo[u] = << >>
      PROVE  SameArchive'
  <2>1. \A u \in Terminal \ {t} : at[u] = "prompt" /\ todo[u] = << >>
    BY <1>4 DEF Walks
  <2>2. \A u \in Terminal \ {t} : at'[u] = "prompt" /\ todo'[u] = << >>
    BY <2>1 DEF Walks
  <2> QED
    BY <2>2 DEF SameArchive
<1>5. SameArchive'
  BY <1>3, <1>4 DEF SkillInv, Registered, SameArchive
<1> QED
  BY <1>1, <1>2, <1>5 DEF SkillInv, Registered

\* A step that has no part in the directory.
LEMMA SkillsLeft ==
  ASSUME Shelled, SkillInv, WorldSound, NEW t \in Terminal, Walks(t), Loads(t),
         UNCHANGED <<skills, stamp>>, world'.main = world.main,
         at'[t] \notin {"extract", "stamp"}
  PROVE  SkillInv'
<1>1. inst[t].tar \in VersionOrNone /\ world.main \in VersionOrNone /\ StampTrue
  BY DEF SkillInv, Registered, Fetched, WorldSound, VersionOrNone
<1>2. inst'[t].tar \in VersionOrNone
  BY <1>1 DEF Loads, VersionOrNone
<1>3. Fetched(t)'
  BY <1>2 DEF Fetched, VersionOrNone, Version
<1>4. StampTrue'
  BY <1>1 DEF StampTrue, Version, NoStamp
<1> QED
  BY <1>3, <1>4, SkillsKept DEF Extracts

LEMMA UpdateLoads ==
  ASSUME Registered, NEW t \in Terminal, UpdateStep(t)
  PROVE  Loads(t) /\ UNCHANGED <<skills, stamp>>
<1>1. DOMAIN inst = Terminal /\ DOMAIN inst[t] = InstallRegister
  BY DEF Registered
<1> USE <1>1 DEF Loads, InstallRegister, NoInstall, clients, homes, UpdateEnds
<1>2. CASE update(t)
  BY <1>2 DEF update
<1>3. CASE check_latest(t)
  BY <1>3 DEF check_latest, UpgradeDue
<1>4. CASE upgrade_uv_tool(t)
  BY <1>4 DEF upgrade_uv_tool
<1>5. CASE run_fresh_artifact_refresh(t)
  BY <1>5 DEF run_fresh_artifact_refresh
<1>6. CASE download_compose(t)
  BY <1>6 DEF download_compose
<1>7. CASE _update_lock(t)
  BY <1>7 DEF _update_lock
<1>8. CASE sync_compose_file(t)
  BY <1>8 DEF sync_compose_file
<1>9. CASE compose_again(t)
  BY <1>9 DEF compose_again, NoResult
<1>10. CASE compose_replace(t)
  BY <1>10 DEF compose_replace
<1>11. CASE compose_create(t)
  BY <1>11 DEF compose_create
<1>12. CASE _write_state(t)
  BY <1>12 DEF _write_state
<1>13. CASE compose_error(t) \/ compose_unlock(t)
  BY <1>13 DEF compose_error, NoResult, compose_unlock
<1>14. CASE _refresh_update_artifacts(t)
  <2>1. UNCHANGED <<skills, stamp>>
    BY <1>14 DEF _refresh_update_artifacts
  <2>2. CASE inst' = inst
    BY <2>1, <2>2
  <2>3. ASSUME NEW targets, NEW pkg,
               inst' = [inst EXCEPT ![t] =
                 [NoInstall EXCEPT !.targets = targets, !.all = TRUE, !.pkg = pkg]]
        PROVE  Loads(t)
    BY <2>3
  <2> QED
    BY ONLY <1>14, <2>1, <2>2, <2>3 DEF _refresh_update_artifacts
<1>15. CASE update_after(t)
  BY <1>15 DEF update_after
<1>16. CASE update_done(t)
  BY <1>16 DEF update_done
<1>17. CASE update_fails(t) \/ update_advises(t)
  BY <1>17 DEF update_fails, update_advises
<1> QED
  BY <1>2, <1>3, <1>4, <1>5, <1>6, <1>7, <1>8, <1>9, <1>10, <1>11, <1>12, <1>13, <1>14, <1>15, <1>16, <1>17
     DEF UpdateStep

LEMMA ClientsAlone ==
  ASSUME SkillInv, NEW t \in Terminal, UNCHANGED clients
  PROVE  Loads(t) /\ UNCHANGED <<skills, stamp>> /\ world' = world
BY DEF SkillInv, Registered, Loads, clients

LEMMA InstallingSkills ==
  ASSUME Shelled, SkillInv, WorldSound, NEW t \in Terminal, InstallStep(t)
  PROVE  SkillInv'
<1>1. CASE PlainStep(t)
  <2>1. Walks(t) /\ Loads(t) /\ world' = world
    BY <1>1, PlainPaths, PlainLoads DEF SkillInv
  <2>2. CASE _ensure_skills(t)
    BY <2>1, <2>2, EnsureFetches, SkillsKept DEF Extracts, SkillInv, Registered, StampTrue, Version, NoStamp
  <2>3. CASE extract_skills(t)
    BY <2>1, <2>3, ExtractFetches, SkillsKept DEF SkillInv, Registered, StampTrue, Version, NoStamp
  <2>4. CASE stamp_skills_dir(t)
    BY <2>1, <2>4, StampFetches, SkillsKept DEF Extracts
  <2>5. CASE at'[t] \notin {"extract", "stamp"} /\ UNCHANGED <<skills, stamp>>
    BY <2>1, <2>5, SkillsLeft
  <2> QED
    BY <1>1, <2>2, <2>3, <2>4, <2>5, PlainSpares
<1>2. CASE CodexStep(t)
  <2>1. /\ Walks(t) /\ world' = world
        /\ at'[t] \in (InstallPc \ {"extract", "stamp"}) \cup Out
    BY <1>2, CodexPaths
  <2> QED
    BY <1>2, <2>1, CodexLoads, SkillsLeft DEF Out, SkillInv
<1>3. CASE ClaudeStep(t)
  <2>1. /\ Walks(t) /\ world' = world
        /\ at'[t] \in (InstallPc \ {"extract", "stamp"}) \cup Out
    BY <1>3, ClaudePaths
  <2> QED
    BY <1>3, <2>1, ClaudeLoads, SkillsLeft DEF Out, SkillInv
<1> QED
  BY <1>1, <1>2, <1>3 DEF InstallStep

LEMMA StepSkills ==
  ASSUME MachineInv, SkillInv, NEW t \in Terminal, Step(t)
  PROVE  SkillInv'
<1>1. Shelled /\ WorldSound /\ ConfigInv
  BY DEF MachineInv
<1>2. CASE Installing(t)
  BY <1>1, <1>2, InstallingSkills DEF Installing
<1>3. CASE Updating(t)
  <2>1. /\ Walks(t) /\ at'[t] \in {"client"} \cup UpdatePc \cup Out
        /\ Loads(t) /\ UNCHANGED <<skills, stamp>>
    BY <1>1, <1>3, UpdatePaths, UpdateLoads DEF Updating, SkillInv
  <2>2. world'.main = world.main
    BY <1>1, <1>3, UpdateSyncs DEF Updating, Syncs, WorldSound, MachineInv
  <2> QED
    BY <1>1, <2>1, <2>2, SkillsLeft DEF UpdatePc, Out
<1>4. CASE Serving(t)
  <2>1. UNCHANGED clients
    BY <1>4 DEF Serving, ServiceStep, start_services, stop_services, Composes, check,
       check_probe, check_graph, check_providers
  <2>2. Walks(t) /\ at'[t] \in {"check_probe", "check_graph", "check_providers"} \cup Out
    BY <1>1, <1>4, ServicePaths DEF Serving
  <2> QED
    BY <1>1, <2>1, <2>2, ClientsAlone, SkillsLeft DEF Out
<1>5. CASE Configuring(t)
  <2>1. Walks(t) /\ at'[t] \in ConfigPc \cup Out /\ UNCHANGED clients
    BY <1>1, <1>5, ConfigPaths DEF Configuring
  <2> QED
    BY <1>1, <2>1, ClientsAlone, SkillsLeft DEF ConfigPc, Out
<1>6. CASE Reporting(t)
  <2>1. /\ Walks(t) /\ at'[t] \in {"r_base", "r_committed", "r_home", "r_told"} \cup Out
        /\ UNCHANGED clients
    BY <1>1, <1>6, ReportPaths DEF Reporting
  <2> QED
    BY <1>1, <2>1, ClientsAlone, SkillsLeft DEF Out
<1>7. CASE Launching(t)
  <2>1. Walks(t) /\ at'[t] \notin {"extract", "stamp"}
    <3>1. CASE LauncherStep(t)
      BY <1>1, <3>1, LauncherPaths DEF Out
    <3>2. CASE launched_update(t)
      BY <1>1, <3>2 DEF launched_update, Updates, Runs, Go, Walks, Shelled
    <3> QED
      BY <1>7, <3>1, <3>2 DEF Launching
  <2>2. UNCHANGED clients
    BY <1>7 DEF Launching
  <2> QED
    BY <1>1, <2>1, <2>2, ClientsAlone, SkillsLeft
<1> QED
  BY <1>2, <1>3, <1>4, <1>5, <1>6, <1>7 DEF Step

LEMMA KilledSkills ==
  ASSUME MachineInv, SkillInv, NEW t \in Terminal, Killed(t)
  PROVE  SkillInv'
<1>1. Walks(t) /\ at'[t] = "prompt" /\ world' = world /\ UNCHANGED <<skills, stamp>>
  BY DEF Killed, Kill, Walks, MachineInv, Shelled, homes
<1>2. Loads(t)
  BY DEF Killed, InstallKilled, Loads, SkillInv, Registered, NoInstall, InstallRegister
<1> QED
  BY <1>1, <1>2, SkillsLeft DEF MachineInv

\* No version is merged while two commands are at work, which may then have
\* different archives.
OneArchive ==
  \A c \in Cases :
    "merge" \in c.trouble =>
      \E t \in Terminal : \A u \in Terminal \ {t} : c.todo[u] = << >>

\* A step that no terminal takes, or a merge where only one is at work.
LEMMA SkillsStill ==
  ASSUME SkillInv, at' = at, todo' = todo, case' = case, inst' = inst, stamp' = stamp,
         world'.main = world.main \/ "merge" \in case.trouble,
         DOMAIN skills' = Skill,
         \/ skills' = skills
         \/ \A t \in Terminal : at[t] \notin {"extract", "stamp"}
  PROVE  SkillInv'
<1>1. \A t \in Terminal : Fetched(t)'
  BY DEF SkillInv, Registered, Fetched, VersionOrNone, Version
<1>2. StampTrue'
  BY DEF SkillInv, Registered, StampTrue, Version, NoStamp
<1>3. SameArchive'
  BY DEF SkillInv, Registered, SameArchive
<1> QED
  BY <1>1, <1>2, <1>3 DEF SkillInv, Registered

LEMMA OthersSkills ==
  ASSUME MachineInv, SkillInv, Others
  PROVE  SkillInv'
<1>1. CASE UNCHANGED clients
  <2>1. at' = at /\ todo' = todo /\ case' = case
    BY DEF Others, People, Edit, EditSkill, Merge, Release, EditCompose, Crowd, EditHome, Happens
  <2> QED
    BY <1>1, <2>1, SkillsStill DEF clients, SkillInv, Registered
<1>2. CASE People
  <2>1. CASE \E f \in File : Edit(f)
    BY <2>1, SkillsStill DEF Edit, Happens, homes, SkillInv, Registered
  <2>2. CASE \E s \in Skill : EditSkill(s)
    <3>1. PICK s \in Skill : EditSkill(s)
      BY <2>2
    <3>2. DOMAIN skills' = Skill
      BY <3>1 DEF EditSkill, SkillInv, Registered
    <3> QED
      BY <3>1, <3>2, SkillsStill DEF EditSkill, Happens
  <2>3. CASE Merge
    BY <2>3, SkillsStill DEF Merge, Happens, May, homes, SkillInv, Registered
  <2>4. CASE Release
    <3>1. world'.main = world.main
      BY <2>4 DEF Release, MachineInv, WorldSound
    <3> QED
      BY <2>4, <3>1, SkillsStill DEF Release, Happens, homes, SkillInv, Registered
  <2> QED
    BY <1>2, <2>1, <2>2, <2>3, <2>4 DEF People
<1> QED
  BY <1>1, <1>2 DEF Others, EditCompose, Crowd, EditHome

LEMMA SkillSteps ==
  ASSUME MachineInv, SkillInv, [Next]_machine
  PROVE  SkillInv'
<1>1. CASE UNCHANGED machine
  BY <1>1, SkillsStill DEF machine, shell, clients, SkillInv, Registered
<1>2. CASE Idle
  BY <1>1, <1>2 DEF Idle
<1> QED
  BY <1>1, <1>2, StepSkills, KilledSkills, OthersSkills DEF Next

LEMMA SkillStart ==
  ASSUME OneArchive, Init
  PROVE  SkillInv
<1>1. /\ case \in Cases /\ todo = case.todo /\ at = [t \in Terminal |-> "prompt"]
      /\ inst = [t \in Terminal |-> NoInstall]
      /\ world = case.world /\ skills = case.skills /\ stamp = case.stamp
  BY DEF Init, ShellInit, InstallInit
<1>2. \A t \in Terminal : Fetched(t)
  BY <1>1 DEF Fetched, NoInstall, VersionOrNone
<1>3. StampTrue /\ DOMAIN skills = Skill
  BY <1>1, MachinesAssumption DEF StampTrue
<1>4. SameArchive
  <2>1. CASE "merge" \notin case.trouble
    BY <1>1, <2>1 DEF SameArchive, NoInstall
  <2>2. CASE "merge" \in case.trouble
    BY <1>1, <2>2 DEF SameArchive, OneArchive
  <2> QED
    BY <2>1, <2>2
<1>5. \A t \in Terminal : DOMAIN inst[t] = InstallRegister
  BY <1>1 DEF NoInstall, InstallRegister
<1> QED
  BY <1>1, <1>2, <1>3, <1>4, <1>5 DEF SkillInv, Registered

\* Skills that reviewer check does not call stale are as the archive of that
\* version has them, whichever installation failed, was killed or ran beside
\* another one.
THEOREM SkillsWhole == OneArchive => (Spec => []FreshSkillsAreWhole)
<1> SUFFICES ASSUME OneArchive PROVE Spec => []FreshSkillsAreWhole
  OBVIOUS
<1>1. Init => MachineInv /\ SkillInv
  BY MachineStart, SkillStart
<1>2. MachineInv /\ SkillInv /\ [Next]_machine => MachineInv' /\ SkillInv'
  BY MachineSteps, SkillSteps
<1>3. MachineInv /\ SkillInv => FreshSkillsAreWhole
  <2> SUFFICES ASSUME MachineInv, SkillInv, ~skills_staleness(world.main),
                      NEW s \in Shipped[world.main]
               PROVE  skills[s] = world.main
    BY DEF FreshSkillsAreWhole
  <2>1. world.main # None
    BY ShippedAssumption DEF MachineInv, WorldSound, Version, None
  <2>2. stamp # NoStamp /\ stamp.hashes = skills /\ stamp.etag = world.main
    BY <2>1 DEF skills_staleness, _skill_file_hashes
  <2> QED
    BY <2>2 DEF SkillInv, Registered, StampTrue
<1> QED
  BY <1>1, <1>2, <1>3, PTL DEF Spec

-----------------------------------------------------------------------------
(* What is typed.                                                          *)

\* What a terminal has still to type is the end of what it was to type, and a
\* command that runs is the first of it.
Queued(t) ==
  /\ \E n \in 0..Len(case.todo[t]) :
       todo[t] = SubSeq(case.todo[t], n + 1, Len(case.todo[t]))
  /\ at[t] # "prompt" => todo[t] # << >>
  /\ at[t] = "prompt" => caller[t] = "shell"

Queues == \A t \in Terminal : Queued(t)

\* The jobs of a terminal, and the first of what is left of them.
LEMMA JobsListed ==
  ASSUME Shelled, NEW t \in Terminal
  PROVE  /\ case.todo[t] \in Seq({case.todo[t][i] : i \in DOMAIN case.todo[t]})
         /\ Len(case.todo[t]) \in Nat
<1>1. case.todo[t] \in Seq({case.todo[t][i] : i \in DOMAIN case.todo[t]})
  BY CommandsAssumption DEF Shelled
<1> QED
  BY <1>1

LEMMA SuffixTail ==
  ASSUME NEW S, NEW q \in Seq(S), NEW n \in 0..Len(q),
         SubSeq(q, n + 1, Len(q)) # << >>
  PROVE  /\ n + 1 \in 1..Len(q)
         /\ Tail(SubSeq(q, n + 1, Len(q))) = SubSeq(q, n + 2, Len(q))
         /\ Head(SubSeq(q, n + 1, Len(q))) = q[n + 1]
         /\ Len(SubSeq(q, n + 1, Len(q))) = Len(q) - n
<1>1. n # Len(q)
  <2> SUFFICES ASSUME n = Len(q) PROVE FALSE
    OBVIOUS
  <2>1. SubSeq(q, n + 1, Len(q)) \in Seq(S) /\ Len(SubSeq(q, n + 1, Len(q))) = 0
    OBVIOUS
  <2> QED
    BY <2>1
<1>2. n + 1 \in 1..Len(q) /\ n \in Nat /\ Len(q) \in Nat
  BY <1>1
<1>3. /\ Len(SubSeq(q, n + 1, Len(q))) = Len(q) - n
      /\ \A i \in 1..Len(q) - n : SubSeq(q, n + 1, Len(q))[i] = q[n + i]
      /\ SubSeq(q, n + 1, Len(q)) \in Seq(S)
  BY <1>2
<1>4. Head(SubSeq(q, n + 1, Len(q))) = q[n + 1]
  BY <1>2, <1>3
<1>5. Tail(SubSeq(q, n + 1, Len(q))) = SubSeq(q, n + 2, Len(q))
  BY <1>2, <1>3
<1> QED
  BY <1>2, <1>3, <1>4, <1>5

\* How far the terminal is.
LEMMA JobAt ==
  ASSUME Shelled, Queues, NEW t \in Terminal, todo[t] # << >>
  PROVE  /\ Len(todo[t]) \in 1..Len(case.todo[t])
         /\ Job(t) = case.todo[t][Len(case.todo[t]) - Len(todo[t]) + 1]
         /\ Len(Tail(todo[t])) = Len(todo[t]) - 1
         /\ Len(case.todo[t]) \in Nat
<1>1. PICK n \in 0..Len(case.todo[t]) :
        todo[t] = SubSeq(case.todo[t], n + 1, Len(case.todo[t]))
  BY DEF Queues, Queued
<1>2. /\ n + 1 \in 1..Len(case.todo[t])
      /\ Tail(todo[t]) = SubSeq(case.todo[t], n + 2, Len(case.todo[t]))
      /\ Head(todo[t]) = case.todo[t][n + 1]
      /\ Len(todo[t]) = Len(case.todo[t]) - n
  BY <1>1, JobsListed, SuffixTail
<1>3. Len(SubSeq(case.todo[t], n + 2, Len(case.todo[t]))) = Len(case.todo[t]) - n - 1
  BY <1>1, <1>2, JobsListed
<1> QED
  BY SMTT(30), <1>1, <1>2, <1>3, JobsListed DEF Job

LEMMA WalksQueues ==
  ASSUME Shelled, Queues, NEW t \in Terminal, Walks(t)
  PROVE  Queues'
<1>1. ASSUME NEW u \in Terminal \ {t} PROVE Queued(u)'
  BY DEF Walks, Queues, Queued
<1>2. Queued(t)'
  <2>1. PICK n \in 0..Len(case.todo[t]) :
          todo[t] = SubSeq(case.todo[t], n + 1, Len(case.todo[t]))
    BY DEF Queues, Queued
  <2>2. todo[t] # << >>
    BY DEF Walks, Queues, Queued
  <2>3. CASE todo'[t] = todo[t] /\ at'[t] # "prompt"
    BY <2>1, <2>2, <2>3 DEF Walks, Queued
  <2>4. CASE todo'[t] = Tail(todo[t]) /\ at'[t] = "prompt" /\ caller'[t] = "shell"
    <3>1. /\ n + 1 \in 0..Len(case.todo[t])
          /\ Tail(todo[t]) = SubSeq(case.todo[t], n + 2, Len(case.todo[t]))
      BY <2>1, <2>2, JobsListed, SuffixTail
    <3>2. todo'[t] = SubSeq(case'.todo[t], (n + 1) + 1, Len(case'.todo[t]))
      BY <2>1, <2>4, <3>1 DEF Walks
    <3> QED
      BY <2>4, <3>1, <3>2 DEF Walks, Queued
  <2> QED
    BY <2>3, <2>4 DEF Walks
<1> QED
  BY <1>1, <1>2 DEF Queues
-----------------------------------------------------------------------------
(* The advice of check.                                                    *)

ServiceSound ==
  /\ services \in [postgres : {"up", "busy", "down"}, graph : {"up", "down"},
                   web : {"up", "down"}, docker : {"ok", "no_daemon", "missing"}]
  /\ DOMAIN chk = Terminal
  /\ \A t \in Terminal : DOMAIN chk[t] = {"failed", "remedy"}

Down == "down" \in {services.postgres, services.graph}

\* Somebody has typed start, and it has run.
Started ==
  \E u \in Terminal : \E i \in 1..Len(case.todo[u]) - Len(todo[u]) :
    case.todo[u][i].run = "start"

Advised(t) == chk[t].remedy => case.local /\ (Down \/ Started)

AdviceInv == Queues /\ ServiceSound /\ \A t \in Terminal : Advised(t)

\* What was typed before stays typed.
LEMMA StartedStays ==
  ASSUME Shelled, Queues, NEW t \in Terminal, Walks(t), Started
  PROVE  Started'
<1>0. PICK u \in Terminal :
        \E i \in 1..Len(case.todo[u]) - Len(todo[u]) : case.todo[u][i].run = "start"
  BY DEF Started
<1>1. PICK i \in 1..Len(case.todo[u]) - Len(todo[u]) : case.todo[u][i].run = "start"
  BY <1>0
<1>2. CASE todo'[u] = todo[u]
  BY <1>1, <1>2 DEF Walks, Started
<1>3. CASE todo'[u] # todo[u]
  <2>1. u = t /\ todo'[u] = Tail(todo[u]) /\ todo[u] # << >>
    BY <1>3 DEF Walks, Queues, Queued
  <2>2. /\ Len(todo[u]) \in 1..Len(case.todo[u]) /\ Len(todo'[u]) = Len(todo[u]) - 1
        /\ Len(case.todo[u]) \in Nat
    BY <2>1, JobAt
  <2>3. i \in 1..Len(case'.todo[u]) - Len(todo'[u])
    BY <2>2 DEF Walks
  <2> QED
    BY <1>1, <2>3 DEF Walks, Started
<1> QED
  BY <1>2, <1>3

\* A start that has run.
LEMMA StartStarts ==
  ASSUME Shelled, Queues, NEW t \in Terminal, Walks(t), Starts(t, "start"),
         todo'[t] = Tail(todo[t])
  PROVE  Started'
<1>1. /\ Len(todo[t]) \in 1..Len(case.todo[t])
      /\ Job(t) = case.todo[t][Len(case.todo[t]) - Len(todo[t]) + 1]
      /\ Len(todo'[t]) = Len(todo[t]) - 1
      /\ Len(case.todo[t]) \in Nat
  BY JobAt DEF Starts
<1>2. Len(case.todo[t]) - Len(todo[t]) + 1 \in 1..Len(case'.todo[t]) - Len(todo'[t])
  <2>1. Len(case'.todo[t]) = Len(case.todo[t])
    BY DEF Walks
  <2> QED
    BY ONLY <1>1, <2>1
<1>3. case'.todo[t][Len(case.todo[t]) - Len(todo[t]) + 1].run = "start"
  BY <1>1 DEF Walks, Starts
<1> QED
  BY <1>2, <1>3 DEF Started

\* A step by what it does to the services and to the registers of t.
LEMMA AdviceKept ==
  ASSUME Shelled, AdviceInv, NEW t \in Terminal, Walks(t), ServiceSound',
         \A u \in Terminal \ {t} : chk'[u] = chk[u],
         chk'[t].remedy => chk[t].remedy \/ (case.local /\ Down),
         Down => Down' \/ Started'
  PROVE  AdviceInv'
<1>1. Queues'
  BY WalksQueues DEF AdviceInv
<1>2. Started => Started'
  BY StartedStays DEF AdviceInv
<1>3. ASSUME NEW u \in Terminal PROVE Advised(u)'
  <2>1. chk'[u].remedy => chk[u].remedy \/ (case.local /\ Down)
    OBVIOUS
  <2>2. Advised(u) /\ case' = case
    BY DEF AdviceInv, Walks
  <2> QED
    BY <1>2, <2>1, <2>2 DEF Advised
<1> QED
  BY <1>1, <1>3 DEF AdviceInv

LEMMA ServicesAdvise ==
  ASSUME Shelled, AdviceInv, NEW t \in Terminal, ServiceStep(t)
  PROVE  AdviceInv'
<1>1. Walks(t)
  BY ServicePaths
<1>2. ServiceSound /\ Queues
  BY DEF AdviceInv
<1>3. /\ DOMAIN chk = Terminal /\ DOMAIN chk[t] = {"failed", "remedy"}
      /\ services \in [postgres : {"up", "busy", "down"}, graph : {"up", "down"},
                       web : {"up", "down"}, docker : {"ok", "no_daemon", "missing"}]
      /\ case.postgres_answers \in {"ok", "auth_failed", "missing_database"}
  BY <1>2, MachinesAssumption DEF ServiceSound, Shelled
<1>4. ASSUME NEW r, DOMAIN r = {"failed", "remedy"}, services' = services,
             chk' = [chk EXCEPT ![t] = r],
             r.remedy => chk[t].remedy \/ (case.local /\ Down)
      PROVE  AdviceInv'
  <2>1. ServiceSound'
    BY <1>2, <1>3, <1>4 DEF ServiceSound
  <2>2. chk'[t] = r /\ \A u \in Terminal \ {t} : chk'[u] = chk[u]
    BY <1>3, <1>4
  <2> QED
    BY <1>1, <1>4, <2>1, <2>2, AdviceKept DEF Down
<1>5. CASE start_services(t)
  <2>1. chk' = chk /\ Starts(t, "start")
    BY <1>5 DEF start_services, Composes
  <2>2. CASE services' = services
    BY <1>1, <1>2, <2>1, <2>2, AdviceKept DEF Down, ServiceSound
  <2>3. CASE services' # services
    <3>1. /\ Ends(t, "ok")
          /\ services' = [services EXCEPT !.postgres = IF @ = "down" THEN "up" ELSE @,
                                          !.graph = "up"]
      BY <1>5, <2>3 DEF start_services, Composes
    <3>2. todo'[t] = Tail(todo[t])
      BY <1>2, <2>1, <3>1 DEF Ends, Starts, Queues, Queued, Shelled
    <3>3. Started'
      BY <1>1, <1>2, <2>1, <3>2, StartStarts
    <3>4. ServiceSound'
      BY <1>2, <1>3, <2>1, <3>1 DEF ServiceSound
    <3> QED
      BY <1>1, <2>1, <3>3, <3>4, AdviceKept
  <2> QED
    BY <2>2, <2>3
<1>6. CASE stop_services(t)
  <2>1. /\ chk' = chk
        /\ \/ services' = services
           \/ services' = [services EXCEPT !.postgres = "down", !.graph = "down",
                                           !.web = "down"]
    BY <1>6 DEF stop_services, Composes
  <2>2. ServiceSound' /\ (Down => Down')
    BY <1>2, <1>3, <2>1 DEF ServiceSound, Down
  <2> QED
    BY <1>1, <2>1, <2>2, AdviceKept
<1>7. CASE check(t)
  <2>1. services' = services
    BY <1>7 DEF check
  <2>2. CASE services.postgres # "up"
    <3>1. chk' = [chk EXCEPT ![t] = [chk[t] EXCEPT !.failed = TRUE]]
      BY <1>7, <2>2 DEF check
    <3> QED
      BY <1>3, <1>4, <2>1, <3>1
  <2>3. CASE services.postgres = "up"
    <3> DEFINE r == [failed |-> case.postgres_answers # "ok",
                     remedy |-> classify_storage_failure(case.postgres_answers)]
    <3>1. chk' = [chk EXCEPT ![t] = r]
      BY <1>7, <2>3 DEF check
    <3>2. ~classify_storage_failure(case.postgres_answers)
      BY <1>3 DEF classify_storage_failure, is_storage_unavailable
    <3>3. DOMAIN r = {"failed", "remedy"} /\ ~r.remedy
      BY <3>2
    <3> QED
      BY ONLY <1>4, <2>1, <3>1, <3>3
  <2> QED
    BY <2>2, <2>3
<1>8. CASE check_probe(t)
  <2>1. chk' = [chk EXCEPT ![t] = [chk[t] EXCEPT !.remedy = _classify_pool_timeout]]
        /\ services' = services
    BY <1>8 DEF check_probe
  <2>2. _classify_pool_timeout => case.local /\ Down
    BY <1>3 DEF _classify_pool_timeout, _probe_postgres, classify_storage_failure,
       is_storage_unavailable, storage_remedy, Down
  <2>3. [chk[t] EXCEPT !.remedy = _classify_pool_timeout].remedy = _classify_pool_timeout
    BY <1>3
  <2> QED
    BY <1>3, <1>4, <2>1, <2>2, <2>3
<1>9. CASE check_graph(t)
  <2> DEFINE exc == IF services.graph = "down" THEN "graph_down" ELSE "none"
  <2> DEFINE r == [failed |-> chk[t].failed \/ exc # "none",
                   remedy |-> chk[t].remedy \/ classify_storage_failure(exc)]
  <2>1. chk' = [chk EXCEPT ![t] = r] /\ services' = services
    BY <1>9 DEF check_graph
  <2>2. classify_storage_failure(exc) => case.local /\ Down
    BY DEF classify_storage_failure, is_storage_unavailable, storage_remedy, Down
  <2>3. DOMAIN r = {"failed", "remedy"}
    OBVIOUS
  <2>4. r.remedy => chk[t].remedy \/ (case.local /\ Down)
    BY <2>2
  <2> HIDE DEF r
  <2> QED
    BY ONLY <1>4, <2>1, <2>3, <2>4
<1>10. CASE check_providers(t)
  BY <1>4, <1>10 DEF check_providers, NoCheck
<1> QED
  BY <1>5, <1>6, <1>7, <1>8, <1>9, <1>10 DEF ServiceStep

\* Nothing else starts or stops a store.
LEMMA AdviceLeft ==
  ASSUME Shelled, AdviceInv, NEW t \in Terminal, Walks(t), UNCHANGED containers
  PROVE  AdviceInv'
BY AdviceKept DEF containers, AdviceInv, ServiceSound, Down

LEMMA AdviceStill ==
  ASSUME AdviceInv, case' = case, todo' = todo, at' = at, caller' = caller,
         UNCHANGED containers \/ Crowd
  PROVE  AdviceInv'
<1>1. Queues'
  BY DEF AdviceInv, Queues, Queued
<1>2. ServiceSound' /\ (Down => Down') /\ chk' = chk
  BY DEF containers, Crowd, AdviceInv, ServiceSound, Down
<1>3. \A u \in Terminal : Advised(u)'
  BY <1>2 DEF AdviceInv, Advised, Started
<1> QED
  BY <1>1, <1>2, <1>3 DEF AdviceInv

\* Every command moves as the shell lets it.
LEMMA StepWalks ==
  ASSUME MachineInv, NEW t \in Terminal, Step(t) \/ Killed(t)
  PROVE  Walks(t)
<1>1. Shelled /\ ConfigInv
  BY DEF MachineInv
<1>2. CASE Killed(t)
  BY <1>1, <1>2 DEF Killed, Kill, Walks, Shelled
<1>3. CASE launched_update(t)
  BY <1>1, <1>3 DEF launched_update, Updates, Runs, Go, Walks, Shelled
<1> QED
  BY <1>1, <1>2, <1>3, PlainPaths, CodexPaths, ClaudePaths, UpdatePaths, ServicePaths,
     ConfigPaths, ReportPaths, LauncherPaths
     DEF Step, Installing, InstallStep, Updating, Serving, Configuring, Reporting, Launching

LEMMA AdviceSteps ==
  ASSUME MachineInv, AdviceInv, [Next]_machine
  PROVE  AdviceInv'
<1>0. Shelled
  BY DEF MachineInv
<1>1. CASE UNCHANGED machine \/ Others
  BY <1>1, AdviceStill DEF machine, shell, containers, Others, People, Edit, EditSkill, Merge,
     Release, EditCompose, EditHome, Crowd, Happens
<1>2. ASSUME NEW t \in Terminal, Killed(t)
      PROVE  AdviceInv'
  <2>1. Walks(t)
    BY <1>2, StepWalks
  <2>2. chk' = [chk EXCEPT ![t] = NoCheck] /\ services' = services
    BY <1>2 DEF Killed, ServicesKilled
  <2>3. ServiceSound
    BY DEF AdviceInv
  <2>4. /\ DOMAIN chk = Terminal /\ chk'[t] = NoCheck /\ ~chk'[t].remedy
        /\ \A u \in Terminal \ {t} : chk'[u] = chk[u]
    BY <2>2, <2>3 DEF ServiceSound, NoCheck
  <2>5. ServiceSound'
    BY <2>2, <2>3 DEF ServiceSound, NoCheck
  <2> QED
    BY <1>0, <2>1, <2>2, <2>4, <2>5, AdviceKept DEF Down
<1>3. ASSUME NEW t \in Terminal, Step(t)
      PROVE  AdviceInv'
  <2>1. Walks(t)
    BY <1>3, StepWalks
  <2>2. CASE Serving(t)
    BY <1>0, <2>2, ServicesAdvise DEF Serving
  <2>3. CASE UNCHANGED containers
    BY <1>0, <2>1, <2>3, AdviceLeft
  <2> QED
    BY <1>3, <2>2, <2>3
       DEF Step, Installing, Updating, Configuring, Reporting, Launching
<1> QED
  BY <1>1, <1>2, <1>3 DEF Next, Idle

LEMMA AdviceStart ==
  ASSUME Init
  PROVE  AdviceInv
<1>1. /\ case \in Cases /\ todo = case.todo /\ at = [t \in Terminal |-> "prompt"]
      /\ caller = [t \in Terminal |-> "shell"]
      /\ services = case.services /\ chk = [t \in Terminal |-> NoCheck]
  BY DEF Init, ShellInit, ServicesInit
<1>2. ASSUME NEW t \in Terminal PROVE Queued(t)
  <2>1. case.todo[t] \in Seq({case.todo[t][i] : i \in DOMAIN case.todo[t]})
    BY <1>1, CommandsAssumption
  <2>2. SubSeq(case.todo[t], 0 + 1, Len(case.todo[t])) = case.todo[t]
        /\ 0 \in 0..Len(case.todo[t])
    BY <2>1
  <2> QED
    BY <1>1, <2>2 DEF Queued
<1>3. ServiceSound
  BY <1>1, MachinesAssumption DEF ServiceSound, NoCheck
<1>4. \A t \in Terminal : Advised(t)
  BY <1>1 DEF Advised, NoCheck
<1> QED
  BY <1>2, <1>3, <1>4 DEF AdviceInv, Queues

LEMMA AdviceShown == AdviceInv => AdviceMeansDown
BY DEF AdviceInv, Advised, Down, Started, AdviceMeansDown

-----------------------------------------------------------------------------
(* The report of config show.                                              *)

\* A value of a key.
Valued(v) ==
  \/ v.kind \in {"unset", "scalar"}
  \/ v.kind = "mapping" /\ DOMAIN v = {"kind", "leaves", "by"}

PathsOf(r, k) ==
  IF r.merged[k].kind = "unset" THEN {}
  ELSE IF k \in ATOMIC_KEYS THEN {<<k>>} ELSE leaf_paths(r.merged[k], k)

ReportTrue(r) ==
  /\ DOMAIN r.merged = Key
  /\ \A k \in Key : Valued(r.merged[k])
  /\ DOMAIN r.sources = UNION {PathsOf(r, k) : k \in Key}
  /\ \A p \in DOMAIN r.sources : r.sources[p] = WriterOf(r, p)

\* The mapping is there, and says nothing.
Hollow(r) ==
  /\ r.merged["context_limits"].kind = "mapping"
  /\ DOMAIN r.merged["context_limits"].leaves = {}

Fills == {"x", "xy"}

\* What a layer says is a value, and names that layer.
LEMMA ValueIs ==
  ASSUME NEW shape \in Shape, NEW source
  PROVE  LET v == Value(shape, source)
         IN /\ Valued(v)
            /\ v.kind = "unset" <=> shape = "unset"
            /\ v.kind # "unset" => v.by = source
            /\ v.kind = "mapping" =>
                 /\ \A l \in DOMAIN v.leaves : v.leaves[l] = source
                 /\ shape = "empty" => v.leaves = << >> /\ DOMAIN v.leaves = {}
                 /\ shape # "empty" => shape \in Fills /\ DOMAIN v.leaves # {}
<1>1. CASE shape = "unset"
  BY <1>1 DEF Value, Unset, Valued
<1>2. CASE shape = "scalar"
  BY <1>2 DEF Value, Scalar, Valued
<1>3. CASE shape = "empty"
  <2>1. Value(shape, source) = Mapping({}, source)
    BY <1>3 DEF Value
  <2>2. [l \in {} |-> source] = << >>
    OBVIOUS
  <2> QED
    BY <1>3, <2>1, <2>2 DEF Mapping, Valued
<1>4. CASE shape \in Fills
  <2>1. PICK leaves : leaves # {} /\ Value(shape, source) = Mapping(leaves, source)
    BY <1>4 DEF Value, Fills, Leaf
  <2> QED
    BY <1>4, <2>1 DEF Mapping, Valued, Fills
<1> QED
  BY <1>1, <1>2, <1>3, <1>4 DEF Shape, Fills

\* The paths of one key are none of the other's.
LEMMA PathsApart ==
  ASSUME NEW r, ReportTrue(r), NEW k \in Key
  PROVE  /\ \A p \in PathsOf(r, k) : p[1] = k
         /\ {p \in DOMAIN r.sources : p[1] = k} = PathsOf(r, k)
<1>1. \A j \in Key : \A p \in PathsOf(r, j) : p[1] = j
  BY DEF PathsOf, leaf_paths
<1>2. DOMAIN r.sources = UNION {PathsOf(r, j) : j \in Key}
  BY DEF ReportTrue
<1> QED
  BY <1>1, <1>2

\* A value replaces another as a whole.
LEMMA ReplaceTrue ==
  ASSUME NEW r, ReportTrue(r), NEW key \in Key, NEW source,
         NEW value, Valued(value), value.kind # "unset", value.by = source,
         value.kind = "mapping" => \A l \in DOMAIN value.leaves : value.leaves[l] = source
  PROVE  LET n == _replace(r, key, <<key>>, value, source)
         IN /\ ReportTrue(n)
            /\ n.merged[key] = value
            /\ \A k \in Key \ {key} : n.merged[k] = r.merged[k]
<1> DEFINE n == _replace(r, key, <<key>>, value, source)
           new == IF key \in ATOMIC_KEYS THEN {<<key>>} ELSE leaf_paths(value, key)
           stale == {p \in DOMAIN r.sources : p[1] = key}
           old == Without(r.sources, stale)
<1>1. n.merged = [r.merged EXCEPT ![key] = value]
  BY DEF _replace
<1>2. n.sources = Laid([p \in new |-> source], old)
  BY DEF _replace
<1>3. DOMAIN r.merged = Key /\ \A k \in Key : Valued(r.merged[k])
  BY DEF ReportTrue
<1>4. /\ n.merged[key] = value /\ DOMAIN n.merged = Key
      /\ \A k \in Key \ {key} : n.merged[k] = r.merged[k]
  BY <1>1, <1>3
<1>5. stale = PathsOf(r, key) /\ \A k \in Key : \A p \in PathsOf(r, k) : p[1] = k
  BY PathsApart
<1>6. DOMAIN old = UNION {PathsOf(r, k) : k \in Key \ {key}}
  BY <1>5 DEF Without, ReportTrue
<1>7. PathsOf(n, key) = new /\ \A k \in Key \ {key} : PathsOf(n, k) = PathsOf(r, k)
  BY <1>4 DEF PathsOf
<1>8. DOMAIN n.sources = new \cup DOMAIN old
  BY <1>2 DEF Laid
<1>9. DOMAIN n.sources = UNION {PathsOf(n, k) : k \in Key}
  BY <1>6, <1>7, <1>8
<1>10. ASSUME NEW p \in DOMAIN n.sources
       PROVE  n.sources[p] = WriterOf(n, p)
  <2>1. CASE p \in new
    <3>1. n.sources[p] = source
      BY <1>2, <2>1 DEF Laid
    <3>2. p = <<key>> \/ \E l \in DOMAIN value.leaves : p = <<key, l>> /\ value.kind = "mapping"
      BY <2>1 DEF leaf_paths
    <3>3. CASE p = <<key>>
      BY <1>4, <3>1, <3>3 DEF WriterOf
    <3>4. ASSUME NEW l \in DOMAIN value.leaves, p = <<key, l>>, value.kind = "mapping"
          PROVE  n.sources[p] = WriterOf(n, p)
      BY <1>4, <3>1, <3>4 DEF WriterOf
    <3> QED
      BY <3>2, <3>3, <3>4
  <2>2. CASE p \notin new
    <3>1. p \in DOMAIN old /\ n.sources[p] = old[p]
      BY <1>2, <1>8, <2>2 DEF Laid
    <3>2. p \in DOMAIN r.sources /\ old[p] = r.sources[p]
      BY <3>1 DEF Without
    <3>3. p[1] \in Key \ {key}
      BY <1>5, <1>6, <3>1
    <3>4. n.merged[p[1]] = r.merged[p[1]]
      BY <1>4, <3>3
    <3> QED
      BY <3>1, <3>2, <3>4 DEF ReportTrue, WriterOf
  <2> QED
    BY <2>1, <2>2
<1>11. \A k \in Key : Valued(n.merged[k])
  BY <1>3, <1>4
<1>12. ReportTrue(n)
  BY <1>4, <1>9, <1>10, <1>11 DEF ReportTrue
<1> QED
  BY <1>4, <1>12

\* A mapping is laid over a mapping, leaf by leaf.
LEMMA MergeTrue ==
  ASSUME NEW r, ReportTrue(r), NEW key \in Key \ ATOMIC_KEYS, NEW source,
         NEW value, value.kind = "mapping", DOMAIN value.leaves # {},
         \A l \in DOMAIN value.leaves : value.leaves[l] = source,
         r.merged[key].kind = "mapping", DOMAIN r.merged[key].leaves # {}
  PROVE  LET n == MergeLeaves(r, key, value, source)
         IN /\ ReportTrue(n)
            /\ DOMAIN n.merged[key].leaves # {}
            /\ \A k \in Key \ {key} : n.merged[k] = r.merged[k]
<1> DEFINE n == MergeLeaves(r, key, value, source)
           new == leaf_paths(value, key)
           leaves == Laid(value.leaves, r.merged[key].leaves)
<1>1. n.merged = [r.merged EXCEPT ![key].leaves = leaves]
  BY DEF MergeLeaves
<1>2. n.sources = Laid([p \in new |-> source], r.sources)
  BY DEF MergeLeaves
<1>3. DOMAIN r.merged = Key /\ \A k \in Key : Valued(r.merged[k])
  BY DEF ReportTrue
<1>4. DOMAIN r.merged[key] = {"kind", "leaves", "by"}
  BY <1>3 DEF Valued
<1>5. /\ n.merged[key].leaves = leaves /\ n.merged[key].kind = "mapping"
      /\ DOMAIN n.merged[key] = {"kind", "leaves", "by"}
      /\ n.merged[key].by = r.merged[key].by
      /\ DOMAIN n.merged = Key
      /\ \A k \in Key \ {key} : n.merged[k] = r.merged[k]
  BY <1>1, <1>3, <1>4
<1>6. DOMAIN leaves = DOMAIN value.leaves \cup DOMAIN r.merged[key].leaves
  BY DEF Laid
<1>7. new = {<<key, l>> : l \in DOMAIN value.leaves}
  BY DEF leaf_paths
<1>8. /\ PathsOf(r, key) = {<<key, l>> : l \in DOMAIN r.merged[key].leaves}
      /\ PathsOf(n, key) = {<<key, l>> : l \in DOMAIN leaves}
      /\ \A k \in Key \ {key} : PathsOf(n, k) = PathsOf(r, k)
  BY <1>5, <1>6 DEF PathsOf, leaf_paths
<1>9. DOMAIN n.sources = new \cup DOMAIN r.sources
  BY <1>2 DEF Laid
<1>10. DOMAIN n.sources = UNION {PathsOf(n, k) : k \in Key}
  <2>1. DOMAIN r.sources = UNION {PathsOf(r, k) : k \in Key}
    BY DEF ReportTrue
  <2>2. PathsOf(n, key) = new \cup PathsOf(r, key)
    BY <1>6, <1>7, <1>8
  <2> QED
    BY <1>8, <1>9, <2>1, <2>2
<1>11. ASSUME NEW p \in DOMAIN n.sources
       PROVE  n.sources[p] = WriterOf(n, p)
  <2>1. CASE p \in new
    <3>1. n.sources[p] = source
      BY <1>2, <2>1 DEF Laid
    <3>2. PICK l \in DOMAIN value.leaves : p = <<key, l>>
      BY <1>7, <2>1
    <3>3. leaves[l] = source
      BY DEF Laid
    <3> QED
      BY <1>5, <3>1, <3>2, <3>3 DEF WriterOf
  <2>2. CASE p \notin new
    <3>1. p \in DOMAIN r.sources /\ n.sources[p] = r.sources[p]
      BY <1>2, <1>9, <2>2 DEF Laid
    <3>2. r.sources[p] = WriterOf(r, p)
      BY <3>1 DEF ReportTrue
    <3>3. CASE p \in PathsOf(r, key)
      <4>1. PICK l \in DOMAIN r.merged[key].leaves : p = <<key, l>>
        BY <1>8, <3>3
      <4>2. l \notin DOMAIN value.leaves
        BY <1>7, <2>2, <4>1
      <4>3. leaves[l] = r.merged[key].leaves[l]
        BY <4>1, <4>2 DEF Laid
      <4> QED
        BY <1>5, <3>1, <3>2, <4>1, <4>3 DEF WriterOf
    <3>4. CASE p \notin PathsOf(r, key)
      <4>1. p[1] \in Key \ {key}
        BY <3>1, <3>4, PathsApart DEF ReportTrue
      <4>2. n.merged[p[1]] = r.merged[p[1]]
        BY <1>5, <4>1
      <4> QED
        BY <3>1, <3>2, <4>2 DEF WriterOf
    <3> QED
      BY <3>3, <3>4
  <2> QED
    BY <2>1, <2>2
<1>12. \A k \in Key : Valued(n.merged[k])
  BY <1>3, <1>5 DEF Valued
<1>13. ReportTrue(n)
  BY <1>5, <1>10, <1>11, <1>12 DEF ReportTrue
<1> QED
  BY <1>5, <1>6, <1>13

-----------------------------------------------------------------------------
(* Where a step starts.                                                    *)

ServicePc == {"check_probe", "check_graph", "check_providers"}
ReportPc == {"r_base", "r_committed", "r_home", "r_told"}
LauncherPc == {"launcher", "launched", "launched_update"}

LEMMA InstallFrom ==
  ASSUME NEW t \in Terminal, InstallStep(t)
  PROVE  at[t] \in InstallPc \/ (at[t] = "prompt" /\ Job(t).run \in {"install", "install-skills"})
<1> USE DEF InstallPc, Runs, Starts
<1>1. CASE PlainStep(t)
  BY <1>1 DEF PlainStep, install, install_skills, install_client, native_fails, give_up,
     plain_plan, plain_backup, plain_write, TornWrite, _ensure_skills, extract_skills,
     ExtractFails, stamp_skills_dir
<1>2. CASE CodexStep(t)
  BY <1>2 DEF CodexStep, codex_read, _snapshot_config, codex_market, codex_verify, codex_mcp,
     codex_backup, codex_write, codex_add, codex_post, migrate_legacy_skills,
     migration_undone, _restore_configs, CodexProgramFails, CodexProgramLacks
<1>3. CASE ClaudeStep(t)
  BY <1>3 DEF ClaudeStep, claude_read, claude_market, claude_update, claude_plugin,
     claude_mcp_get, claude_mcp_remove, claude_mcp_add, _apply_claude_allowlist,
     allow_backup, allow_write
<1> QED
  BY <1>1, <1>2, <1>3 DEF InstallStep

LEMMA UpdateFrom ==
  ASSUME NEW t \in Terminal, UpdateStep(t)
  PROVE  at[t] \in UpdatePc \/ (at[t] = "prompt" /\ Job(t).run \in {"update"})
BY DEF UpdatePc, Runs, Starts, UpdateStep, update, check_latest, upgrade_uv_tool,
   run_fresh_artifact_refresh, download_compose, _update_lock, sync_compose_file,
   compose_again, compose_replace, compose_create, _write_state, compose_error,
   NoResult, compose_unlock, _refresh_update_artifacts, update_after, update_done,
   update_fails, update_advises

LEMMA ServiceFrom ==
  ASSUME NEW t \in Terminal, ServiceStep(t)
  PROVE  at[t] \in ServicePc \/ (at[t] = "prompt" /\ Job(t).run \in {"start", "stop", "check"})
BY DEF ServicePc, Runs, Starts, ServiceStep, start_services, stop_services, Composes, check,
   check_probe, check_graph, check_providers

LEMMA ConfigFrom ==
  ASSUME NEW t \in Terminal, ConfigStep(t)
  PROVE  at[t] \in ConfigPc \/ (at[t] = "prompt" /\ Job(t).run \in {"init", "config show", "config migrate"})
BY DEF ConfigPc, Runs, Starts, ConfigStep, resolve_look, resolve_read,
   publish_repository_block, _publish_new_config, _read_locked_destination,
   _replace_destination, _append_repository_candidate, init, plan_repository_config,
   config_show, config_shown, config_migrate, migrate_repo_config, _read_destination_mapping,
   _existing_migration_result, migrate_publish, migrate_branches, migrate_repo_branches

LEMMA ReportFrom ==
  ASSUME NEW t \in Terminal, ReportStep(t)
  PROVE  at[t] \in ReportPc \/ (at[t] = "prompt" /\ Job(t).run \in {"config report"})
BY DEF ReportPc, Runs, Starts, ReportStep, config_report, merge_base, Merges,
   merge_committed, merge_home, config_reported

LEMMA LauncherFrom ==
  ASSUME NEW t \in Terminal, LauncherStep(t) \/ launched_update(t)
  PROVE  at[t] \in LauncherPc \/ (at[t] = "prompt" /\ Job(t).run \in {"launcher"})
BY DEF LauncherPc, Runs, Starts, LauncherStep, launcher, set_query, move, open_selected,
   set_value, open_preview, _start_update_check, _finish_update_check, back, confirm, cancel,
   launched, launched_update, On, Press, Active

-----------------------------------------------------------------------------
(* The layers one after the other.                                         *)

LEMMA MappingTrue ==
  ASSUME NEW r, ReportTrue(r), NEW key \in Key, NEW shape \in Shape, NEW source,
         key = "context_limits" /\ shape \in Fills => ~Hollow(r)
  PROVE  LET n == _merge_mapping(r, key, Value(shape, source), source)
         IN /\ ReportTrue(n)
            /\ Hollow(n) => Hollow(r) \/ (key = "context_limits" /\ shape = "empty")
<1> DEFINE value == Value(shape, source)
           n == _merge_mapping(r, key, value, source)
           Over2 == value.kind = "mapping" /\ value.leaves # << >>
                      /\ r.merged[key].kind = "mapping" /\ key \notin ATOMIC_KEYS
<1>1. /\ Valued(value)
      /\ value.kind = "unset" <=> shape = "unset"
      /\ value.kind # "unset" => value.by = source
      /\ value.kind = "mapping" =>
           /\ \A l \in DOMAIN value.leaves : value.leaves[l] = source
           /\ shape = "empty" => value.leaves = << >> /\ DOMAIN value.leaves = {}
           /\ shape # "empty" => shape \in Fills /\ DOMAIN value.leaves # {}
  BY ValueIs
<1> HIDE DEF value
<1>A. /\ value.kind = "unset" => n = r
      /\ value.kind # "unset" /\ Over2 => n = MergeLeaves(r, key, value, source)
      /\ value.kind # "unset" /\ ~Over2 => n = _replace(r, key, <<key>>, value, source)
  BY DEF _merge_mapping
<1> SUFFICES /\ ReportTrue(n)
             /\ Hollow(n) => Hollow(r) \/ (key = "context_limits" /\ shape = "empty")
  BY DEF value
<1> HIDE DEF n
<1>2. CASE value.kind = "unset"
  BY <1>2, <1>A
<1>3. CASE value.kind # "unset" /\ Over2
  <2>1. shape \in Fills /\ DOMAIN value.leaves # {} /\ key = "context_limits"
    BY <1>1, <1>3 DEF Key, ATOMIC_KEYS
  <2>2. DOMAIN r.merged[key].leaves # {}
    BY <1>3, <2>1 DEF Hollow
  <2>3. n = MergeLeaves(r, key, value, source)
    BY <1>3, <1>A
  <2>4. ReportTrue(n) /\ DOMAIN n.merged[key].leaves # {}
    BY <1>1, <1>3, <2>1, <2>2, <2>3, MergeTrue
  <2> QED
    BY <2>1, <2>4 DEF Hollow
<1>4. CASE value.kind # "unset" /\ ~Over2
  <2>1. n = _replace(r, key, <<key>>, value, source)
    BY <1>4, <1>A
  <2>2. /\ ReportTrue(n) /\ n.merged[key] = value
        /\ \A k \in Key \ {key} : n.merged[k] = r.merged[k]
    BY <1>1, <1>4, <2>1, ReplaceTrue
  <2>3. CASE key = "context_limits"
    <3>1. Hollow(n) => shape = "empty"
      BY <1>1, <2>2, <2>3 DEF Hollow
    <3> QED
      BY <2>2, <2>3, <3>1
  <2>4. CASE key # "context_limits"
    BY <2>2, <2>4 DEF Hollow, Key
  <2> QED
    BY <2>3, <2>4
<1> QED
  BY <1>2, <1>3, <1>4

LEMMA LayerTrue ==
  ASSUME Shelled, NEW r, ReportTrue(r), NEW source \in Layer,
         case.layers[source]["context_limits"] \in Fills => ~Hollow(r)
  PROVE  LET n == merge_layer(r, source)
         IN /\ ReportTrue(n)
            /\ Hollow(n) => Hollow(r) \/ case.layers[source]["context_limits"] = "empty"
<1> DEFINE layer == case.layers[source]
           one == _merge_mapping(r, "context_limits",
                                 Value(layer["context_limits"], source), source)
           two == _merge_mapping(one, "task_board",
                                 Value(layer["task_board"], source), source)
<1>1. layer["context_limits"] \in Shape /\ layer["task_board"] \in Shape
  BY MachinesAssumption DEF Shelled
<1>2. "context_limits" \in Key /\ "task_board" \in Key
  BY DEF Key
<1> HIDE DEF layer
<1>3. ReportTrue(one) /\ (Hollow(one) => Hollow(r) \/ layer["context_limits"] = "empty")
  <2>1. layer["context_limits"] \in Fills => ~Hollow(r)
    BY DEF layer
  <2> QED
    BY <1>1, <1>2, <2>1, MappingTrue
<1> HIDE DEF one
<1>4. ReportTrue(two) /\ (Hollow(two) => Hollow(one))
  BY <1>1, <1>2, <1>3, MappingTrue
<1>5. merge_layer(r, source) = two
  BY DEF merge_layer, one, two, layer
<1> QED
  BY <1>3, <1>4, <1>5 DEF layer
\* A section that a layer has emptied is not filled again by a later one: the
\* report would then keep the entry of the empty section (deepmerge.py:69-77).
NoRefill ==
  \A c \in Cases :
    LET Says(l) == c.layers[l]["context_limits"] IN
    /\ Says("home:review") = "empty" =>
         Says(".review.yml") \notin Fills /\ Says("home:repo") \notin Fills
    /\ Says(".review.yml") = "empty" => Says("home:repo") \notin Fills

\* A section is empty only when a layer that has been read has emptied it.
Reported(t) ==
  LET Emptied(l) == case.layers[l]["context_limits"] = "empty" IN
  /\ at[t] \notin {"r_committed", "r_home", "r_told"} => report[t] = NoReport
  /\ at[t] = "r_committed" /\ Hollow(report[t]) => Emptied("home:review")
  /\ at[t] = "r_home" /\ Hollow(report[t]) =>
       Emptied("home:review") \/ Emptied(".review.yml")
  /\ ReportTrue(report[t])

ReportInv == DOMAIN report = Terminal /\ \A t \in Terminal : Reported(t)

LEMMA NothingReported == ReportTrue(NoReport) /\ ~Hollow(NoReport)
<1>1. \A k \in Key : NoReport.merged[k] = Unset /\ PathsOf(NoReport, k) = {}
  BY DEF NoReport, PathsOf, Unset
<1>2. DOMAIN NoReport.sources = {}
  BY DEF NoReport
<1>3. ReportTrue(NoReport)
  BY <1>1, <1>2 DEF ReportTrue, Valued, Unset, NoReport
<1> QED
  BY <1>1, <1>3 DEF Hollow, Unset, Key

LEMMA ReportedNext ==
  ASSUME NEW t \in Terminal, ReportTrue(report'[t]), case' = case,
         at'[t] \notin {"r_committed", "r_home", "r_told"} => report'[t] = NoReport,
         at'[t] = "r_committed" /\ Hollow(report'[t]) =>
           case.layers["home:review"]["context_limits"] = "empty",
         at'[t] = "r_home" /\ Hollow(report'[t]) =>
           \/ case.layers["home:review"]["context_limits"] = "empty"
           \/ case.layers[".review.yml"]["context_limits"] = "empty"
  PROVE  Reported(t)'
BY DEF Reported, Hollow, ReportTrue, PathsOf, leaf_paths, WriterOf, Valued

LEMMA ReportKept ==
  ASSUME ReportInv, NEW t \in Terminal, Walks(t), DOMAIN report' = Terminal,
         \A u \in Terminal \ {t} : report'[u] = report[u], Reported(t)'
  PROVE  ReportInv'
<1>1. ASSUME NEW u \in Terminal \ {t} PROVE Reported(u)'
  <2>1. at'[u] = at[u] /\ case' = case /\ report'[u] = report[u] /\ Reported(u)
    BY DEF Walks, ReportInv
  <2> QED
    BY <2>1, ReportedNext DEF Reported
<1> QED
  BY <1>1 DEF ReportInv

LEMMA ReportLeft ==
  ASSUME ReportInv, NEW t \in Terminal, Walks(t), report' = report,
         at[t] \notin {"r_committed", "r_home", "r_told"},
         at'[t] \notin {"r_committed", "r_home", "r_told"}
  PROVE  ReportInv'
<1>1. report'[t] = NoReport
  BY DEF ReportInv, Reported
<1>2. Reported(t)'
  BY <1>1, NothingReported, ReportedNext DEF Walks
<1> QED
  BY <1>2, ReportKept DEF ReportInv

LEMMA ReportsMerge ==
  ASSUME NoRefill, Shelled, ReportInv, NEW t \in Terminal, ReportStep(t)
  PROVE  ReportInv'
<1>1. /\ Walks(t) /\ DOMAIN report = Terminal /\ Reported(t) /\ DOMAIN at = Terminal
      /\ case' = case
  BY ReportPaths DEF ReportInv, Shelled, Walks
<1>2. LET Says(l) == case.layers[l]["context_limits"]
      IN /\ Says("home:review") = "empty" =>
              Says(".review.yml") \notin Fills /\ Says("home:repo") \notin Fills
         /\ Says(".review.yml") = "empty" => Says("home:repo") \notin Fills
  BY DEF NoRefill, Shelled
<1>3. ASSUME NEW here, NEW source \in Layer, NEW then, Merges(t, here, source, then),
             case.layers[source]["context_limits"] \in Fills => ~Hollow(report[t])
      PROVE  /\ at[t] = here /\ at'[t] = then /\ DOMAIN report' = Terminal
             /\ \A u \in Terminal \ {t} : report'[u] = report[u]
             /\ ReportTrue(report'[t])
             /\ Hollow(report'[t]) =>
                  Hollow(report[t]) \/ case.layers[source]["context_limits"] = "empty"
  <2>1. /\ at[t] = here /\ at'[t] = then
        /\ report' = [report EXCEPT ![t] = merge_layer(report[t], source)]
    BY <1>1, <1>3 DEF Merges, Runs, Go
  <2>2. ReportTrue(report[t])
    BY <1>1 DEF Reported
  <2>3. /\ ReportTrue(merge_layer(report[t], source))
        /\ Hollow(merge_layer(report[t], source)) =>
             Hollow(report[t]) \/ case.layers[source]["context_limits"] = "empty"
    BY <1>3, <2>2, LayerTrue
  <2>4. report'[t] = merge_layer(report[t], source)
    BY <1>1, <2>1
  <2> QED
    BY <1>1, <2>1, <2>3, <2>4
<1>4. Layer = {"home:review", ".review.yml", "home:repo"}
  BY DEF Layer
<1>5. ASSUME DOMAIN report' = Terminal, \A u \in Terminal \ {t} : report'[u] = report[u],
             ReportTrue(report'[t]),
             at'[t] \notin {"r_committed", "r_home", "r_told"} => report'[t] = NoReport,
             at'[t] = "r_committed" /\ Hollow(report'[t]) =>
               case.layers["home:review"]["context_limits"] = "empty",
             at'[t] = "r_home" /\ Hollow(report'[t]) =>
               \/ case.layers["home:review"]["context_limits"] = "empty"
               \/ case.layers[".review.yml"]["context_limits"] = "empty"
      PROVE  ReportInv'
  <2>1. Reported(t)'
    BY <1>1, <1>5, ReportedNext
  <2> QED
    BY <1>1, <1>5, <2>1, ReportKept
<1>6. CASE config_report(t)
  <2>1. report' = report /\ at[t] = "prompt" /\ at'[t] = "r_base"
    BY <1>1, <1>6 DEF config_report, Starts, Go
  <2> QED
    BY <1>1, <2>1, ReportLeft
<1>7. CASE merge_base(t)
  <2>1. Merges(t, "r_base", "home:review", "r_committed") /\ at[t] = "r_base"
    BY <1>7 DEF merge_base, Merges, Runs
  <2>2. ~Hollow(report[t])
    BY <1>1, <2>1, NothingReported DEF Reported
  <2> QED
    BY <1>3, <1>4, <1>5, <2>1, <2>2
<1>8. CASE merge_committed(t)
  <2>1. at[t] = "r_committed"
    BY <1>8 DEF merge_committed, Merges, Runs
  <2>2. Hollow(report[t]) => case.layers["home:review"]["context_limits"] = "empty"
    BY <1>1, <2>1 DEF Reported
  <2>3. CASE Merges(t, "r_committed", ".review.yml", "r_home")
    <3>1. case.layers[".review.yml"]["context_limits"] \in Fills => ~Hollow(report[t])
      BY <1>2, <2>2
    <3>2. /\ at'[t] = "r_home" /\ DOMAIN report' = Terminal
          /\ \A u \in Terminal \ {t} : report'[u] = report[u]
          /\ ReportTrue(report'[t])
          /\ Hollow(report'[t]) =>
               Hollow(report[t]) \/ case.layers[".review.yml"]["context_limits"] = "empty"
      BY <1>3, <1>4, <2>3, <3>1
    <3> QED
      BY <1>5, <2>2, <3>2
  <2>4. CASE ~Merges(t, "r_committed", ".review.yml", "r_home")
    <3>1. at'[t] = "r_home" /\ report' = report
      BY <1>1, <1>8, <2>4 DEF merge_committed, GoBadly
    <3> QED
      BY <1>1, <1>5, <2>2, <3>1 DEF Reported
  <2> QED
    BY <2>3, <2>4
<1>9. CASE merge_home(t)
  <2>1. Merges(t, "r_home", "home:repo", "r_told") /\ at[t] = "r_home"
    BY <1>9 DEF merge_home, Merges, Runs
  <2>2. Hollow(report[t]) => \/ case.layers["home:review"]["context_limits"] = "empty"
                            \/ case.layers[".review.yml"]["context_limits"] = "empty"
    BY <1>1, <2>1 DEF Reported
  <2>3. case.layers["home:repo"]["context_limits"] \in Fills => ~Hollow(report[t])
    BY <1>2, <2>2
  <2>4. /\ at'[t] = "r_told" /\ DOMAIN report' = Terminal
        /\ \A u \in Terminal \ {t} : report'[u] = report[u]
        /\ ReportTrue(report'[t])
    BY <1>3, <1>4, <2>1, <2>3
  <2> QED
    BY <1>5, <2>4
<1>10. CASE config_reported(t)
  <2>1. report' = [report EXCEPT ![t] = NoReport]
    BY <1>10 DEF config_reported
  <2>2. at'[t] \in {"prompt", "update_after"}
    BY <1>1, <1>10 DEF config_reported, Ends, Shelled
  <2> QED
    BY <1>1, <1>5, <2>1, <2>2, NothingReported
<1> QED
  BY <1>6, <1>7, <1>8, <1>9, <1>10 DEF ReportStep

LEMMA ReportSteps ==
  ASSUME NoRefill, MachineInv, ReportInv, [Next]_machine
  PROVE  ReportInv'
<1>0. Shelled /\ ConfigInv
  BY DEF MachineInv
<1>1. CASE UNCHANGED machine \/ Others
  <2>1. at' = at /\ case' = case /\ report' = report
    BY <1>1 DEF machine, shell, Others, People, Edit, EditSkill, Merge,
       Release, EditCompose, EditHome, Crowd, Happens
  <2>2. \A t \in Terminal : Reported(t)'
    BY <2>1, ReportedNext DEF ReportInv, Reported
  <2> QED
    BY <2>1, <2>2 DEF ReportInv
<1>2. ASSUME NEW t \in Terminal, Killed(t)
      PROVE  ReportInv'
  <2>1. Walks(t) /\ at'[t] = "prompt" /\ report' = [report EXCEPT ![t] = NoReport]
    BY <1>0, <1>2, StepWalks DEF Killed, Kill, ReportKilled, Shelled
  <2>2. report'[t] = NoReport /\ DOMAIN report' = Terminal
        /\ \A u \in Terminal \ {t} : report'[u] = report[u]
    BY <2>1 DEF ReportInv
  <2>3. Reported(t)'
    BY <2>1, <2>2, NothingReported, ReportedNext DEF Walks
  <2> QED
    BY <2>1, <2>2, <2>3, ReportKept
<1>3. ASSUME NEW t \in Terminal, Step(t)
      PROVE  ReportInv'
  <2>1. Walks(t)
    BY <1>3, StepWalks
  <2>2. CASE Reporting(t)
    BY <1>0, <2>2, ReportsMerge DEF Reporting
  <2>3. CASE Installing(t) \/ Updating(t) \/ Serving(t) \/ Configuring(t) \/ Launching(t)
    <3>1. report' = report
      BY <2>3 DEF Installing, Updating, Serving, Configuring, Launching
    <3>2. at[t] \in InstallPc \cup UpdatePc \cup ServicePc \cup ConfigPc \cup LauncherPc
                     \cup {"prompt"}
      BY <2>3, InstallFrom, UpdateFrom, ServiceFrom, ConfigFrom, LauncherFrom
         DEF Installing, Updating, Serving, Configuring, Launching
    <3>3. at'[t] \in InstallPc \cup UpdatePc \cup ServicePc \cup ConfigPc \cup LauncherPc
                      \cup Out
      <4>1. CASE launched_update(t)
        BY <1>0, <4>1 DEF launched_update, Updates, Runs, Go, Shelled, UpdatePc
      <4> QED
        BY <1>0, <2>3, <4>1, PlainPaths, CodexPaths, ClaudePaths, UpdatePaths, ServicePaths,
           ConfigPaths, LauncherPaths
           DEF Installing, InstallStep, Updating, Serving, Configuring, Launching, ServicePc,
               LauncherPc, InstallPc
    <3> QED
      BY <2>1, <3>1, <3>2, <3>3, ReportLeft
         DEF InstallPc, UpdatePc, ServicePc, ConfigPc, LauncherPc, Out
  <2> QED
    BY <1>3, <2>2, <2>3 DEF Step
<1> QED
  BY <1>1, <1>2, <1>3 DEF Next, Idle

LEMMA ReportStart ==
  ASSUME Init
  PROVE  ReportInv
<1>1. at = [t \in Terminal |-> "prompt"] /\ report = [t \in Terminal |-> NoReport]
  BY DEF Init, ShellInit, ReportInit
<1> QED
  BY <1>1, NothingReported DEF ReportInv, Reported

LEMMA ReportShown == ReportInv => EverySourceIsTrue
<1> SUFFICES ASSUME ReportInv, NEW t \in Terminal
             PROVE  /\ DOMAIN report[t].sources = UNION {PathsOf(report[t], k) : k \in Key}
                    /\ \A p \in DOMAIN report[t].sources :
                         report[t].sources[p] = WriterOf(report[t], p)
  BY DEF EverySourceIsTrue, PathsOf
<1> QED
  BY DEF ReportInv, Reported, ReportTrue

-----------------------------------------------------------------------------
(* What a command may come to.                                             *)

Installers == {"install", "install-skills"}
Updaters == {"update", "launcher"}

\* A command does only what belongs to it: install --all runs by itself, or
\* as the last part of an update, which the launcher may have called.
Fit(t) ==
  /\ at[t] \in InstallPc \cup UpdatePc \cup LauncherPc \cup ServicePc \cup ConfigPc
              \cup ReportPc \cup {"prompt"}
  /\ at[t] \in InstallPc =>
       \/ caller[t] = "shell" /\ Job(t).run \in Installers
       \/ caller[t] = "update_after" /\ Job(t).run \in Updaters
  /\ at[t] \notin InstallPc => caller[t] = "shell"
  /\ at[t] \in UpdatePc => Job(t).run \in Updaters
  /\ at[t] \in LauncherPc => Job(t).run = "launcher"
  /\ at[t] \in ServicePc \cup ConfigPc \cup ReportPc =>
       Job(t).run \notin Installers \cup Updaters

JobInv == \A t \in Terminal : Fit(t)

\* A step of t, by where it starts and where it ends.
LEMMA FitKept ==
  ASSUME JobInv, NEW t \in Terminal, Walks(t), Fit(t)'
  PROVE  JobInv'
<1>1. ASSUME NEW u \in Terminal \ {t} PROVE Fit(u)'
  BY DEF Walks, JobInv, Fit, Job
<1> QED
  BY <1>1 DEF JobInv

LEMMA PcSets ==
  /\ InstallPc \cap (UpdatePc \cup LauncherPc \cup ServicePc \cup ConfigPc \cup ReportPc
                     \cup {"prompt"}) = {}
  /\ UpdatePc \cap (LauncherPc \cup ServicePc \cup ConfigPc \cup ReportPc
                    \cup {"prompt"}) = {}
  /\ LauncherPc \cap (ServicePc \cup ConfigPc \cup ReportPc \cup {"prompt"}) = {}
  /\ "prompt" \notin ServicePc \cup ConfigPc \cup ReportPc
  /\ "client" \in InstallPc
  /\ {"compose_fetch", "upgrade", "latest", "update_after", "update_clients"} \subseteq UpdatePc
  /\ Out = {"prompt", "update_after"}
BY DEF InstallPc, UpdatePc, LauncherPc, ServicePc, ConfigPc, ReportPc, Out

LEMMA JobSteps ==
  ASSUME MachineInv, JobInv, [Next]_machine
  PROVE  JobInv'
<1>0. Shelled /\ ConfigInv /\ ComposeInv
  BY DEF MachineInv
<1>1. CASE UNCHANGED machine \/ Others
  <2>1. at' = at /\ caller' = caller /\ todo' = todo
    BY <1>1 DEF machine, shell, Others, People, Edit, EditSkill, Merge,
       Release, EditCompose, EditHome, Crowd, Happens
  <2> QED
    BY <2>1 DEF JobInv, Fit, Job
<1>2. ASSUME NEW t \in Terminal, Killed(t)
      PROVE  JobInv'
  <2>1. Walks(t) /\ at'[t] = "prompt" /\ caller'[t] = "shell"
    BY <1>0, <1>2, StepWalks DEF Killed, Kill, Shelled
  <2>2. Fit(t)'
    BY <2>1, PcSets DEF Fit
  <2> QED
    BY <2>1, <2>2, FitKept
<1>3. ASSUME NEW t \in Terminal, Step(t)
      PROVE  JobInv'
  <2>1. Walks(t)
    BY <1>3, StepWalks
  <2>2. Fit(t) /\ (at'[t] # "prompt" => Job(t)' = Job(t))
    BY <2>1 DEF JobInv, Walks, Job
  <2>3. at[t] = "prompt" => caller[t] = "shell"
    BY <2>2, PcSets DEF Fit
  <2>4. Fit(t)'
    <3>1. CASE Installing(t)
      <4>1. at[t] \in InstallPc \/ (at[t] = "prompt" /\ Job(t).run \in Installers)
        BY <3>1, InstallFrom DEF Installing, Installers
      <4>2. at'[t] \in InstallPc \cup Out
        BY <1>0, <3>1, PlainPaths, CodexPaths, ClaudePaths DEF Installing, InstallStep
      <4> QED
        BY <2>1, <2>2, <2>3, <4>1, <4>2, PcSets DEF Fit, Walks
    <3>2. CASE Updating(t) \/ launched_update(t)
      <4>1. at[t] \in UpdatePc \/ (at[t] = "prompt" /\ Job(t).run \in Updaters)
              \/ at[t] \in LauncherPc
        BY <3>2, UpdateFrom, LauncherFrom, PcSets DEF Updating, Updaters
      <4>2. at'[t] \in {"client"} \cup UpdatePc \cup Out
        <5>1. CASE launched_update(t)
          BY <1>0, <5>1, PcSets DEF launched_update, Updates, Runs, Go, Shelled
        <5> QED
          BY <1>0, <3>2, <5>1, UpdatePaths DEF Updating
      <4>3. at'[t] = "client" => at[t] = "update_clients" /\ caller'[t] = "update_after"
        <5>1. CASE launched_update(t)
          BY <1>0, <5>1, PcSets DEF launched_update, Updates, Runs, Go, Shelled
        <5>2. CASE UpdateStep(t)
          BY <1>0, <5>2 DEF UpdateStep, update, Updates, check_latest, upgrade_uv_tool,
             run_fresh_artifact_refresh, download_compose, _update_lock, sync_compose_file,
             compose_again, compose_replace, compose_create, _write_state, compose_error,
             NoResult, compose_unlock, _refresh_update_artifacts, update_after,
             update_done, update_fails, update_advises, UpdateEnds,
             Go, GoBadly, Preserve, Calls, Runs, Ends, Starts, Shelled
        <5> QED
          BY <3>2, <5>1, <5>2 DEF Updating
      <4> QED
        BY <2>1, <2>2, <2>3, <4>1, <4>2, <4>3, PcSets DEF Fit, Walks, Updaters
    <3>3. CASE Serving(t) \/ Configuring(t) \/ Reporting(t)
      <4>1. /\ at[t] \in ServicePc \cup ConfigPc \cup ReportPc \cup {"prompt"}
            /\ at[t] = "prompt" => Job(t).run \notin Installers \cup Updaters
        BY <3>3, ServiceFrom, ConfigFrom, ReportFrom, PcSets
           DEF Serving, Configuring, Reporting, Installers, Updaters
      <4>2. at'[t] \in ServicePc \cup ConfigPc \cup ReportPc \cup Out
        BY <1>0, <3>3, ServicePaths, ConfigPaths, ReportPaths
           DEF Serving, Configuring, Reporting, ServicePc, ReportPc
      <4> QED
        BY <2>1, <2>2, <2>3, <4>1, <4>2, PcSets DEF Fit, Walks
    <3>4. CASE LauncherStep(t)
      <4>1. at[t] \in LauncherPc \/ (at[t] = "prompt" /\ Job(t).run = "launcher")
        BY <3>4, LauncherFrom
      <4>2. at'[t] \in LauncherPc \cup Out
        BY <1>0, <3>4, LauncherPaths DEF LauncherPc
      <4> QED
        BY <2>1, <2>2, <2>3, <4>1, <4>2, PcSets DEF Fit, Walks
    <3> QED
      BY <1>3, <3>1, <3>2, <3>3, <3>4 DEF Step, Launching
  <2> QED
    BY <2>1, <2>4, FitKept
<1> QED
  BY <1>1, <1>2, <1>3 DEF Next, Idle

LEMMA JobStart ==
  ASSUME Init
  PROVE  JobInv
BY PcSets DEF Init, ShellInit, JobInv, Fit

-----------------------------------------------------------------------------
(* What an update tells of the Compose file.                               *)

\* At the start the file is one that an update has recorded, or its user's,
\* or the newest one where none is merged.  And a version is merged only
\* where no update is killed or finds the disk full, which could be between
\* the replacement of the file and the record of it.
ComposeKnown ==
  \A c \in Cases :
    /\ \/ c.compose.file \in {None, Edited, c.compose.recorded}
       \/ c.compose.file = c.world.main /\ "merge" \notin c.trouble
    /\ "merge" \in c.trouble /\ c.trouble \cap {"kill", "disk"} # {} =>
         \A t \in Terminal : \A i \in DOMAIN c.todo[t] : c.todo[t][i].run \notin Updaters

Unmerged == "merge" \notin case.trouble

\* What an update has found, under the lock, and what may have come since.
Known(t) ==
  /\ at[t] \in {"compose_lock"} \cup Locking /\ Unmerged => upd[t].content = world.main
  /\ at[t] = "compose_again" => compose.file \in {upd[t].existing, Edited, None}
  /\ at[t] = "compose_create" => compose.file \in {None, Edited}
  /\ at[t] = "compose_state" =>
       compose.file \in {upd[t].content, None, Edited} /\ upd[t].action # "preserved"
  /\ at[t] = "compose_unlock" /\ upd[t].action = "preserved" =>
       compose.link \/ compose.file \in {Edited, None}

\* A file that an update wrote is recorded, or about to be.
FileKnown ==
  \/ compose.file \in {None, Edited, compose.recorded}
  \/ Unmerged /\ compose.file = world.main
  \/ \E t \in Terminal : at[t] = "compose_state" /\ compose.file = upd[t].content

KnownInv == FileKnown /\ \A t \in Terminal : Known(t)

LEMMA KnownSpared ==
  ASSUME Shelled, ComposeInv, KnownInv, NEW t \in Terminal, Syncs(t), Walks(t),
         world'.main = world.main,
         NEW u \in Terminal \ {t}
  PROVE  Known(u)'
<1>1. /\ at'[u] = at[u] /\ upd'[u] = upd[u] /\ case' = case
      /\ Known(u) /\ Synced(u) /\ Synced(t)
  BY DEF Walks, Syncs, ComposeInv, KnownInv
<1>2. CASE at[u] \notin Locking
  BY <1>1, <1>2 DEF Known, Locking, Unmerged
<1>3. CASE at[u] \in Locking
  <2>1. at[t] \notin Locking
    BY <1>1, <1>3 DEF Synced
  <2>2. compose' = compose
    BY <2>1 DEF Syncs
  <2> QED
    BY <1>1, <2>2 DEF Known, Unmerged, Edited
<1> QED
  BY <1>2, <1>3

LEMMA CountedBack == \A n \in Nat : \A m \in 1..n : n - m + 1 \in 1..n
OBVIOUS

\* Whose update is killed, or cannot record what it wrote, has the newest
\* version.
LEMMA StopKnows ==
  ASSUME ComposeKnown, Shelled, Queues, JobInv, KnownInv, NEW t \in Terminal,
         case.trouble \cap {"kill", "disk"} # {}, at[t] = "compose_state"
  PROVE  Unmerged /\ upd[t].content = world.main
<1>1. at[t] # "prompt" /\ todo[t] # << >>
  BY DEF Queues, Queued
<1>2. Job(t).run \in Updaters /\ at[t] \in Locking
  BY DEF JobInv, Fit, UpdatePc, Locking
<1>3. \E i \in DOMAIN case.todo[t] : Job(t) = case.todo[t][i]
  <2>1. /\ Len(todo[t]) \in 1..Len(case.todo[t]) /\ Len(case.todo[t]) \in Nat
        /\ Job(t) = case.todo[t][Len(case.todo[t]) - Len(todo[t]) + 1]
    BY <1>1, JobAt
  <2>2. Len(case.todo[t]) - Len(todo[t]) + 1 \in 1..Len(case.todo[t])
    BY <2>1, CountedBack
  <2>3. DOMAIN case.todo[t] = 1..Len(case.todo[t])
    BY JobsListed
  <2> QED
    BY <2>1, <2>2, <2>3
<1>4. Unmerged
  BY <1>1, <1>2, <1>3 DEF ComposeKnown, Shelled, Unmerged
<1> QED
  BY <1>2, <1>4 DEF KnownInv, Known

LEMMA UpdateKnows ==
  ASSUME ComposeKnown, Shelled, Queues, JobInv, ComposeInv, KnownInv, WorldSound,
         NEW t \in Terminal, UpdateStep(t)
  PROVE  Known(t)' /\ FileKnown'
<1>1. /\ DOMAIN upd = Terminal /\ DOMAIN upd[t] = UpdateRegister /\ Synced(t) /\ Known(t)
      /\ FileKnown /\ \A u \in Terminal : Synced(u)
      /\ DOMAIN at = Terminal /\ caller[t] \in {"shell", "update_after"}
  BY DEF ComposeInv, KnownInv, Shelled
<1>2. /\ Walks(t) /\ Syncs(t) /\ case' = case
      /\ \A u \in Terminal \ {t} : at'[u] = at[u] /\ upd'[u] = upd[u]
      /\ Edited' = Edited
  BY UpdatePaths, UpdateSyncs DEF Walks, Syncs, Edited
<1>3. world'.main = world.main
  BY <1>2 DEF Syncs, WorldSound
<1>4. compose \in [file : VersionOrNone \cup {Edited}, link : BOOLEAN,
                  recorded : VersionOrNone]
  BY DEF ComposeInv
\* Where the step leaves the file alone, and does not come from the record.
<1>5. ASSUME compose' = compose, at[t] # "compose_state"
      PROVE  FileKnown'
  BY <1>1, <1>2, <1>3, <1>5 DEF FileKnown, Unmerged
\* Where it leaves the part that is about the file behind, or is not yet there.
<1>6. ASSUME at'[t] \notin {"compose_lock"} \cup Locking
      PROVE  Known(t)'
  BY <1>6 DEF Known, Locking
<1>7. CASE update(t)
  <2>1. compose' = compose /\ at[t] = "prompt" /\ at'[t] \in {"compose_fetch", "upgrade", "latest"}
    BY <1>1, <1>7 DEF update, Updates, Go, Starts, updates
  <2> QED
    BY <1>5, <1>6, <2>1 DEF Locking
<1>8. CASE check_latest(t)
  <2>1. /\ compose' = compose /\ at[t] = "latest"
        /\ at'[t] \in {"compose_fetch", "upgrade", "update_advises"}
    BY <1>1, <1>8 DEF check_latest, UpgradeDue, Go, GoBadly, Runs, updates
  <2> QED
    BY <1>5, <1>6, <2>1 DEF Locking
<1>9. CASE upgrade_uv_tool(t)
  <2>1. compose' = compose /\ at[t] = "upgrade" /\ at'[t] \in {"fresh", "update_fails"}
    BY <1>1, <1>9 DEF upgrade_uv_tool, Go, GoBadly, Runs, updates
  <2> QED
    BY <1>5, <1>6, <2>1 DEF Locking
<1>10. CASE run_fresh_artifact_refresh(t)
  <2>1. compose' = compose /\ at[t] = "fresh" /\ at'[t] \in {"compose_fetch", "update_fails"}
    BY <1>1, <1>10 DEF run_fresh_artifact_refresh, Go, GoBadly, Runs, updates
  <2> QED
    BY <1>5, <1>6, <2>1 DEF Locking
<1>11. CASE download_compose(t)
  <2>1. compose' = compose /\ at[t] = "compose_fetch"
    BY <1>1, <1>11 DEF download_compose, Runs
  <2>2. CASE at'[t] = "compose_lock"
    <3>1. Note(t, [content |-> world.main])
      BY <1>1, <1>11, <2>2 DEF download_compose, GoBadly
    <3>2. upd'[t].content = world.main
      BY <1>1, <3>1 DEF Note, Over, UpdateRegister
    <3> QED
      BY <1>3, <1>5, <2>1, <2>2, <3>2 DEF Known
  <2>3. CASE at'[t] # "compose_lock"
    <3>1. at'[t] = "update_clients"
      BY <1>1, <1>11, <2>3 DEF download_compose, Go, GoBadly
    <3> QED
      BY <1>5, <1>6, <2>1, <3>1 DEF Locking
  <2> QED
    BY <2>2, <2>3
<1>12. CASE _update_lock(t)
  <2>1. /\ compose' = compose /\ at[t] = "compose_lock" /\ at'[t] = "compose_read"
        /\ upd'[t] = upd[t]
    BY <1>1, <1>12 DEF _update_lock, Go, Runs
  <2>2. Known(t)'
    BY <1>1, <1>2, <1>3, <2>1 DEF Known, Unmerged, Locking
  <2> QED
    BY <1>5, <2>1, <2>2
<1>13. CASE sync_compose_file(t)
  <2>1. compose' = compose /\ at[t] = "compose_read" /\ upd'[t].content = upd[t].content
    BY <1>1, <1>13 DEF sync_compose_file, Runs, Preserve, Note, Over, UpdateRegister
  <2>2. Unmerged => upd[t].content = world.main
    BY <1>1, <2>1 DEF Known, Locking
  <2>3. CASE at'[t] = "compose_unlock"
    <3>1. compose.link \/ compose.file = Edited
      <4>1. \/ compose.link
            \/ /\ compose.file \notin {upd[t].content, None}
               /\ compose.recorded # compose.file
        BY <1>1, <1>4, <1>13, <2>3 DEF sync_compose_file, Preserve, Go, _read_recorded_hash
      <4>2. \A u \in Terminal : at[u] = "compose_state" => u = t
        BY <1>1, <2>1 DEF Synced, Locking
      <4> QED
        BY <1>1, <2>1, <2>2, <4>1, <4>2 DEF FileKnown
    <3>2. Known(t)'
      BY <1>2, <1>3, <2>1, <2>2, <2>3, <3>1 DEF Known, Unmerged
    <3> QED
      BY <1>5, <2>1, <3>2
  <2>4. CASE at'[t] = "compose_state"
    <3>1. /\ compose.file = upd[t].content
          /\ Note(t, [action |-> IF _read_recorded_hash = upd[t].content THEN "current"
                                 ELSE "adopted"])
      BY <1>1, <1>13, <2>4 DEF sync_compose_file, Preserve, Go
    <3>2. upd'[t].action # "preserved"
      BY <1>1, <3>1 DEF Note, Over, UpdateRegister
    <3>3. Known(t)'
      BY <1>2, <1>3, <2>1, <2>2, <2>4, <3>1, <3>2 DEF Known, Unmerged
    <3> QED
      BY <1>5, <2>1, <3>3
  <2>5. CASE at'[t] = "compose_create"
    <3>1. compose.file = None
      BY <1>1, <1>13, <2>5 DEF sync_compose_file, Preserve, Go
    <3>2. Known(t)'
      BY <1>2, <1>3, <2>1, <2>2, <2>5, <3>1 DEF Known, Unmerged
    <3> QED
      BY <1>5, <2>1, <3>2
  <2>6. CASE at'[t] = "compose_again"
    <3>1. Note(t, [existing |-> compose.file])
      BY <1>1, <1>13, <2>6 DEF sync_compose_file, Preserve, Go
    <3>2. upd'[t].existing = compose.file
      BY <1>1, <3>1 DEF Note, Over, UpdateRegister
    <3>3. Known(t)'
      BY <1>2, <1>3, <2>1, <2>2, <2>6, <3>2 DEF Known, Unmerged
    <3> QED
      BY <1>5, <2>1, <3>3
  <2> QED
    BY <1>1, <1>13, <2>3, <2>4, <2>5, <2>6 DEF sync_compose_file, Preserve, Go
<1>14. CASE compose_again(t)
  <2>1. compose' = compose /\ at[t] = "compose_again" /\ upd'[t].content = upd[t].content
    BY <1>1, <1>14 DEF compose_again, Runs, Preserve, NoResult, Note, Over, UpdateRegister
  <2>2. /\ Unmerged => upd[t].content = world.main
        /\ compose.file \in {upd[t].existing, Edited, None}
    BY <1>1, <2>1 DEF Known, Locking
  <2>3. CASE at'[t] = "compose_unlock"
    <3>1. compose.file \in {Edited, None}
      BY <1>1, <1>14, <2>2, <2>3 DEF compose_again, Go
    <3>2. Known(t)'
      BY <1>2, <1>3, <2>1, <2>2, <2>3, <3>1 DEF Known, Unmerged
    <3> QED
      BY <1>5, <2>1, <3>2
  <2>4. CASE at'[t] = "compose_state"
    <3>1. compose.file = upd[t].content /\ Note(t, [action |-> "current"])
      BY <1>1, <1>14, <2>4 DEF compose_again, Preserve, Go
    <3>2. upd'[t].action # "preserved"
      BY <1>1, <3>1 DEF Note, Over, UpdateRegister
    <3>3. Known(t)'
      BY <1>2, <1>3, <2>1, <2>2, <2>4, <3>1, <3>2 DEF Known, Unmerged
    <3> QED
      BY <1>5, <2>1, <3>3
  <2>5. CASE at'[t] = "compose_replace"
    <3>1. Known(t)'
      BY <1>2, <1>3, <2>1, <2>2, <2>5 DEF Known, Unmerged
    <3> QED
      BY <1>5, <2>1, <3>1
  <2> QED
    BY <1>1, <1>14, <2>3, <2>4, <2>5 DEF compose_again, Preserve, Go
<1>15. ASSUME compose' = [compose EXCEPT !.file = upd[t].content], at'[t] = "compose_state",
              at[t] \in Locking,
              \E action \in {"updated", "created"} : Note(t, [action |-> action])
       PROVE  Known(t)' /\ FileKnown'
  <2>1. upd'[t].action # "preserved" /\ upd'[t].content = upd[t].content
    BY <1>1, <1>15 DEF Note, Over, UpdateRegister
  <2>2. compose'.file = upd[t].content
    BY <1>4, <1>15
  <2>3. Unmerged => upd[t].content = world.main
    BY <1>1, <1>15 DEF Known
  <2>4. Known(t)'
    BY <1>2, <1>3, <1>15, <2>1, <2>2, <2>3 DEF Known, Unmerged
  <2> QED
    BY <1>15, <2>1, <2>2, <2>4 DEF FileKnown
<1>16. CASE compose_replace(t)
  <2>1. /\ compose' = [compose EXCEPT !.file = upd[t].content] /\ at'[t] = "compose_state"
        /\ at[t] \in Locking /\ Note(t, [action |-> "updated"])
    BY <1>1, <1>16 DEF compose_replace, Go, Runs, Locking
  <2> QED
    BY <1>15, <2>1
<1>17. CASE compose_create(t)
  <2>1. CASE compose.file = None
    <3>1. /\ compose' = [compose EXCEPT !.file = upd[t].content] /\ at'[t] = "compose_state"
          /\ at[t] \in Locking /\ Note(t, [action |-> "created"])
      BY <1>1, <1>17, <2>1 DEF compose_create, Go, Runs, Locking
    <3> QED
      BY <1>15, <3>1
  <2>2. CASE compose.file # None
    <3>1. /\ compose' = compose /\ at[t] = "compose_create" /\ at'[t] = "compose_unlock"
          /\ upd'[t].content = upd[t].content
      BY <1>1, <1>17, <2>2
         DEF compose_create, Go, Runs, Preserve, Note, Over, UpdateRegister
    <3>2. /\ Unmerged => upd[t].content = world.main
          /\ compose.file = Edited
      BY <1>1, <2>2, <3>1 DEF Known, Locking
    <3>3. Known(t)'
      BY <1>2, <1>3, <3>1, <3>2 DEF Known, Unmerged
    <3> QED
      BY <1>5, <3>1, <3>3
  <2> QED
    BY <2>1, <2>2
<1>18. CASE _write_state(t)
  <2>1. /\ compose' = [compose EXCEPT !.recorded = upd[t].content]
        /\ at[t] = "compose_state" /\ at'[t] = "compose_unlock" /\ upd' = upd
    BY <1>1, <1>18 DEF _write_state, Go, Runs
  <2>2. /\ compose.file \in {upd[t].content, None, Edited} /\ upd[t].action # "preserved"
        /\ Unmerged => upd[t].content = world.main
    BY <1>1, <2>1 DEF Known, Locking
  <2>3. compose'.recorded = upd[t].content /\ compose'.file = compose.file
    BY <1>4, <2>1
  <2>4. Known(t)'
    BY <1>2, <1>3, <2>1, <2>2 DEF Known, Unmerged
  <2> QED
    BY <1>2, <2>2, <2>3, <2>4 DEF FileKnown
<1>19. CASE compose_unlock(t)
  <2>1. compose' = compose /\ at[t] = "compose_unlock" /\ at'[t] = "update_clients"
    BY <1>1, <1>19 DEF compose_unlock, Go, Runs
  <2> QED
    BY <1>5, <1>6, <2>1 DEF Locking
<1>23. CASE compose_error(t)
  <2>1. /\ compose' = compose /\ at'[t] = "compose_unlock" /\ at[t] \in Locking
        /\ NoResult(t) /\ "disk" \in case.trouble
    BY <1>1, <1>23 DEF compose_error, GoBadly, May, Locking
  <2>2. upd'[t].content = upd[t].content /\ upd'[t].action # "preserved"
    BY <1>1, <2>1 DEF NoResult, Note, Over, UpdateRegister
  <2>3. Unmerged => upd[t].content = world.main
    BY <1>1, <2>1 DEF Known
  <2>4. Known(t)'
    BY <1>2, <1>3, <2>1, <2>2, <2>3 DEF Known, Unmerged
  <2>5. FileKnown'
    <3>1. CASE at[t] = "compose_state"
      <4>1. Unmerged /\ upd[t].content = world.main
        BY <2>1, <3>1, StopKnows
      <4> QED
        BY <1>1, <1>2, <1>3, <2>1, <4>1 DEF FileKnown, Unmerged
    <3> QED
      BY <1>5, <2>1, <3>1
  <2> QED
    BY <2>4, <2>5
<1>20. CASE _refresh_update_artifacts(t)
  <2>1. compose' = compose /\ at[t] = "update_clients" /\ at'[t] \in {"client", "update_done"}
    BY <1>1, <1>20 DEF _refresh_update_artifacts, Go, Calls, Runs, updates
  <2> QED
    BY <1>5, <1>6, <2>1 DEF Locking
<1>21. CASE update_after(t)
  <2>1. compose' = compose /\ at[t] = "update_after" /\ at'[t] = "update_done"
    BY <1>1, <1>21 DEF update_after, Go, Runs
  <2> QED
    BY <1>5, <1>6, <2>1 DEF Locking
<1>22. CASE update_done(t) \/ update_fails(t) \/ update_advises(t)
  <2>1. /\ compose' = compose /\ at'[t] \in Out
        /\ at[t] \in {"update_done", "update_fails", "update_advises"}
    BY <1>1, <1>22 DEF update_done, update_fails, update_advises, UpdateEnds, Ends, Runs, Out
  <2> QED
    BY <1>5, <1>6, <2>1 DEF Locking, Out
<1> QED
  BY <1>7, <1>8, <1>9, <1>10, <1>11, <1>12, <1>13, <1>14, <1>16, <1>17, <1>18, <1>19,
     <1>20, <1>21, <1>22, <1>23 DEF UpdateStep
\* A step that has no part in the Compose file.
LEMMA KnownLeft ==
  ASSUME Shelled, KnownInv, NEW t \in Terminal, Walks(t), UNCHANGED updates,
         world'.main = world.main,
         at[t] \notin UpdatePc, at'[t] \notin {"compose_lock"} \cup Locking
  PROVE  KnownInv'
<1>1. /\ compose' = compose /\ upd' = upd /\ case' = case
      /\ \A u \in Terminal \ {t} : at'[u] = at[u]
  BY DEF updates, Walks
<1>2. \A u \in Terminal : Known(u)'
  BY <1>1 DEF KnownInv, Known, Locking, Unmerged, Edited
<1>3. FileKnown'
  BY <1>1 DEF KnownInv, FileKnown, Unmerged, Edited, UpdatePc
<1> QED
  BY <1>2, <1>3 DEF KnownInv

LEMMA KnownSteps ==
  ASSUME ComposeKnown, MachineInv, Queues, JobInv, KnownInv, [Next]_machine
  PROVE  KnownInv'
<1>0. Shelled /\ ConfigInv /\ ComposeInv /\ WorldSound
  BY DEF MachineInv
<1>1. CASE UNCHANGED machine \/ Others
  <2>1. at' = at /\ case' = case /\ upd' = upd
    BY <1>1 DEF machine, shell, Others, People, Edit, EditSkill, Merge,
       Release, EditCompose, EditHome, Crowd, Happens, updates
  <2>2. \/ compose' = compose
        \/ \E file \in {Edited, None} : compose' = [compose EXCEPT !.file = file]
    BY <1>1 DEF machine, Others, EditCompose, Crowd, updates
  <2>3. /\ compose' = compose
        \/ /\ compose'.file \in {Edited, None}
           /\ compose'.recorded = compose.recorded /\ compose'.link = compose.link
    BY <1>0, <2>2 DEF ComposeInv
  <2>4. Unmerged => world'.main = world.main
    <3>1. CASE People
      BY <1>0, <3>1 DEF People, Edit, EditSkill, Merge, Release, Happens, May, Unmerged, WorldSound
    <3>2. CASE world' = world
      BY <3>2
    <3> QED
      BY <1>1, <3>1, <3>2 DEF machine, clients, Others, EditCompose, EditHome, Crowd
  <2>5. \A u \in Terminal : Known(u)'
    BY <2>1, <2>3, <2>4 DEF KnownInv, Known, Locking, Unmerged, Edited
  <2>6. FileKnown'
    BY <2>1, <2>3, <2>4 DEF KnownInv, FileKnown, Unmerged, Edited
  <2> QED
    BY <2>5, <2>6 DEF KnownInv
<1>2. ASSUME NEW t \in Terminal, Killed(t)
      PROVE  KnownInv'
  <2>1. /\ Walks(t) /\ at'[t] = "prompt" /\ world' = world /\ compose' = compose
        /\ upd' = [upd EXCEPT ![t] = NoUpdate] /\ case' = case
    BY <1>0, <1>2, StepWalks DEF Killed, Kill, UpdateKilled, Shelled
  <2>2. \A u \in Terminal \ {t} : upd'[u] = upd[u] /\ at'[u] = at[u]
    BY <1>0, <2>1 DEF ComposeInv, Walks
  <2>3. ASSUME NEW u \in Terminal PROVE Known(u)'
    BY <2>1, <2>2 DEF KnownInv, Known, Locking, Unmerged, Edited
  <2>4. FileKnown'
    <3>1. CASE at[t] = "compose_state"
      <4>1. Unmerged /\ upd[t].content = world.main
        BY <1>0, <1>2, <3>1, StopKnows DEF Killed, Kill, May
      <4>2. FileKnown
        BY DEF KnownInv
      <4> QED
        BY <2>1, <2>2, <4>1, <4>2 DEF FileKnown, Unmerged, Edited
    <3>2. CASE at[t] # "compose_state"
      BY <2>1, <2>2, <3>2 DEF KnownInv, FileKnown, Unmerged, Edited
    <3> QED
      BY <3>1, <3>2
  <2> QED
    BY <2>3, <2>4 DEF KnownInv
<1>3. ASSUME NEW t \in Terminal, Step(t)
      PROVE  KnownInv'
  <2>1. Walks(t)
    BY <1>3, StepWalks
  <2>2. CASE Updating(t)
    <3>1. UpdateStep(t) /\ Syncs(t)
      BY <1>0, <2>2, UpdateSyncs DEF Updating
    <3>2. world'.main = world.main
      BY <1>0, <3>1 DEF Syncs, WorldSound
    <3>3. Known(t)' /\ FileKnown'
      BY <1>0, <3>1, UpdateKnows
    <3>4. \A u \in Terminal \ {t} : Known(u)'
      BY <1>0, <2>1, <3>1, <3>2, KnownSpared
    <3> QED
      BY <3>3, <3>4 DEF KnownInv
  <2>3. CASE Installing(t) \/ Serving(t) \/ Configuring(t) \/ Reporting(t) \/ Launching(t)
    <3>1. UNCHANGED updates /\ world' = world
      <4>1. CASE Installing(t)
        BY <1>0, <4>1, PlainPaths, CodexPaths, ClaudePaths DEF Installing, InstallStep
      <4>2. CASE Serving(t)
        BY <4>2 DEF Serving, ServiceStep, start_services, stop_services, Composes, check,
           check_probe, check_graph, check_providers, clients
      <4>3. CASE Configuring(t) \/ Reporting(t) \/ Launching(t)
        BY <4>3 DEF Configuring, Reporting, Launching, clients
      <4> QED
        BY <2>3, <4>1, <4>2, <4>3
    <3>2. at[t] \in InstallPc \cup ServicePc \cup ConfigPc \cup ReportPc \cup LauncherPc
                     \cup {"prompt"}
      BY <2>3, InstallFrom, ServiceFrom, ConfigFrom, ReportFrom, LauncherFrom
         DEF Installing, Serving, Configuring, Reporting, Launching
    <3>3. at'[t] \in InstallPc \cup ServicePc \cup ConfigPc \cup ReportPc \cup LauncherPc
                      \cup Out \cup {"compose_fetch", "upgrade", "latest"}
      <4>1. CASE launched_update(t)
        BY <1>0, <4>1 DEF launched_update, Updates, Runs, Go, Shelled
      <4> QED
        BY <1>0, <2>3, <4>1, PlainPaths, CodexPaths, ClaudePaths, ServicePaths,
           ConfigPaths, ReportPaths, LauncherPaths
           DEF Installing, InstallStep, Serving, Configuring, Reporting, Launching, ServicePc,
               LauncherPc, ReportPc
    <3>4. at[t] \notin UpdatePc
      BY <3>2, PcSets
    <3>5. at'[t] \notin {"compose_lock"} \cup Locking
      BY <3>3 DEF InstallPc, ServicePc, ConfigPc, ReportPc, LauncherPc, Out, Locking
    <3> QED
      BY <1>0, <2>1, <3>1, <3>4, <3>5, KnownLeft
  <2> QED
    BY <1>3, <2>2, <2>3 DEF Step
<1> QED
  BY <1>1, <1>2, <1>3 DEF Next, Idle

LEMMA KnownStart ==
  ASSUME ComposeKnown, Init
  PROVE  KnownInv
<1>1. /\ case \in Cases /\ at = [t \in Terminal |-> "prompt"]
      /\ world = case.world /\ compose = case.compose
  BY DEF Init, ShellInit, InstallInit, UpdateInit
<1>2. FileKnown
  BY <1>1 DEF ComposeKnown, FileKnown, Unmerged
<1> QED
  BY <1>1, <1>2 DEF KnownInv, Known, Locking

LEMMA KnownShown == KnownInv => PreservedMeansEdited
BY DEF KnownInv, Known, PreservedMeansEdited

-----------------------------------------------------------------------------
(* Whether a command that ended well did all it was asked to do.           *)

Plain == {"cursor", "kimi"}
CodexPc ==
  {"codex_read", "codex_snapshot", "codex_market", "codex_verify", "codex_mcp",
   "codex_backup", "codex_write", "codex_add", "codex_post", "codex_migrate",
   "codex_unmove", "codex_restore"}
PluginPc == {"claude_read", "claude_market", "claude_update", "claude_plugin"}
EntryPc == {"mcp_get", "mcp_remove", "mcp_add"}
AllowPc == {"allow_plan", "allow_backup", "allow_write"}
FilePc == {"plain_plan", "plain_backup", "plain_write", "skills", "extract", "stamp"}

\* Only clients with a file of their own are installed.
OnlyPlain(c) ==
  /\ c.clients \subseteq Plain /\ "torn" \notin c.trouble
  /\ \A t \in Terminal : \A i \in DOMAIN c.todo[t] :
       c.todo[t][i].run \in Installers => c.todo[t][i].all \/ c.todo[t][i].client \in Plain

Bystander(c, t) ==
  \A i \in DOMAIN c.todo[t] : c.todo[t][i].run \notin Installers \cup Updaters

OneInstalls(c) == \E t \in Terminal : \A u \in Terminal \ {t} : Bystander(c, u)

\* Two installers at once work on such clients only: the restoration of the
\* configuration of Codex, and the two programs, know nothing of each other.
Unshared == \A c \in Cases : OnlyPlain(c) \/ OneInstalls(c)

\* Whom a command that runs is to install, and whether without skills.
Aim(t) == IF caller[t] = "update_after" THEN case.clients ELSE Wanted(Job(t))
NoSkills(t) == caller[t] = "shell" /\ Bare(Job(t))

\* What the loop over the clients has done.
Bound(t) ==
  at[t] \in InstallPc =>
    /\ inst[t].targets \in Seq(AIClient) /\ Aim(t) \subseteq AIClient
    /\ OnlyPlain(case) => Aim(t) \subseteq Plain /\ ToSet(inst[t].targets) \subseteq Plain
    /\ at[t] \notin {"client", "give_up"} => inst[t].targets # << >>
    /\ inst[t].no_skills <=> NoSkills(t)
    /\ inst[t].skills_only => Aim(t) = {}
    /\ OnlyPlain(case) \/ inst[t].pkg = world.tool
    /\ \A c \in Aim(t) :
         c \in ToSet(inst[t].targets) \/ inst[t].errors \/ Installed(c, NoSkills(t))

ClaudeDone(t) ==
  IF NoSkills(t) THEN Shown = "ours" ELSE claude.plugin # None /\ claude.enabled

\* What it has done for the client that has its turn.
Local(t) ==
  /\ at[t] \in FilePc => Client(t) # "claude-code" /\ (Client(t) = "codex" => NoSkills(t))
  /\ at[t] \in CodexPc => Client(t) = "codex" /\ ~NoSkills(t)
  /\ at[t] \in PluginPc \cup EntryPc \cup AllowPc => Client(t) = "claude-code"
  /\ at[t] \in PluginPc => ~NoSkills(t)
  /\ at[t] \in EntryPc => NoSkills(t)
  /\ at[t] \in {"plain_backup", "plain_write"} => "ours" \in ToSet(inst[t].plan)
  /\ at[t] \in {"skills", "extract", "stamp"} /\ Client(t) \in Aim(t) =>
       "ours" \in ToSet(config[Client(t)])
  /\ at[t] \in AllowPc => ClaudeDone(t)
  /\ at[t] \in {"allow_backup", "allow_write"} => "rule" \in ToSet(inst[t].plan)
  /\ at[t] \in {"codex_mcp", "codex_backup", "codex_write", "codex_add", "codex_post"} =>
       inst[t].expected = inst[t].pkg
  /\ at[t] \in {"codex_migrate", "codex_unmove"} /\ "codex" \in Aim(t) =>
       Installed("codex", FALSE)

\* What a command has come to.
Outcome(t) ==
  /\ at[t] = "update_after" =>
       told[t] = "error" \/ \A c \in case.clients : Installed(c, FALSE)
  /\ at[t] = "update_done" =>
       upd[t].failed \/ \A c \in case.clients : Installed(c, FALSE)
  /\ at[t] = "prompt" /\ told[t] = "ok" =>
       \A c \in Wanted(LastJob(t)) : Installed(c, Bare(LastJob(t)))

\* A command that has ended was typed.
Ended(t) ==
  at[t] = "prompt" /\ told[t] # "nothing" => Len(todo[t]) + 1 \in 1..Len(case.todo[t])

\* What is in a file is a sequence of lines.
Lined(s) == s \in Seq(ToSet(s))
AllLined ==
  /\ DOMAIN config = File /\ \A f \in File : Lined(config[f])
  /\ \A t \in Terminal : Lined(inst[t].plan) /\ Lined(inst[t].snapshot)

\* Claude Code tells of an entry of its user, and of one of the project.
EntryKnown ==
  /\ {"user", "project"} \subseteq DOMAIN claude
  /\ DOMAIN codex = {"root", "cache", "legacy"}

CleanInv ==
  /\ Registered /\ AllLined /\ EntryKnown
  /\ OnlyPlain(case) \/ OneInstalls(case)
  /\ \A t \in Terminal : Bound(t) /\ Local(t) /\ Outcome(t) /\ Ended(t)
-----------------------------------------------------------------------------
(* The lines of a file.                                                    *)

LEMMA LinedIs ==
  ASSUME NEW n \in Nat, NEW s, DOMAIN s = 1..n, s = [i \in 1..n |-> s[i]]
  PROVE  Lined(s)
BY DEF Lined, ToSet

LEMMA SeqLined ==
  ASSUME NEW S, NEW s \in Seq(S)
  PROVE  Lined(s)
<1>1. Len(s) \in Nat /\ DOMAIN s = 1..Len(s) /\ s = [i \in 1..Len(s) |-> s[i]]
  OBVIOUS
<1> QED
  BY <1>1, LinedIs

LEMMA OneLined == \A x : Lined(<<x>>) /\ ToSet(<<x>>) = {x}
<1> SUFFICES ASSUME NEW x PROVE Lined(<<x>>) /\ ToSet(<<x>>) = {x}
  OBVIOUS
<1>1. <<x>> \in Seq({x}) /\ DOMAIN <<x>> = {1} /\ <<x>>[1] = x
  OBVIOUS
<1>2. ToSet(<<x>>) = {x}
  BY <1>1 DEF ToSet
<1> QED
  BY <1>1, <1>2, SeqLined

LEMMA NothingLined == Lined(Nothing) /\ Lined(<< >>)
<1>1. << >> \in Seq({})
  OBVIOUS
<1> QED
  BY <1>1, SeqLined, OneLined DEF Nothing

LEMMA TextLined ==
  ASSUME NEW s, Lined(s)
  PROVE  Lined(Text(s)) /\ (s # Nothing => ToSet(s) = ToSet(Text(s)))
BY NothingLined DEF Text

LEMMA AppendLined ==
  ASSUME NEW s, Lined(s), NEW line
  PROVE  /\ Lined(Append(s, line)) /\ line \in ToSet(Append(s, line))
         /\ ToSet(s) \subseteq ToSet(Append(s, line))
<1>1. Append(s, line) \in Seq(ToSet(s) \cup {line})
  BY DEF Lined
<1>2. /\ DOMAIN Append(s, line) = 1..Len(s) + 1 /\ Append(s, line)[Len(s) + 1] = line
      /\ \A i \in DOMAIN s : i \in 1..Len(s) /\ Append(s, line)[i] = s[i]
      /\ Len(s) \in Nat
  BY DEF Lined
<1>3. line \in ToSet(Append(s, line))
  <2>1. Len(s) + 1 \in DOMAIN Append(s, line)
    BY <1>2
  <2> QED
    BY <1>2, <2>1 DEF ToSet
<1>4. ASSUME NEW x \in ToSet(s) PROVE x \in ToSet(Append(s, line))
  <2>1. PICK i \in DOMAIN s : s[i] = x
    BY DEF ToSet
  <2>2. i \in DOMAIN Append(s, line) /\ Append(s, line)[i] = x
    BY <1>2, <2>1
  <2> QED
    BY <2>2 DEF ToSet
<1> QED
  BY <1>1, <1>3, <1>4, SeqLined

LEMMA ConcatLined ==
  ASSUME NEW s, NEW r, Lined(s), Lined(r)
  PROVE  /\ Lined(s \o r)
         /\ ToSet(s) \cup ToSet(r) \subseteq ToSet(s \o r)
<1>1. s \o r \in Seq(ToSet(s) \cup ToSet(r))
  BY DEF Lined
<1>2. /\ DOMAIN (s \o r) = 1..Len(s) + Len(r) /\ Len(s) \in Nat /\ Len(r) \in Nat
      /\ DOMAIN s = 1..Len(s) /\ DOMAIN r = 1..Len(r)
      /\ \A i \in 1..Len(s) : (s \o r)[i] = s[i]
      /\ \A i \in 1..Len(r) : (s \o r)[Len(s) + i] = r[i]
  BY DEF Lined
<1>3. ASSUME NEW x \in ToSet(s) PROVE x \in ToSet(s \o r)
  <2>1. PICK i \in DOMAIN s : s[i] = x
    BY DEF ToSet
  <2>2. i \in DOMAIN (s \o r) /\ (s \o r)[i] = x
    BY <1>2, <2>1
  <2> QED
    BY <2>2 DEF ToSet
<1>4. ASSUME NEW x \in ToSet(r) PROVE x \in ToSet(s \o r)
  <2>1. PICK i \in DOMAIN r : r[i] = x
    BY DEF ToSet
  <2>2. Len(s) + i \in DOMAIN (s \o r) /\ (s \o r)[Len(s) + i] = x
    BY <1>2, <2>1
  <2> QED
    BY <2>2 DEF ToSet
<1> QED
  BY <1>1, <1>3, <1>4, SeqLined

LEMMA LengthLined ==
  ASSUME NEW s, Lined(s)
  PROVE  Len(s) \in Nat /\ DOMAIN s = 1..Len(s)
BY DEF Lined

\* What is put in, or stands there already, is in the file.
LEMMA JsonAdds ==
  ASSUME NEW raw, Lined(raw), NEW line, NEW old, JsonWith(raw, line, old).ok
  PROVE  /\ Lined(JsonWith(raw, line, old).content)
         /\ line \in ToSet(JsonWith(raw, line, old).content)
<1> DEFINE set == [i \in 1..Len(raw) |-> IF raw[i] \in old THEN line ELSE raw[i]]
<1>1. CASE \E i \in 1..Len(raw) : raw[i] \in old
  <2>1. JsonWith(raw, line, old).content = set
    BY <1>1 DEF JsonWith
  <2>2. Lined(set)
    BY LengthLined, LinedIs
  <2>3. PICK i \in 1..Len(raw) : set[i] = line
    BY <1>1
  <2>4. line \in ToSet(set)
    BY <2>3 DEF ToSet
  <2> QED
    BY <2>1, <2>2, <2>4
<1>2. CASE ~\E i \in 1..Len(raw) : raw[i] \in old
  <2>1. JsonWith(raw, line, old).content = Append(raw, line)
    BY <1>2 DEF JsonWith
  <2> QED
    BY <2>1, AppendLined
<1> QED
  BY <1>1, <1>2

LEMMA LeastOf ==
  ASSUME NEW S, S \subseteq Nat, S # {}
  PROVE  \E m \in S : \A n \in S : m <= n
<1>1. PICK m \in S : \A n \in S : ~(<<n, m>> \in OpToRel(<, Nat))
  BY NatLessThanWellFounded, WFMin
<1>2. \A n \in S : ~(n < m)
  BY <1>1 DEF OpToRel
<1> QED
  BY <1>2

-----------------------------------------------------------------------------
(* Some lines of a file.                                                   *)

\* The place of i in S.
Place(S, i) == Cardinality({j \in S : j <= i})

\* The places are the numbers up to the size of S, in the order of S.
LEMMA Places ==
  ASSUME NEW m \in Nat, NEW S, S \subseteq 1..m
  PROVE  /\ IsFiniteSet(S) /\ Cardinality(S) \in Nat
         /\ \A i \in S : Place(S, i) \in 1..Cardinality(S)
         /\ \A i, j \in S : i < j => Place(S, i) < Place(S, j)
         /\ \A n \in 1..Cardinality(S) : \E i \in S : Place(S, i) = n
<1> DEFINE N == Cardinality(S)
           Upto(i) == {j \in S : j <= i}
           place == [i \in S |-> Place(S, i)]
<1>0. IsFiniteSet(1..m) /\ S \subseteq Nat
  BY FS_Interval
<1>1. IsFiniteSet(S) /\ N \in Nat
  BY <1>0, FS_Subset, FS_CardinalityType
<1>2. \A i \in S : IsFiniteSet(Upto(i)) /\ Place(S, i) \in Nat
  BY <1>1, FS_Subset, FS_CardinalityType DEF Place
<1>3. ASSUME NEW i \in S PROVE Place(S, i) \in 1..N
  <2>1. Upto(i) \in SUBSET S /\ Upto(i) # {}
    OBVIOUS
  <2>2. Place(S, i) <= N /\ Place(S, i) # 0
    <3>1. Place(S, i) <= N
      BY <1>1, <2>1, FS_Subset DEF Place
    <3>2. Place(S, i) # 0
      BY <1>2, <2>1, FS_EmptySet DEF Place
    <3> QED
      BY <3>1, <3>2
  <2>3. Place(S, i) \in Nat
    BY <1>2
  <2> HIDE DEF N
  <2> QED
    BY <1>1, <2>2, <2>3
<1>4. ASSUME NEW i \in S, NEW j \in S, i < j PROVE Place(S, i) < Place(S, j)
  <2>0. /\ i \in Nat /\ j \in Nat /\ S \subseteq Nat
        /\ Place(S, i) \in Nat /\ Place(S, j) \in Nat
    BY <1>0, <1>2
  <2>1. Upto(i) \in SUBSET Upto(j) /\ j \in Upto(j) /\ j \notin Upto(i)
    <3>1. ASSUME NEW k \in Upto(i) PROVE k \in Upto(j)
      <4>1. k \in Nat /\ k <= i
        BY <2>0
      <4> QED
        BY <1>4, <2>0, <4>1
    <3>2. j \in Upto(j)
      BY <2>0
    <3>3. j \notin Upto(i)
      BY <1>4, <2>0
    <3> QED
      BY <3>1, <3>2, <3>3
  <2>2. Place(S, i) <= Place(S, j) /\ Place(S, i) # Place(S, j)
    BY <1>2, <2>1, FS_Subset DEF Place
  <2> QED
    BY <2>0, <2>2
<1>5. place \in Injection(S, 1..N)
  <2>1. place \in [S -> 1..N]
    BY <1>3
  <2>2. \A i, j \in S : place[i] = place[j] => i = j
    <3> SUFFICES ASSUME NEW i \in S, NEW j \in S, i # j PROVE place[i] # place[j]
      OBVIOUS
    <3>1. i < j \/ j < i
      BY <1>0
    <3>2. place[i] \in Nat /\ place[j] \in Nat
      BY <1>2
    <3>3. place[i] < place[j] \/ place[j] < place[i]
      BY <1>4, <3>1
    <3> QED
      BY <3>2, <3>3
  <2> HIDE DEF place
  <2> QED
    BY <2>1, <2>2 DEF Injection, IsInjective
<1>6. place \in Surjection(S, 1..N)
  <2>1. IsFiniteSet(1..N) /\ Cardinality(1..N) = N
    <3> HIDE DEF N
    <3> QED
      BY <1>1, FS_Interval
  <2> HIDE DEF place
  <2> QED
    BY <1>5, <2>1, FS_Injection
<1>7. \A n \in 1..N : \E i \in S : place[i] = n
  <2> HIDE DEF place
  <2> QED
    BY <1>6 DEF Surjection
<1> QED
  BY <1>1, <1>3, <1>4, <1>7

\* What stands at a place.
LEMMA ThoseAt ==
  ASSUME NEW m \in Nat, NEW S, S \subseteq 1..m
  PROVE  \A lines : \A i \in S : Those(lines, S)[Place(S, i)] = lines[i]
<1> SUFFICES ASSUME NEW lines, NEW i \in S
             PROVE  Those(lines, S)[Place(S, i)] = lines[i]
  OBVIOUS
<1>1. Cardinality(S) \in Nat /\ Place(S, i) \in 1..Cardinality(S)
  BY Places
<1>2. Those(lines, S)[Place(S, i)] = lines[CHOOSE j \in S : Place(S, j) = Place(S, i)]
  BY <1>1 DEF Those, Place
<1>3. \A j \in S : Place(S, j) = Place(S, i) => j = i
  <2> SUFFICES ASSUME NEW j \in S, j # i PROVE Place(S, j) # Place(S, i)
    OBVIOUS
  <2>1. j < i \/ i < j
    OBVIOUS
  <2>2. Place(S, j) \in 1..Cardinality(S)
    BY Places
  <2>3. Place(S, j) < Place(S, i) \/ Place(S, i) < Place(S, j)
    BY <2>1, Places
  <2> QED
    BY <1>1, <2>2, <2>3
<1> QED
  BY <1>2, <1>3

LEMMA ThoseAre ==
  ASSUME NEW m \in Nat, NEW S, S \subseteq 1..m, NEW lines
  PROVE  /\ Lined(Those(lines, S)) /\ Len(Those(lines, S)) = Cardinality(S)
         /\ DOMAIN Those(lines, S) = 1..Cardinality(S)
         /\ \A i \in S : Those(lines, S)[Place(S, i)] = lines[i]
<1> DEFINE s == Those(lines, S)
<1>1. Cardinality(S) \in Nat
  BY Places
<1>2. DOMAIN s = 1..Cardinality(S) /\ s = [n \in 1..Cardinality(S) |-> s[n]]
  BY DEF Those
<1>3. Lined(s)
  <2> HIDE DEF s
  <2> QED
    BY <1>1, <1>2, LinedIs
<1>4. Len(s) = Cardinality(S)
  <2> HIDE DEF s
  <2> QED
    BY <1>1, <1>2, <1>3, LengthLined
<1>5. \A i \in S : s[Place(S, i)] = lines[i]
  BY ThoseAt
<1> QED
  BY <1>2, <1>3, <1>4, <1>5

\* h takes the lines in S to those in T, in their order.
Copies(h, lines, S, others, T) ==
  /\ h \in [S -> T] /\ \A k \in T : \E i \in S : h[i] = k
  /\ \A i, j \in S : i < j => h[i] < h[j]
  /\ \A i \in S : lines[i] = others[h[i]]

\* Places in a file.
Numbered(S) == \E m \in Nat : S \subseteq 1..m

\* Lines that stand in the same order in two files are the same.
LEMMA SameThose ==
  ASSUME NEW S, Numbered(S), NEW T, Numbered(T), NEW lines, NEW others,
         NEW h, Copies(h, lines, S, others, T)
  PROVE  Those(lines, S) = Those(others, T)
<1>m. PICK m \in Nat : S \subseteq 1..m
  BY DEF Numbered
<1>n. PICK n \in Nat : T \subseteq 1..n
  BY DEF Numbered
<1>1. IsFiniteSet(S) /\ IsFiniteSet(T) /\ Cardinality(S) \in Nat
  BY <1>m, <1>n, Places
<1>0. /\ h \in [S -> T] /\ \A k \in T : \E i \in S : h[i] = k
      /\ \A i, j \in S : i < j => h[i] < h[j]
      /\ \A i \in S : lines[i] = others[h[i]]
      /\ S \subseteq Int
  BY <1>m DEF Copies
<1>2. \A i, j \in S : h[i] = h[j] => i = j
  <2> SUFFICES ASSUME NEW i \in S, NEW j \in S, i # j PROVE h[i] # h[j]
    OBVIOUS
  <2>1. i < j \/ j < i
    BY <1>0
  <2>2. h[i] < h[j] \/ h[j] < h[i]
    BY <1>0, <2>1
  <2>3. h[i] \in 1..n /\ h[j] \in 1..n
    BY <1>0, <1>n
  <2> QED
    BY <2>2, <2>3
<1>3. Cardinality(S) = Cardinality(T)
  <2>1. h \in Bijection(S, T)
    BY <1>0, <1>2 DEF Bijection, Injection, Surjection, IsInjective
  <2> QED
    BY <1>1, <2>1, FS_Bijection DEF ExistsBijection
<1>4. ASSUME NEW i \in S PROVE Place(S, i) = Place(T, h[i])
  <2> DEFINE A == {j \in S : j <= i}
             B == {k \in T : k <= h[i]}
             g == [j \in A |-> h[j]]
  <2>1. ASSUME NEW j \in S PROVE j <= i <=> h[j] <= h[i]
    <3>2. h[i] \in 1..n /\ h[j] \in 1..n /\ i \in 1..m /\ j \in 1..m
      BY <1>0, <1>m, <1>n
    <3>1. j < i \/ j = i \/ i < j
      BY <3>2
    <3>3. (j < i => h[j] < h[i]) /\ (i < j => h[i] < h[j])
      BY <1>0
    <3> QED
      BY <3>1, <3>2, <3>3
  <2>2. g \in [A -> B]
    BY <1>0, <2>1
  <2>3. \A k \in B : \E j \in A : g[j] = k
    BY <1>0, <2>1
  <2>4. \A j, k \in A : g[j] = g[k] => j = k
    BY <1>2
  <2>5. g \in Bijection(A, B)
    <3> HIDE DEF A, B, g
    <3> QED
      BY <2>2, <2>3, <2>4 DEF Bijection, Injection, Surjection, IsInjective
  <2>6. IsFiniteSet(A)
    BY <1>1, FS_Subset
  <2>7. Cardinality(A) = Cardinality(B)
    <3> HIDE DEF A, B, g
    <3> QED
      BY <2>5, <2>6, FS_Bijection DEF ExistsBijection
  <2> QED
    BY <2>7 DEF Place
<1>7. \A i \in S : Those(lines, S)[Place(S, i)] = lines[i]
  BY ZenonT(40), <1>m, ThoseAt
<1>8. \A k \in T : Those(others, T)[Place(T, k)] = others[k]
  BY ZenonT(40), <1>n, ThoseAt
<1>5. ASSUME NEW k \in 1..Cardinality(S)
      PROVE  Those(lines, S)[k] = Those(others, T)[k]
  <2>1. PICK i \in S : Place(S, i) = k
    BY <1>m, Places
  <2>2. h[i] \in T /\ Place(T, h[i]) = k
    BY <1>0, <1>4, <2>1
  <2>3. Those(lines, S)[Place(S, i)] = lines[i]
    BY <1>7
  <2>4. Those(others, T)[Place(T, h[i])] = others[h[i]]
    BY <1>8, <2>2
  <2> QED
    BY <1>0, <2>1, <2>2, <2>3, <2>4
<1>6. /\ Those(lines, S) = [k \in 1..Cardinality(S) |-> Those(lines, S)[k]]
      /\ Those(others, T) = [k \in 1..Cardinality(S) |-> Those(others, T)[k]]
  BY <1>3 DEF Those
<1> QED
  BY <1>5, <1>6

-----------------------------------------------------------------------------
(* Strings of several lines, and the headers outside of them.              *)

\* What is open after the lines before i, from what was open before.
LEMMA DeepStep ==
  ASSUME NEW lines, NEW i \in Nat \ {0, 1}
  PROVE  Deep(lines, i) <=> /\ Deep(lines, i - 1) \/ lines[i - 1] = "opens"
                            /\ lines[i - 1] # "closes"
<1>1. ASSUME Deep(lines, i)
      PROVE  (Deep(lines, i - 1) \/ lines[i - 1] = "opens") /\ lines[i - 1] # "closes"
  <2>1. PICK j \in 1..i - 1 :
          lines[j] = "opens" /\ \A k \in j + 1..i - 1 : lines[k] # "closes"
    BY <1>1 DEF Deep
  <2>2. CASE j = i - 1
    BY <2>1, <2>2
  <2>3. CASE j # i - 1
    <3>1. j \in 1..(i - 1) - 1 /\ i - 1 \in j + 1..i - 1
      BY <2>3
    <3>2. \A k \in j + 1..(i - 1) - 1 : lines[k] # "closes"
      BY <2>1
    <3> QED
      BY <2>1, <3>1, <3>2 DEF Deep
  <2> QED
    BY <2>2, <2>3
<1>2. ASSUME Deep(lines, i - 1), lines[i - 1] # "closes"
      PROVE  Deep(lines, i)
  <2>1. PICK j \in 1..(i - 1) - 1 :
          lines[j] = "opens" /\ \A k \in j + 1..(i - 1) - 1 : lines[k] # "closes"
    BY <1>2 DEF Deep
  <2>2. \A k \in j + 1..i - 1 : k \in j + 1..(i - 1) - 1 \/ k = i - 1
    OBVIOUS
  <2>3. j \in 1..i - 1 /\ \A k \in j + 1..i - 1 : lines[k] # "closes"
    BY <1>2, <2>1, <2>2
  <2> QED
    BY <2>1, <2>3 DEF Deep
<1>3. ASSUME lines[i - 1] = "opens" PROVE Deep(lines, i)
  <2>1. i - 1 \in 1..i - 1 /\ \A k \in (i - 1) + 1..i - 1 : lines[k] # "closes"
    OBVIOUS
  <2> QED
    BY <1>3, <2>1 DEF Deep
<1> QED
  BY <1>1, <1>2, <1>3

\* The lexer finds the headers.
LEMMA HeadersAre ==
  ASSUME NEW lines, Lined(lines)
  PROVE  _toml_table_headers(lines) = {i \in 1..Len(lines) : Header(lines, i)}
<1> DEFINE n == Len(lines)
           After(f) == [i \in 1..n + 1 |->
                          IF i = 1 THEN FALSE ELSE _toml_lex_state(lines[i - 1], f[i - 1])]
           open == CHOOSE f : f = After(f)
           deep == [i \in 1..n + 1 |-> Deep(lines, i)]
<1>0. n \in Nat
  BY LengthLined
<1>1. deep = After(deep)
  <2>1. ASSUME NEW i \in 1..n + 1
        PROVE  deep[i] = IF i = 1 THEN FALSE ELSE _toml_lex_state(lines[i - 1], deep[i - 1])
    <3>1. CASE i = 1
      <4>1. ~Deep(lines, 1)
        BY DEF Deep
      <4>2. Deep(lines, 1) = FALSE
        BY <4>1 DEF Deep
      <4> QED
        BY <3>1, <4>2
    <3>2. CASE i # 1
      <4>1. i \in Nat \ {0, 1} /\ i - 1 \in 1..n + 1
        BY <1>0, <3>2
      <4>2. deep[i - 1] = Deep(lines, i - 1) /\ deep[i] = Deep(lines, i)
        BY <4>1
      <4>3. Deep(lines, i) <=> _toml_lex_state(lines[i - 1], Deep(lines, i - 1))
        BY <4>1, DeepStep DEF _toml_lex_state
      <4>4. Deep(lines, i) = _toml_lex_state(lines[i - 1], Deep(lines, i - 1))
        BY <4>3 DEF Deep, _toml_lex_state
      <4> QED
        BY <3>2, <4>2, <4>4
    <3> QED
      BY <3>1, <3>2
  <2> QED
    BY <2>1
<1>2. open = After(open)
  <2> HIDE DEF After, deep
  <2> QED
    BY <1>1
<1>3. ASSUME NEW i \in 1..n + 1 PROVE open[i] = deep[i]
  <2> DEFINE bad == {k \in 1..n + 1 : open[k] # deep[k]}
  <2> HIDE DEF open, deep
  <2>1. SUFFICES ASSUME bad # {} PROVE FALSE
    OBVIOUS
  <2>2. bad \subseteq Nat
    OBVIOUS
  <2> HIDE DEF bad
  <2>3. PICK k \in bad : \A l \in bad : k <= l
    BY <2>1, <2>2, LeastOf
  <2>4. k \in 1..n + 1 /\ open[k] # deep[k]
    BY DEF bad
  <2>5. /\ open[k] = IF k = 1 THEN FALSE ELSE _toml_lex_state(lines[k - 1], open[k - 1])
        /\ deep[k] = IF k = 1 THEN FALSE ELSE _toml_lex_state(lines[k - 1], deep[k - 1])
    BY <1>1, <1>2, <2>4
  <2>6. k # 1
    BY <2>4, <2>5
  <2>7. k - 1 \in 1..n + 1 /\ k - 1 \notin bad
    BY <1>0, <2>3, <2>4, <2>6
  <2>8. open[k - 1] = deep[k - 1]
    BY <2>7 DEF bad
  <2> QED
    BY <2>4, <2>5, <2>6, <2>8
<1>4. _toml_table_headers(lines) = {i \in 1..n : lines[i] \in LooksLikeHeader /\ ~open[i]}
  BY DEF _toml_table_headers
<1>5. \A i \in 1..n : i \in 1..n + 1
  BY <1>0
<1>6. ASSUME NEW i \in 1..n PROVE open[i] = Deep(lines, i)
  <2>1. open[i] = deep[i] /\ i \in 1..n + 1
    BY <1>3, <1>5
  <2> HIDE DEF open
  <2> QED
    BY <2>1
<1> QED
  <2> HIDE DEF open
  <2> QED
    BY <1>4, <1>6 DEF Header

-----------------------------------------------------------------------------
(* A file from which lines went, and into which one line came.             *)

\* The k-th place of S.
Nth(S, k) == CHOOSE i \in S : Place(S, i) = k

LEMMA NthIs ==
  ASSUME NEW m \in Nat, NEW S, S \subseteq 1..m
  PROVE  /\ \A k \in 1..Cardinality(S) : Nth(S, k) \in S /\ Place(S, Nth(S, k)) = k
         /\ \A i \in S : Nth(S, Place(S, i)) = i
         /\ \A k, l \in 1..Cardinality(S) : k < l => Nth(S, k) < Nth(S, l)
<1>1. ASSUME NEW k \in 1..Cardinality(S)
      PROVE  Nth(S, k) \in S /\ Place(S, Nth(S, k)) = k
  <2>1. \E i \in S : Place(S, i) = k
    BY Places
  <2> QED
    BY <2>1 DEF Nth
<1>2. ASSUME NEW i \in S, NEW j \in S, Place(S, i) = Place(S, j) PROVE i = j
  <2>1. i < j \/ j < i \/ i = j
    OBVIOUS
  <2>2. Place(S, i) \in 1..Cardinality(S) /\ Place(S, j) \in 1..Cardinality(S)
    BY Places
  <2>3. /\ i < j => Place(S, i) < Place(S, j)
        /\ j < i => Place(S, j) < Place(S, i)
    BY Places
  <2>4. Cardinality(S) \in Nat
    BY Places
  <2> QED
    BY <1>2, <2>1, <2>2, <2>3, <2>4
<1>3. ASSUME NEW i \in S PROVE Nth(S, Place(S, i)) = i
  <2>1. Place(S, i) \in 1..Cardinality(S)
    BY Places
  <2>2. PICK k : k = Place(S, i)
    OBVIOUS
  <2>3. Nth(S, k) \in S /\ Place(S, Nth(S, k)) = k
    BY <1>1, <2>1, <2>2
  <2> QED
    BY <1>2, <2>2, <2>3
<1>4. ASSUME NEW k \in 1..Cardinality(S), NEW l \in 1..Cardinality(S), k < l
      PROVE  Nth(S, k) < Nth(S, l)
  <2> DEFINE i == Nth(S, k)
             j == Nth(S, l)
  <2>1. i \in S /\ j \in S /\ Place(S, i) = k /\ Place(S, j) = l
    BY <1>1
  <2> HIDE DEF i, j
  <2>2. i < j \/ j < i \/ i = j
    BY <2>1
  <2>3. j < i => Place(S, j) < Place(S, i)
    BY <2>1, Places
  <2>4. Cardinality(S) \in Nat
    BY Places
  <2>5. i < j
    BY <1>4, <2>1, <2>2, <2>3, <2>4
  <2> QED
    BY <2>5 DEF i, j
<1> QED
  BY <1>1, <1>3, <1>4

\* The places of the content come from those in S, but for the place o of the
\* new line, which stands before what comes from first on.
IsCut(n, S, first, raw, content, src, o) ==
  LET m == Len(content)
      Kept == 1..m \ {o}
  IN /\ n \in Nat /\ m \in Nat /\ S \subseteq 1..n /\ first \in 1..n + 1
     /\ Lined(content) /\ o \in 1..m /\ content[o] = "ours" /\ src[o] = first
     /\ src[m + 1] = n + 1
     /\ \A k \in Kept : src[k] \in S /\ content[k] = raw[src[k]]
     /\ \A k, l \in Kept : k < l => src[k] < src[l]
     /\ \A i \in S : \E k \in Kept : src[k] = i
     /\ \A k \in Kept : k < o <=> src[k] < first

LEMMA CutIs ==
  ASSUME NEW n \in Nat, NEW S, S \subseteq 1..n, NEW first \in 1..n + 1, NEW raw,
         NEW content,
         content = Those(raw, S \cap 1..first - 1) \o <<"ours">> \o Those(raw, S \cap first..n)
  PROVE  \E src, o : IsCut(n, S, first, raw, content, src, o)
<1> DEFINE A == S \cap 1..first - 1
           B == S \cap first..n
           a == Cardinality(A)
           b == Cardinality(B)
           m == a + 1 + b
           x == Those(raw, A)
           y == Those(raw, B)
           src == [k \in 1..m + 1 |->
                     IF k <= a THEN Nth(A, k)
                     ELSE IF k = a + 1 THEN first
                     ELSE IF k <= m THEN Nth(B, k - (a + 1)) ELSE n + 1]
<1>1. /\ A \subseteq 1..n /\ B \subseteq 1..n /\ a \in Nat /\ b \in Nat
  <2>1. A \subseteq 1..n /\ B \subseteq 1..n
    OBVIOUS
  <2> QED
    BY <2>1, Places
<1>2. /\ Lined(x) /\ Lined(y) /\ Len(x) = a /\ Len(y) = b
      /\ DOMAIN x = 1..a /\ DOMAIN y = 1..b
  <2> HIDE DEF A, B
  <2> QED
    BY <1>1, ThoseAre
<1>3. /\ \A k \in 1..a : Nth(A, k) \in A /\ Place(A, Nth(A, k)) = k
      /\ \A k \in 1..b : Nth(B, k) \in B /\ Place(B, Nth(B, k)) = k
      /\ \A i \in A : Nth(A, Place(A, i)) = i /\ Place(A, i) \in 1..a
      /\ \A i \in B : Nth(B, Place(B, i)) = i /\ Place(B, i) \in 1..b
      /\ \A k, l \in 1..a : k < l => Nth(A, k) < Nth(A, l)
      /\ \A k, l \in 1..b : k < l => Nth(B, k) < Nth(B, l)
  <2> HIDE DEF A, B
  <2> QED
    BY <1>1, NthIs, Places
<1>4. /\ \A k \in 1..a : x[k] = raw[Nth(A, k)]
      /\ \A k \in 1..b : y[k] = raw[Nth(B, k)]
  BY DEF Those, Nth, Place
<1>0. /\ A \subseteq S /\ B \subseteq S
      /\ \A i \in S : (i \in A <=> i < first) /\ (i \in B <=> ~(i < first))
  <2> SUFFICES ASSUME NEW i \in S
               PROVE  (i \in 1..first - 1 <=> i < first) /\ (i \in first..n <=> ~(i < first))
    OBVIOUS
  <2>1. i \in Nat /\ 1 <= i /\ i <= n /\ first \in Nat
    OBVIOUS
  <2> QED
    BY <2>1
<1> HIDE DEF x, y, A, B, a, b
<1>5. /\ Lined(content) /\ Len(content) = m
      /\ \A k \in 1..a : content[k] = x[k]
      /\ content[a + 1] = "ours"
      /\ \A k \in 1..b : content[a + 1 + k] = y[k]
  <2>1. Lined(<<"ours">>) /\ Lined(x \o <<"ours">>) /\ Lined(content)
    BY <1>2, ConcatLined, OneLined DEF x, y, A, B
  <2> DEFINE T == ToSet(x) \cup {"ours"} \cup ToSet(y)
  <2>2. x \in Seq(T) /\ y \in Seq(T) /\ <<"ours">> \in Seq(T)
    BY <1>2 DEF Lined
  <2>5. \A s \in Seq(T) : \A r \in Seq(T) :
          /\ s \o r \in Seq(T) /\ Len(s \o r) = Len(s) + Len(r)
          /\ \A k \in 1..Len(s) : (s \o r)[k] = s[k]
          /\ \A k \in 1..Len(r) : (s \o r)[Len(s) + k] = r[k]
    OBVIOUS
  <2>6. Len(<<"ours">>) = 1 /\ <<"ours">>[1] = "ours"
    OBVIOUS
  <2>3. content = (x \o <<"ours">>) \o y
    BY DEF x, y, A, B
  <2> HIDE DEF T
  <2>4. /\ Len(x \o <<"ours">>) = a + 1 /\ x \o <<"ours">> \in Seq(T)
        /\ \A k \in 1..a : (x \o <<"ours">>)[k] = x[k]
        /\ (x \o <<"ours">>)[a + 1] = "ours"
    <3>1. /\ x \o <<"ours">> \in Seq(T) /\ Len(x \o <<"ours">>) = a + 1
          /\ \A k \in 1..a : (x \o <<"ours">>)[k] = x[k]
          /\ \A k \in 1..1 : (x \o <<"ours">>)[a + k] = <<"ours">>[k]
      BY <1>2, <2>2, <2>5, <2>6
    <3>2. 1 \in 1..1
      OBVIOUS
    <3> QED
      BY <2>6, <3>1, <3>2
  <2>7. PICK s : s = x \o <<"ours">>
    OBVIOUS
  <2>8. /\ Len(content) = a + 1 + b
        /\ \A k \in 1..a + 1 : content[k] = s[k]
        /\ \A k \in 1..b : content[a + 1 + k] = y[k]
    <3>1. s \in Seq(T) /\ Len(s) = a + 1 /\ content = s \o y
      BY <2>3, <2>4, <2>7
    <3>2. /\ Len(content) = Len(s) + Len(y)
          /\ \A k \in 1..Len(s) : content[k] = s[k]
          /\ \A k \in 1..Len(y) : content[Len(s) + k] = y[k]
      BY ONLY <2>2, <2>5, <3>1
    <3> QED
      BY <1>2, <3>1, <3>2
  <2>9. \A k \in 1..a : k \in 1..a + 1
    BY <1>1
  <2>10. a + 1 \in 1..a + 1
    BY <1>1
  <2>11. content[a + 1] = "ours" /\ \A k \in 1..a : content[k] = x[k]
    BY <2>4, <2>7, <2>8, <2>9, <2>10
  <2> QED
    BY <2>1, <2>8, <2>11
<1>6. /\ \A k \in 1..a : src[k] = Nth(A, k)
      /\ src[a + 1] = first /\ src[m + 1] = n + 1
      /\ \A k \in 1..b : src[a + 1 + k] = Nth(B, k)
  <2> QED
    BY <1>1
<1> DEFINE Kept == 1..m \ {a + 1}
<1>7. \A k \in Kept : k \in 1..a \/ \E l \in 1..b : k = a + 1 + l
  <2> SUFFICES ASSUME NEW k \in Kept, k \notin 1..a PROVE \E l \in 1..b : k = a + 1 + l
    OBVIOUS
  <2>1. k - (a + 1) \in 1..b /\ k = a + 1 + (k - (a + 1))
    BY <1>1
  <2> QED
    BY <2>1
<1>8. ASSUME NEW k \in Kept
      PROVE  src[k] \in S /\ content[k] = raw[src[k]] /\ (k < a + 1 <=> src[k] < first)
  <2>1. CASE k \in 1..a
    <3>1. src[k] = Nth(A, k) /\ Nth(A, k) \in A /\ content[k] = raw[Nth(A, k)]
      BY <1>3, <1>4, <1>5, <1>6, <2>1
    <3>2. k < a + 1
      BY <1>1, <2>1
    <3>3. Nth(A, k) \in S /\ Nth(A, k) < first
      BY <1>0, <3>1
    <3> QED
      BY <3>1, <3>2, <3>3
  <2>2. ASSUME NEW l \in 1..b, k = a + 1 + l
        PROVE  src[k] \in S /\ content[k] = raw[src[k]] /\ (k < a + 1 <=> src[k] < first)
    <3>1. src[k] = Nth(B, l) /\ Nth(B, l) \in B /\ content[k] = raw[Nth(B, l)]
      BY <1>3, <1>4, <1>5, <1>6, <2>2
    <3>2. ~(k < a + 1)
      BY <1>1, <2>2
    <3>3. Nth(B, l) \in S /\ ~(Nth(B, l) < first)
      BY <1>0, <3>1
    <3> QED
      BY <3>1, <3>2, <3>3
  <2> QED
    BY <1>7, <2>1, <2>2
<1>9. ASSUME NEW k \in Kept, NEW l \in Kept, k < l PROVE src[k] < src[l]
  <2>1. CASE k \in 1..a /\ l \in 1..a
    BY <1>3, <1>6, <1>9, <2>1
  <2>2. CASE k \in 1..a /\ l \notin 1..a
    <3>1. k < a + 1 /\ ~(l < a + 1)
      BY <1>1, <2>2
    <3>2. src[k] < first /\ ~(src[l] < first) /\ src[k] \in S /\ src[l] \in S
      BY <1>8, <3>1
    <3>3. PICK i, j : i = src[k] /\ j = src[l]
      OBVIOUS
    <3>4. i \in 1..n /\ j \in 1..n /\ i < first /\ ~(j < first) /\ first \in Int
      <4> HIDE DEF src
      <4>1. i \in S /\ j \in S /\ i < first /\ ~(j < first)
        BY <3>2, <3>3
      <4>2. first \in Int
        OBVIOUS
      <4> QED
        BY ONLY S \subseteq 1..n, <4>1, <4>2
    <3>5. i < j
      BY ONLY <3>4, n \in Nat
    <3> QED
      BY <3>3, <3>5
  <2>3. CASE k \notin 1..a
    <3>1. PICK i \in 1..b : k = a + 1 + i
      BY <1>7, <2>3
    <3>2. l \notin 1..a
      BY <1>1, <1>9, <2>3
    <3>3. PICK j \in 1..b : l = a + 1 + j
      BY <1>7, <3>2
    <3>4. i < j
      BY <1>1, <1>9, <3>1, <3>3
    <3>5. Nth(B, i) < Nth(B, j)
      BY <1>3, <3>4
    <3> QED
      BY ZenonT(30), <1>6, <3>1, <3>3, <3>5
  <2> QED
    BY <2>1, <2>2, <2>3
<1>10. ASSUME NEW i \in S PROVE \E k \in Kept : src[k] = i
  <2>1. CASE i \in A
    <3>1. PICK k \in 1..a : Nth(A, k) = i
      BY <1>3, <2>1
    <3>2. k \in Kept
      BY <1>1, <3>1
    <3> QED
      BY <1>6, <3>1, <3>2
  <2>2. CASE i \in B
    <3>1. PICK l \in 1..b : Nth(B, l) = i
      BY <1>3, <2>2
    <3>2. a + 1 + l \in Kept
      BY <1>1, <3>1
    <3> QED
      BY <1>6, <3>1, <3>2
  <2>3. i \in A \/ i \in B
    BY <1>0
  <2> QED
    BY <2>1, <2>2, <2>3
<1>11. a + 1 \in 1..m /\ m \in Nat
  <2> QED
    BY <1>1
<1> HIDE DEF src, Kept, m
<1>12. IsCut(n, S, first, raw, content, src, a + 1)
  BY ZenonT(30), <1>5, <1>6, <1>8, <1>9, <1>10, <1>11 DEF IsCut, Kept
<1> QED
  BY <1>12

-----------------------------------------------------------------------------
(* The surgery on the TOML file.                                           *)

\* Line i stands under a header that the installer takes for its own.
Gone(raw, i) ==
  \E h \in 1..i : /\ Header(raw, h) /\ _is_reviewer_path(raw[h])
                  /\ \A k \in h + 1..i : ~Header(raw, k)
Left(raw) == {i \in 1..Len(raw) : ~Gone(raw, i)}

\* Where the new entry comes: for the first line that goes, or at the end.
First(raw, first) ==
  /\ first = Len(raw) + 1 \/ (first \in 1..Len(raw) /\ Gone(raw, first))
  /\ \A i \in 1..first - 1 : ~Gone(raw, i)

LEMMA HeaderGone ==
  ASSUME NEW raw, NEW i \in Nat \ {0}, Header(raw, i)
  PROVE  Gone(raw, i) <=> _is_reviewer_path(raw[i])
<1>1. \A h \in 1..i : h # i => i \in h + 1..i
  OBVIOUS
<1>2. i \in 1..i /\ \A k \in i + 1..i : FALSE
  OBVIOUS
<1>3. ASSUME Gone(raw, i) PROVE _is_reviewer_path(raw[i])
  BY <1>1, <1>3 DEF Gone
<1>4. ASSUME _is_reviewer_path(raw[i]) PROVE Gone(raw, i)
  BY <1>2, <1>4 DEF Gone
<1> QED
  BY <1>3, <1>4

LEMMA TomlCuts ==
  ASSUME NEW raw, Lined(raw), _replace_codex_reviewer_tables(raw).ok
  PROVE  /\ \E src, o, first :
              /\ IsCut(Len(raw), Left(raw), first, raw,
                       _replace_codex_reviewer_tables(raw).content, src, o)
              /\ First(raw, first)
         /\ \A h \in 1..Len(raw) :
              Header(raw, h) /\ _is_reviewer_path(raw[h]) => raw[h] # "entry_array"
<1> DEFINE
      n == Len(raw)
      headers == _toml_table_headers(raw)
      own == {h \in headers : _is_reviewer_path(raw[h])}
      gone == {i \in 1..n :
                 \E h \in own : h <= i /\ \A k \in h + 1..i : k \notin headers}
      output(part) == Those(raw, part \ gone)
      first == CHOOSE i \in own : \A j \in own : i <= j
      cut == output(1..first - 1) \o <<"ours">> \o output(first..n)
      content == IF own = {} THEN Append(raw, "ours") ELSE cut
<1>0. n \in Nat /\ DOMAIN raw = 1..n /\ raw \in Seq(ToSet(raw))
  BY LengthLined DEF Lined
<1>1. /\ _replace_codex_reviewer_tables(raw).content = content
      /\ \A h \in own : raw[h] # "entry_array"
  BY DEF _replace_codex_reviewer_tables
<1>2. headers = {i \in 1..n : Header(raw, i)}
  BY HeadersAre
<1> HIDE DEF headers
<1>3. \A i \in 1..n : i \in gone <=> Gone(raw, i)
  <2>1. ASSUME NEW i \in 1..n, NEW h \in own, h <= i, \A k \in h + 1..i : k \notin headers
        PROVE  Gone(raw, i)
    <3>1. h \in 1..i /\ Header(raw, h) /\ _is_reviewer_path(raw[h])
      BY <1>2, <2>1
    <3>2. \A k \in h + 1..i : ~Header(raw, k)
      <4>1. \A k \in h + 1..i : k \in 1..n
        BY <1>0, <3>1
      <4> QED
        BY <1>2, <2>1, <4>1
    <3> QED
      BY <3>1, <3>2 DEF Gone
  <2>2. ASSUME NEW i \in 1..n, Gone(raw, i)
        PROVE  \E h \in own : h <= i /\ \A k \in h + 1..i : k \notin headers
    <3>1. PICK h \in 1..i : /\ Header(raw, h) /\ _is_reviewer_path(raw[h])
                            /\ \A k \in h + 1..i : ~Header(raw, k)
      BY <2>2 DEF Gone
    <3>2. h \in own /\ h <= i
      <4>1. h \in 1..n
        BY <1>0
      <4> QED
        BY <1>2, <3>1, <4>1
    <3> QED
      BY <1>2, <3>1, <3>2
  <2> QED
    BY <2>1, <2>2
<1>4. \A h \in 1..n : Header(raw, h) /\ _is_reviewer_path(raw[h]) => raw[h] # "entry_array"
  BY <1>1, <1>2
<1>5. CASE own = {}
  <2>1. \A i \in 1..n : ~Gone(raw, i)
    BY <1>3, <1>5
  <2>2. Left(raw) = 1..n
    BY <2>1 DEF Left
  <2>3. content = Append(raw, "ours")
    BY <1>5
  <2> DEFINE src == [k \in 1..n + 2 |-> IF k = n + 2 THEN n + 1 ELSE k]
  <2> HIDE DEF content, own, gone, n
  <2>4. /\ Lined(content) /\ Len(content) = n + 1 /\ content[n + 1] = "ours"
        /\ \A k \in 1..n : content[k] = raw[k]
    <3>1. Lined(content)
      BY <2>3, AppendLined
    <3>2. Len(raw) = n
      BY DEF n
    <3> QED
      BY <1>0, <2>3, <3>1, <3>2
  <2>5. /\ \A k \in 1..n + 1 : src[k] = k
        /\ src[n + 2] = n + 1 /\ 1..n + 1 \ {n + 1} = 1..n
        /\ (n + 1) + 1 = n + 2
    BY <1>0
  <2>6. \A k \in 1..n : k \in 1..n + 1 /\ k < n + 1
    BY <1>0
  <2>7. n + 1 \in 1..n + 1 /\ n + 1 \in Nat
    BY <1>0
  <2> HIDE DEF src
  <2>8. IsCut(n, 1..n, n + 1, raw, content, src, n + 1)
    BY <1>0, <2>4, <2>5, <2>6, <2>7 DEF IsCut
  <2>9. First(raw, n + 1)
    BY <1>0, <2>1 DEF First, n
  <2> QED
    BY <1>1, <1>4, <2>2, <2>8, <2>9 DEF n
<1>6. CASE own # {}
  <2>1. own \subseteq Nat
    BY <1>2
  <2>2. \E i \in own : \A j \in own : i <= j
    BY <1>6, <2>1, LeastOf
  <2> HIDE DEF own
  <2>3. first \in own /\ \A j \in own : first <= j
    BY <2>2
  <2>4. content = cut
    BY <1>6
  <2> HIDE DEF first
  <2>5. first \in 1..n /\ Header(raw, first) /\ _is_reviewer_path(raw[first])
    BY <1>2, <2>3 DEF own
  <2>6. Gone(raw, first)
    BY <2>5, HeaderGone
  <2>7. ASSUME NEW i \in 1..first - 1 PROVE ~Gone(raw, i)
    <3>1. i \in 1..n
      BY <1>0, <2>5
    <3> SUFFICES ASSUME i \in gone PROVE FALSE
      BY <1>3, <3>1
    <3>2. PICK h \in own : h <= i
      OBVIOUS
    <3>3. first <= h /\ h \in Nat
      BY <2>1, <2>3
    <3> QED
      BY <2>5, <3>2, <3>3
  <2>8. /\ (1..first - 1) \ gone = Left(raw) \cap 1..first - 1
        /\ (first..n) \ gone = Left(raw) \cap first..n
    <3>1. \A i \in 1..first - 1 : i \in 1..n
      BY <1>0, <2>5
    <3>2. \A i \in first..n : i \in 1..n
      BY <1>0, <2>5
    <3> HIDE DEF gone
    <3> QED
      BY <1>3, <3>1, <3>2 DEF Left
  <2>9. content = Those(raw, Left(raw) \cap 1..first - 1) \o <<"ours">>
                    \o Those(raw, Left(raw) \cap first..n)
    BY <2>4, <2>8
  <2>10. first \in 1..n + 1 /\ Left(raw) \subseteq 1..n
    BY <1>0, <2>5 DEF Left
  <2> HIDE DEF content, gone, n
  <2>11. \E src, o : IsCut(n, Left(raw), first, raw, content, src, o)
    BY <1>0, <2>9, <2>10, CutIs
  <2>12. First(raw, first)
    BY <2>5, <2>6, <2>7 DEF First, n
  <2> QED
    BY <1>1, <1>4, <2>11, <2>12 DEF n
<1> QED
  BY <1>5, <1>6

-----------------------------------------------------------------------------
(* What is left of the lines of the user.                                  *)

\* Only at a header does it change whether lines go.
LEMMA Border ==
  ASSUME NEW raw, NEW i \in Nat, ~Header(raw, i + 1)
  PROVE  IF i = 0 THEN ~Gone(raw, i + 1) ELSE Gone(raw, i + 1) <=> Gone(raw, i)
<1>1. ASSUME Gone(raw, i + 1) PROVE i # 0 /\ Gone(raw, i)
  <2>1. PICK h \in 1..i + 1 : /\ Header(raw, h) /\ _is_reviewer_path(raw[h])
                              /\ \A k \in h + 1..i + 1 : ~Header(raw, k)
    BY <1>1 DEF Gone
  <2>2. h # i + 1
    BY <2>1
  <2>3. h \in 1..i /\ \A k \in h + 1..i : k \in h + 1..i + 1
    BY <2>2
  <2> QED
    BY <2>1, <2>3 DEF Gone
<1>2. ASSUME i # 0, Gone(raw, i) PROVE Gone(raw, i + 1)
  <2>1. PICK h \in 1..i : /\ Header(raw, h) /\ _is_reviewer_path(raw[h])
                          /\ \A k \in h + 1..i : ~Header(raw, k)
    BY <1>2 DEF Gone
  <2>2. h \in 1..i + 1 /\ \A k \in h + 1..i + 1 : k \in h + 1..i \/ k = i + 1
    OBVIOUS
  <2>3. \A k \in h + 1..i + 1 : ~Header(raw, k)
    BY <2>1, <2>2
  <2> QED
    BY <2>1, <2>2, <2>3 DEF Gone
<1> QED
  BY <1>1, <1>2

CutOf(raw, content, src, o, first) ==
  /\ IsCut(Len(raw), Left(raw), first, raw, content, src, o)
  /\ First(raw, first) /\ ~Deep(raw, Len(raw) + 1)

LEMMA CutIn ==
  ASSUME NEW raw, NEW content, NEW src, NEW o, NEW first,
         CutOf(raw, content, src, o, first)
  PROVE  /\ Len(raw) \in Nat /\ Len(content) \in Nat /\ Lined(content)
         /\ first \in 1..Len(raw) + 1
         /\ o \in 1..Len(content) /\ content[o] = "ours" /\ src[o] = first
         /\ src[Len(content) + 1] = Len(raw) + 1
         /\ \A k \in 1..Len(content) \ {o} :
              /\ src[k] \in 1..Len(raw) /\ ~Gone(raw, src[k])
              /\ content[k] = raw[src[k]] /\ (k < o <=> src[k] < first)
<1> DEFINE m == Len(content)
           n == Len(raw)
<1> HIDE DEF m, n
<1>1. IsCut(n, Left(raw), first, raw, content, src, o)
  BY DEF CutOf, n
<1>2. /\ n \in Nat /\ m \in Nat /\ Lined(content) /\ first \in 1..n + 1
      /\ o \in 1..m /\ content[o] = "ours" /\ src[o] = first /\ src[m + 1] = n + 1
      /\ \A k \in 1..m \ {o} : /\ src[k] \in Left(raw) /\ content[k] = raw[src[k]]
                               /\ (k < o <=> src[k] < first)
  BY <1>1 DEF IsCut, m
<1>3. \A i \in Left(raw) : i \in 1..n /\ ~Gone(raw, i)
  BY DEF Left, n
<1> QED
  BY <1>2, <1>3 DEF m, n

LEMMA CutRises ==
  ASSUME NEW raw, NEW content, NEW src, NEW o, NEW first,
         CutOf(raw, content, src, o, first)
  PROVE  /\ \A k, l \in 1..Len(content) \ {o} : k < l => src[k] < src[l]
         /\ \A i \in 1..Len(raw) : ~Gone(raw, i) =>
              \E k \in 1..Len(content) \ {o} : src[k] = i
BY DEF CutOf, IsCut, Left

\* What stands between the sources of two neighbours has gone.
LEMMA CutNext ==
  ASSUME NEW raw, NEW content, NEW src, NEW o, NEW first,
         CutOf(raw, content, src, o, first),
         NEW k \in 0..Len(content), NEW i \in 1..Len(raw), i < src[k + 1],
         k = o => first <= i, k # 0 /\ k # o => src[k] < i
  PROVE  Gone(raw, i)
<1> DEFINE m == Len(content)
           n == Len(raw)
<1> SUFFICES ASSUME ~Gone(raw, i) PROVE FALSE
  OBVIOUS
<1>1. PICK l \in 1..m \ {o} : src[l] = i
  BY CutRises
<1>2. /\ n \in Nat /\ m \in Nat /\ first \in 1..n + 1 /\ o \in 1..m /\ src[o] = first
      /\ src[m + 1] = n + 1
      /\ \A j \in 1..m \ {o} : src[j] \in 1..n /\ (j < o <=> src[j] < first)
  BY CutIn
<1>3. \A j, q \in 1..m \ {o} : j < q => src[j] < src[q]
  BY CutRises
<1>0. k \in 0..m
  OBVIOUS
<1> HIDE DEF m, n
<1>4. l <= k
  <2> SUFFICES ASSUME k < l PROVE FALSE
    BY <1>0, <1>1, <1>2
  <2>1. k + 1 <= l /\ k + 1 \in 1..m
    BY <1>0, <1>1, <1>2
  <2>2. CASE k + 1 = o
    <3>1. ~(l < o)
      BY <1>2, <2>1, <2>2
    <3>2. ~(i < first)
      BY <1>1, <1>2, <3>1
    <3> QED
      BY <1>2, <2>2, <3>2
  <2>3. CASE k + 1 # o /\ k + 1 = l
    BY <1>1, <1>2, <2>3
  <2>4. CASE k + 1 # o /\ k + 1 < l
    <3>1. src[k + 1] < src[l] /\ src[k + 1] \in 1..n
      BY <1>1, <1>2, <1>3, <2>1, <2>4
    <3> QED
      BY <1>1, <1>2, <3>1
  <2> QED
    BY <1>1, <1>2, <2>1, <2>2, <2>3, <2>4
<1>5. CASE k = o
  <2>1. l < o /\ first <= i
    BY <1>0, <1>1, <1>2, <1>4, <1>5
  <2>2. i < first
    BY <1>1, <1>2, <2>1
  <2> QED
    BY <1>2, <2>1, <2>2
<1>6. CASE k # o
  <2>1. k # 0 /\ k \in 1..m \ {o} /\ src[k] < i
    BY <1>0, <1>1, <1>2, <1>4, <1>6
  <2>2. CASE l = k
    BY <1>1, <1>2, <2>1, <2>2
  <2>3. CASE l # k
    <3>1. l < k /\ src[l] < src[k] /\ src[k] \in 1..n /\ src[l] \in 1..n
      BY <1>0, <1>1, <1>2, <1>3, <1>4, <2>1, <2>3
    <3> QED
      BY <1>1, <2>1, <3>1
  <2> QED
    BY <2>2, <2>3
<1> QED
  BY <1>5, <1>6

LEMMA NeverDeepAtFirst == \A lines : ~Deep(lines, 1)
BY DEF Deep

\* One place on: where a string is open, one is open at the source too.
LEMMA CutDeepNext ==
  ASSUME NEW raw, NEW content, NEW src, NEW o, NEW first,
         CutOf(raw, content, src, o, first), Lined(raw),
         NEW k \in 0..Len(content),
         k # 0 => (Deep(content, k) <=> Deep(raw, src[k]))
  PROVE  Deep(content, k + 1) <=> Deep(raw, src[k + 1])
<1> DEFINE m == Len(content)
           n == Len(raw)
           e == IF k = 0 THEN 1 ELSE IF k = o THEN first ELSE src[k] + 1
           j == src[k + 1]
<1>1. /\ n \in Nat /\ m \in Nat /\ first \in 1..n + 1 /\ o \in 1..m /\ src[o] = first
      /\ src[m + 1] = n + 1 /\ content[o] = "ours"
      /\ \A l \in 1..m \ {o} : /\ src[l] \in 1..n /\ ~Gone(raw, src[l])
                               /\ content[l] = raw[src[l]] /\ (l < o <=> src[l] < first)
  BY CutIn
<1>2. /\ \A i \in 1..first - 1 : ~Gone(raw, i)
      /\ first = n + 1 \/ Gone(raw, first)
      /\ ~Deep(raw, n + 1)
  BY DEF CutOf, First
<1>3. \A l, q \in 1..m \ {o} : l < q => src[l] < src[q]
  BY CutRises
<1>0. k \in 0..m
  OBVIOUS
<1>4. \A i \in 1..n : i < src[k + 1] /\ (k = o => first <= i) /\ (k # 0 /\ k # o => src[k] < i)
        => Gone(raw, i)
  BY CutNext
<1> HIDE DEF m, n
<1>5. j \in 1..n + 1 /\ e \in 1..n + 1 /\ e <= j
  <2>1. k + 1 \in 1..m + 1 /\ (k + 1 # m + 1 => k + 1 \in 1..m)
    BY <1>0, <1>1
  <2>2. j \in 1..n + 1
    BY <1>1, <2>1
  <2>3. CASE k = 0
    BY <1>1, <2>2, <2>3
  <2>4. CASE k = o
    <3>1. e = first /\ k # 0
      BY <1>1, <2>4
    <3>2. CASE k = m
      BY <1>1, <2>2, <3>1, <3>2
    <3>3. CASE k # m
      <4>1. k + 1 \in 1..m \ {o} /\ ~(k + 1 < o)
        BY <1>1, <2>4, <3>3
      <4>2. ~(j < first)
        BY <1>1, <4>1
      <4> QED
        BY <1>1, <2>2, <3>1, <4>2
    <3> QED
      BY <3>2, <3>3
  <2>5. CASE k # 0 /\ k # o
    <3>1. k \in 1..m \ {o} /\ e = src[k] + 1 /\ src[k] \in 1..n
      BY <1>0, <1>1, <2>5
    <3>2. CASE k = m
      BY <1>1, <2>2, <3>1, <3>2
    <3>3. CASE k + 1 = o
      <4>1. k < o
        BY <1>0, <1>1, <3>3
      <4>2. src[k] < first /\ j = first
        BY <1>1, <3>1, <3>3, <4>1
      <4> QED
        BY <1>1, <2>2, <3>1, <4>2
    <3>4. CASE k # m /\ k + 1 # o
      <4>1. k + 1 \in 1..m \ {o} /\ k < k + 1
        BY <1>0, <1>1, <3>4
      <4>2. src[k] < j
        BY <1>3, <3>1, <4>1
      <4> QED
        BY <1>1, <2>2, <3>1, <4>2
    <3> QED
      BY <3>2, <3>3, <3>4
  <2> QED
    BY <2>3, <2>4, <2>5
<1>6. Deep(content, k + 1) <=> Deep(raw, e)
  <2>1. CASE k = 0
    BY <2>1, NeverDeepAtFirst
  <2>2. CASE k = o
    <3>1. /\ e = first /\ k # 0 /\ k + 1 \in Nat \ {0, 1} /\ (k + 1) - 1 = k
          /\ content[k] = "ours" /\ src[k] = first
      BY <1>1, <2>2
    <3>2. Deep(content, k + 1) <=> /\ Deep(content, k) \/ content[k] = "opens"
                                   /\ content[k] # "closes"
      BY <3>1, DeepStep
    <3> QED
      BY <3>1, <3>2
  <2>3. CASE k # 0 /\ k # o
    <3>1. /\ k \in 1..m \ {o} /\ k + 1 \in Nat \ {0, 1} /\ (k + 1) - 1 = k
      BY <1>0, <1>1, <2>3
    <3>2. e = src[k] + 1 /\ src[k] \in 1..n /\ content[k] = raw[src[k]]
      BY <1>1, <2>3, <3>1
    <3>3. e \in Nat \ {0, 1} /\ e - 1 = src[k]
      BY <1>1, <3>2
    <3>4. Deep(content, k + 1) <=> /\ Deep(content, k) \/ content[k] = "opens"
                                   /\ content[k] # "closes"
      BY <3>1, DeepStep
    <3>5. Deep(raw, e) <=> /\ Deep(raw, src[k]) \/ raw[src[k]] = "opens"
                           /\ raw[src[k]] # "closes"
      BY <3>3, DeepStep
    <3> QED
      BY <2>3, <3>2, <3>4, <3>5
  <2> QED
    BY <2>1, <2>2, <2>3
<1>7. CASE e # j
  <2> HIDE DEF e, j
  <2>1. e \in 1..n /\ e < j
    BY <1>1, <1>5, <1>7
  <2>2. \A i \in 1..n : e <= i /\ i < j => Gone(raw, i)
    <3> SUFFICES ASSUME NEW i \in 1..n, e <= i, i < j PROVE Gone(raw, i)
      OBVIOUS
    <3>1. k # 0 /\ k # o => src[k] < i
      <4> SUFFICES ASSUME k # 0, k # o PROVE src[k] < i
        OBVIOUS
      <4>1. src[k] \in 1..n /\ e = src[k] + 1
        BY <1>0, <1>1 DEF e
      <4> QED
        BY <1>1, <4>1
    <3>2. k = o => first <= i
      BY <1>1 DEF e
    <3> QED
      BY <1>4, <3>1, <3>2 DEF j
  <2>3. ~Deep(raw, e)
    <3>1. CASE e = 1
      BY <3>1, NeverDeepAtFirst
    <3>2. CASE e # 1
      <4>1. Gone(raw, e) /\ e - 1 \in Nat \ {0} /\ (e - 1) + 1 = e
        BY <1>1, <1>5, <2>1, <2>2, <3>2
      <4>2. ~Gone(raw, e - 1)
        <5>1. CASE k = o
          <6>1. e = first
            BY <1>1, <5>1 DEF e
          <6>2. e - 1 \in 1..first - 1
            BY <1>1, <4>1, <6>1
          <6> QED
            BY <1>2, <6>2
        <5>2. CASE k # o
          <6>1. k # 0 /\ k \in 1..m \ {o}
            BY <1>0, <3>2, <5>2 DEF e
          <6>2. src[k] \in 1..n /\ e = src[k] + 1 /\ ~Gone(raw, src[k])
            BY <1>1, <5>2, <6>1 DEF e
          <6>3. e - 1 = src[k]
            BY <6>2
          <6> QED
            BY <6>2, <6>3
        <5> QED
          BY <5>1, <5>2
      <4>3. Header(raw, e)
        <5>1. PICK i : i = e - 1
          OBVIOUS
        <5>2. i \in Nat /\ i # 0 /\ i + 1 = e
          BY <4>1, <5>1
        <5> QED
          BY <4>1, <4>2, <5>1, <5>2, Border
      <4> QED
        BY <4>3 DEF Header
    <3> QED
      BY <3>1, <3>2
  <2>4. ~Deep(raw, j)
    <3>1. Gone(raw, j - 1) /\ j - 1 \in 1..n /\ (j - 1) + 1 = j
      <4>1. j - 1 \in 1..n /\ e <= j - 1 /\ j - 1 < j /\ (j - 1) + 1 = j
        BY <1>1, <1>5, <2>1
      <4> QED
        BY <2>2, <4>1
    <3>2. CASE j = n + 1
      BY <1>2, <3>2
    <3>3. CASE j # n + 1
      <4>1. k + 1 \in 1..m
        <5>1. k # m
          BY <1>1, <3>3 DEF j
        <5> QED
          BY <1>0, <1>1, <5>1
      <4>2. k + 1 # o
        <5> SUFFICES ASSUME k + 1 = o PROVE FALSE
          OBVIOUS
        <5>1. j = first
          BY <1>1 DEF j
        <5>2. j - 1 \in 1..first - 1
          BY <1>1, <3>1, <5>1
        <5> QED
          BY <1>2, <3>1, <5>2
      <4>3. ~Gone(raw, j)
        BY <1>1, <4>1, <4>2 DEF j
      <4>4. Header(raw, j)
        <5>1. PICK i : i = j - 1
          OBVIOUS
        <5>2. i \in Nat /\ i # 0 /\ i + 1 = j
          BY <1>1, <3>1, <5>1
        <5> QED
          BY <3>1, <4>3, <5>1, <5>2, Border
      <4> QED
        BY <4>4 DEF Header
    <3> QED
      BY <3>2, <3>3
  <2> QED
    BY <1>6, <2>3, <2>4 DEF j
<1>8. CASE e = j
  BY <1>6, <1>8
<1> QED
  BY <1>7, <1>8

LEMMA CutDeep ==
  ASSUME NEW raw, NEW content, NEW src, NEW o, NEW first,
         CutOf(raw, content, src, o, first), Lined(raw)
  PROVE  \A k \in 1..Len(content) + 1 : Deep(content, k) <=> Deep(raw, src[k])
<1> DEFINE m == Len(content)
           bad == {k \in 1..m + 1 : ~(Deep(content, k) <=> Deep(raw, src[k]))}
<1>1. m \in Nat
  BY CutIn
<1> SUFFICES ASSUME bad # {} PROVE FALSE
  OBVIOUS
<1>2. bad \subseteq Nat
  OBVIOUS
<1> HIDE DEF bad
<1>3. PICK k \in bad : \A l \in bad : k <= l
  BY <1>2, LeastOf
<1>4. k \in 1..m + 1 /\ ~(Deep(content, k) <=> Deep(raw, src[k]))
  BY DEF bad
<1>5. PICK i : i = k - 1
  OBVIOUS
<1>6. i \in 0..m /\ i + 1 = k
  BY <1>1, <1>4, <1>5
<1>7. i # 0 => (Deep(content, i) <=> Deep(raw, src[i]))
  <2> SUFFICES ASSUME i # 0, i \notin bad => (Deep(content, i) <=> Deep(raw, src[i]))
               PROVE  Deep(content, i) <=> Deep(raw, src[i])
    <3>1. i # 0 => i \in 1..m + 1
      BY <1>1, <1>6
    <3> QED
      BY <3>1 DEF bad
  <2>1. i \notin bad
    BY <1>1, <1>3, <1>4, <1>6
  <2> QED
    BY <2>1
<1>8. Deep(content, i + 1) <=> Deep(raw, src[i + 1])
  BY <1>6, <1>7, CutDeepNext
<1> QED
  BY <1>4, <1>6, <1>8

\* The places of the lines of the user.
Mine(client, lines) ==
  {i \in 1..Len(lines) : /\ lines[i] \notin {"ours", "entry", "rule", "market", "plugin"}
                         /\ client = "codex" => ~Ours(lines, i)}

LEMMA MineAre ==
  ASSUME NEW client, NEW raw
  PROVE  UserLines(client, raw) = Those(Text(raw), Mine(client, Text(raw)))
BY DEF UserLines, Mine

\* No line that is left stands under a header of ours.
LEMMA CutOurs ==
  ASSUME NEW raw, NEW content, NEW src, NEW o, NEW first,
         CutOf(raw, content, src, o, first), Lined(raw),
         NEW k \in 1..Len(content) \ {o}
  PROVE  ~Ours(content, k)
<1> DEFINE m == Len(content)
           n == Len(raw)
<1>1. /\ n \in Nat /\ m \in Nat /\ first \in 1..n + 1 /\ o \in 1..m /\ src[o] = first
      /\ src[m + 1] = n + 1 /\ content[o] = "ours"
      /\ \A l \in 1..m \ {o} : /\ src[l] \in 1..n /\ ~Gone(raw, src[l])
                               /\ content[l] = raw[src[l]] /\ (l < o <=> src[l] < first)
  BY CutIn
<1>2. /\ first = n + 1 \/ Gone(raw, first)
  BY DEF CutOf, First
<1>3. ASSUME NEW l \in 1..m \ {o} PROVE Header(content, l) <=> Header(raw, src[l])
  <2>1. l \in 1..m + 1 /\ content[l] = raw[src[l]]
    BY <1>1
  <2>2. Deep(content, l) <=> Deep(raw, src[l])
    BY <2>1, CutDeep
  <2> QED
    BY <2>1, <2>2 DEF Header
<1>0. k \in 1..m \ {o}
  OBVIOUS
<1>4. \A i \in 1..n : i < src[o + 1] /\ first <= i => Gone(raw, i)
  <2>1. o \in 0..m /\ o # 0
    BY <1>1
  <2> QED
    BY <2>1, CutNext
<1> HIDE DEF m, n
<1> SUFFICES ASSUME Ours(content, k) PROVE FALSE
  OBVIOUS
<1>5. PICK h \in 1..k : /\ Header(content, h) /\ \A l \in h + 1..k : ~Header(content, l)
                        /\ content[h] \in {"entry", "entry_env", "ours"}
  BY DEF Ours
<1>6. CASE h = o
  <2>1. /\ o + 1 \in 1..m \ {o} /\ o + 1 \in h + 1..k /\ ~(o + 1 < o)
    BY <1>0, <1>1, <1>5, <1>6
  <2> DEFINE j == src[o + 1]
  <2>2. j \in 1..n /\ ~Gone(raw, j) /\ ~(j < first)
    BY <1>1, <2>1
  <2>3. ~Header(raw, j)
    BY <1>3, <1>5, <2>1
  <2> HIDE DEF j
  <2>4. first # n + 1 /\ j # first
    BY <1>1, <1>2, <2>2
  <2>5. PICK i : i = j - 1
    OBVIOUS
  <2>6. i \in 1..n /\ first <= i /\ i < j /\ i + 1 = j
    BY <1>1, <2>2, <2>4, <2>5
  <2>7. Gone(raw, i)
    BY <1>4, <2>6 DEF j
  <2>8. i \in Nat /\ i # 0
    BY <1>1, <2>6
  <2> QED
    BY <2>2, <2>3, <2>6, <2>7, <2>8, Border
<1>7. CASE h # o
  <2>1. h \in 1..m \ {o}
    BY <1>0, <1>1, <1>5, <1>7
  <2>2. /\ Header(raw, src[h]) /\ src[h] \in 1..n /\ ~Gone(raw, src[h])
        /\ raw[src[h]] \in {"entry", "entry_env", "ours"}
    BY <1>1, <1>3, <1>5, <2>1
  <2>3. _is_reviewer_path(raw[src[h]])
    BY <2>2 DEF _is_reviewer_path
  <2>4. src[h] \in Nat \ {0}
    BY <1>1, <2>2
  <2> QED
    BY <2>2, <2>3, <2>4, HeaderGone
<1> QED
  BY <1>6, <1>7

\* The lines of the user are those that they were.
LEMMA CutUser ==
  ASSUME NEW raw, NEW content, NEW src, NEW o, NEW first,
         CutOf(raw, content, src, o, first), Lined(raw), WellNamed(raw), Text(raw) = raw,
         \A h \in 1..Len(raw) :
           Header(raw, h) /\ _is_reviewer_path(raw[h]) => raw[h] # "entry_array"
  PROVE  Those(content, Mine("codex", content)) = Those(raw, Mine("codex", raw))
<1> DEFINE m == Len(content)
           n == Len(raw)
           S == Mine("codex", content)
           T == Mine("codex", raw)
           take == [k \in S |-> src[k]]
           Written == {"ours", "entry", "rule", "market", "plugin"}
<1>1. /\ n \in Nat /\ m \in Nat /\ o \in 1..m /\ content[o] = "ours"
      /\ \A l \in 1..m \ {o} : /\ src[l] \in 1..n /\ ~Gone(raw, src[l])
                               /\ content[l] = raw[src[l]]
  BY CutIn
<1>2. /\ \A l, q \in 1..m \ {o} : l < q => src[l] < src[q]
      /\ \A i \in 1..n : ~Gone(raw, i) => \E k \in 1..m \ {o} : src[k] = i
  BY CutRises
<1>3. \A k \in 1..m \ {o} : ~Ours(content, k)
  BY CutOurs
<1>4. \A i \in 1..n : raw[i] = "quoted" => Deep(raw, i)
  BY DEF WellNamed
<1>5. \A i \in 1..n : Gone(raw, i) <=> Ours(raw, i)
  <2> SUFFICES ASSUME NEW i \in 1..n PROVE Gone(raw, i) <=> Ours(raw, i)
    OBVIOUS
  <2>1. \A h \in 1..i : h \in 1..n
    BY <1>1
  <2>2. ASSUME NEW h \in 1..i, Header(raw, h)
        PROVE  _is_reviewer_path(raw[h]) <=> raw[h] \in {"entry", "entry_env", "ours"}
    <3>1. raw[h] # "quoted"
      BY <1>4, <2>1, <2>2 DEF Header
    <3>2. raw[h] = "entry_array" => ~_is_reviewer_path(raw[h])
      BY <2>1, <2>2
    <3> QED
      BY <3>1, <3>2 DEF _is_reviewer_path
  <2> QED
    BY <2>2 DEF Gone, Ours
<1>6. \A k \in S : k \in 1..m \ {o} /\ content[k] \notin Written
  <2> SUFFICES ASSUME NEW k \in S PROVE k \in 1..m \ {o} /\ content[k] \notin Written
    OBVIOUS
  <2>1. k \in 1..m /\ content[k] \notin Written
    BY DEF Mine
  <2> QED
    BY <1>1, <2>1
<1>7. ASSUME NEW k \in 1..m \ {o} PROVE k \in S <=> src[k] \in T
  <2>1. /\ src[k] \in 1..n /\ ~Ours(raw, src[k]) /\ content[k] = raw[src[k]]
        /\ ~Ours(content, k) /\ k \in 1..m
    BY <1>1, <1>3, <1>5
  <2>2. k \in S <=> content[k] \notin Written
    BY <2>1 DEF Mine
  <2>3. src[k] \in T <=> raw[src[k]] \notin Written
    BY <2>1 DEF Mine
  <2> QED
    BY <2>1, <2>2, <2>3
<1>8. ASSUME NEW i \in T PROVE \E k \in S : src[k] = i
  <2>1. i \in 1..n /\ ~Ours(raw, i)
    BY DEF Mine
  <2>2. PICK k \in 1..m \ {o} : src[k] = i
    BY <1>2, <1>5, <2>1
  <2>3. k \in S
    BY <1>7, <2>2
  <2> QED
    BY <2>2, <2>3
<1>9. S \subseteq 1..m /\ T \subseteq 1..n
  BY DEF Mine
<1> HIDE DEF S, T
<1>10. Copies(take, content, S, raw, T)
  <2>1. take \in [S -> T]
    BY <1>6, <1>7
  <2>2. \A i \in T : \E k \in S : take[k] = i
    BY <1>8
  <2>3. \A k, l \in S : k < l => take[k] < take[l]
    BY <1>2, <1>6
  <2>4. \A k \in S : content[k] = raw[take[k]]
    BY <1>1, <1>6
  <2> HIDE DEF take
  <2> QED
    BY <2>1, <2>2, <2>3, <2>4 DEF Copies
<1> HIDE DEF m, n, take
<1>11. Numbered(S) /\ Numbered(T)
  BY <1>1, <1>9 DEF Numbered
<1>12. Those(content, S) = Those(raw, T)
  BY <1>10, <1>11, SameThose
<1> QED
  BY <1>12 DEF S, T

\* The lines are still what they are named for.
LEMMA CutNamed ==
  ASSUME NEW raw, NEW content, NEW src, NEW o, NEW first,
         CutOf(raw, content, src, o, first), Lined(raw), WellNamed(raw), Text(raw) = raw,
         Text(content) = content
  PROVE  /\ WellNamed(content)
         /\ "plugin" \in ToSet(raw) <=> "plugin" \in ToSet(content)
<1> DEFINE m == Len(content)
           n == Len(raw)
<1>1. /\ n \in Nat /\ m \in Nat /\ o \in 1..m /\ content[o] = "ours"
      /\ src[m + 1] = n + 1 /\ Lined(content)
      /\ \A l \in 1..m \ {o} : /\ src[l] \in 1..n /\ ~Gone(raw, src[l])
                               /\ content[l] = raw[src[l]]
  BY CutIn
<1>2. \A i \in 1..n : ~Gone(raw, i) => \E k \in 1..m \ {o} : src[k] = i
  BY CutRises
<1>3. \A k \in 1..m + 1 : Deep(content, k) <=> Deep(raw, src[k])
  BY CutDeep
<1>4. /\ ~Deep(raw, n + 1)
      /\ \A i \in 1..n : /\ raw[i] = "quoted" => Deep(raw, i)
                         /\ raw[i] = "plugin" => ~Deep(raw, i)
  BY DEF WellNamed
<1>5. ~Deep(content, m + 1)
  BY <1>1, <1>3, <1>4
<1>6. ASSUME NEW k \in 1..m
      PROVE  /\ content[k] = "quoted" => Deep(content, k)
             /\ content[k] = "plugin" => ~Deep(content, k)
  <2>1. CASE k = o
    BY <1>1, <2>1
  <2>2. CASE k # o
    <3>1. src[k] \in 1..n /\ content[k] = raw[src[k]]
      BY <1>1, <2>2
    <3>2. Deep(content, k) <=> Deep(raw, src[k])
      BY <1>1, <1>3
    <3> QED
      BY <1>4, <3>1, <3>2
  <2> QED
    BY <2>1, <2>2
<1>7. WellNamed(content)
  BY <1>5, <1>6 DEF WellNamed
<1>8. DOMAIN raw = 1..n /\ DOMAIN content = 1..m
  BY <1>1, LengthLined
<1>9. ASSUME NEW i \in 1..n, raw[i] = "plugin" PROVE "plugin" \in ToSet(content)
  <2>1. Header(raw, i)
    BY <1>4, <1>9 DEF Header, LooksLikeHeader
  <2>2. ~Gone(raw, i)
    <3>1. i \in Nat \ {0} /\ ~_is_reviewer_path(raw[i])
      BY <1>9 DEF _is_reviewer_path
    <3> QED
      BY <2>1, <3>1, HeaderGone
  <2>3. PICK k \in 1..m \ {o} : src[k] = i
    BY <1>2, <2>2
  <2>4. k \in DOMAIN content /\ content[k] = "plugin"
    BY <1>1, <1>8, <1>9, <2>3
  <2> QED
    BY <2>4 DEF ToSet
<1>10. ASSUME NEW k \in 1..m, content[k] = "plugin" PROVE "plugin" \in ToSet(raw)
  <2>1. k # o
    BY <1>1, <1>10
  <2>2. src[k] \in DOMAIN raw /\ raw[src[k]] = "plugin"
    BY <1>1, <1>8, <1>10, <2>1
  <2> QED
    BY <2>2 DEF ToSet
<1>11. "plugin" \in ToSet(raw) => \E i \in 1..n : raw[i] = "plugin"
  BY <1>8 DEF ToSet
<1>12. "plugin" \in ToSet(content) => \E i \in 1..m : content[i] = "plugin"
  BY <1>8 DEF ToSet
<1> QED
  BY <1>7, <1>9, <1>10, <1>11, <1>12

-----------------------------------------------------------------------------
(* What the surgery adds.                                                 *)

LEMMA TomlAdds ==
  ASSUME NEW raw, Lined(raw), _replace_codex_reviewer_tables(raw).ok
  PROVE  /\ Lined(_replace_codex_reviewer_tables(raw).content)
         /\ "ours" \in ToSet(_replace_codex_reviewer_tables(raw).content)
<1> DEFINE content == _replace_codex_reviewer_tables(raw).content
<1>1. PICK src, o, first : IsCut(Len(raw), Left(raw), first, raw, content, src, o)
  BY TomlCuts
<1> HIDE DEF content
<1>2. Lined(content) /\ o \in 1..Len(content) /\ content[o] = "ours"
  BY <1>1 DEF IsCut
<1>3. DOMAIN content = 1..Len(content)
  BY <1>2, LengthLined
<1>4. "ours" \in ToSet(content)
  BY <1>2, <1>3 DEF ToSet
<1> QED
  BY <1>2, <1>4 DEF content

LEMMA PlanAdds ==
  ASSUME NEW client, NEW raw, Lined(raw), build_plan(client, raw).ok
  PROVE  /\ Lined(build_plan(client, raw).content)
         /\ "ours" \in ToSet(build_plan(client, raw).content)
<1>1. Lined(Text(raw))
  BY TextLined
<1>2. CASE client = "codex"
  BY <1>1, <1>2, TomlAdds DEF build_plan
<1>3. CASE client # "codex"
  BY <1>1, <1>3, JsonAdds DEF build_plan
<1> QED
  BY <1>2, <1>3

LEMMA RuleAdds ==
  ASSUME NEW raw, Lined(raw), build_allowlist_plan(raw).ok
  PROVE  /\ Lined(build_allowlist_plan(raw).content)
         /\ "rule" \in ToSet(build_allowlist_plan(raw).content)
BY TextLined, JsonAdds DEF build_allowlist_plan

-----------------------------------------------------------------------------
(* The clients of a command, one after the other.                          *)

LEMMA DetectedAll ==
  /\ detect_installed \in Seq(case.clients)
  /\ case.clients \subseteq AIClient => case.clients \subseteq ToSet(detect_installed)
  /\ Detected("codex") \o Detected("kimi") \in Seq(case.clients)
<1>1. \A c : Detected(c) \in Seq(case.clients) /\ Lined(Detected(c))
             /\ (c \in case.clients => c \in ToSet(Detected(c)))
  <2> SUFFICES ASSUME NEW c
               PROVE  /\ Detected(c) \in Seq(case.clients) /\ Lined(Detected(c))
                      /\ (c \in case.clients => c \in ToSet(Detected(c)))
    OBVIOUS
  <2>1. CASE c \in case.clients
    <3>1. Detected(c) = <<c>>
      BY <2>1 DEF Detected
    <3>2. \A S : c \in S => <<c>> \in Seq(S)
      OBVIOUS
    <3> QED
      BY <2>1, <3>1, <3>2, OneLined
  <2>2. CASE c \notin case.clients
    <3>1. Detected(c) = << >> /\ << >> \in Seq(case.clients)
      BY <2>2 DEF Detected
    <3> QED
      BY <2>2, <3>1, NothingLined
  <2> QED
    BY <2>1, <2>2
<1>2. detect_installed \in Seq(case.clients)
      /\ Detected("codex") \o Detected("kimi") \in Seq(case.clients)
  BY <1>1 DEF detect_installed
<1>3. ASSUME NEW c \in case.clients, case.clients \subseteq AIClient
      PROVE  c \in ToSet(detect_installed)
  <2> DEFINE p == Detected("claude-code") \o Detected("cursor")
             q == p \o Detected("kimi")
  <2>1. Lined(p) /\ ToSet(Detected("claude-code")) \cup ToSet(Detected("cursor")) \subseteq ToSet(p)
    BY <1>1, ConcatLined
  <2> HIDE DEF p
  <2>2. Lined(q) /\ ToSet(p) \cup ToSet(Detected("kimi")) \subseteq ToSet(q)
    BY <1>1, <2>1, ConcatLined
  <2> HIDE DEF q
  <2>3. ToSet(q) \cup ToSet(Detected("codex")) \subseteq ToSet(q \o Detected("codex"))
    BY <1>1, <2>2, ConcatLined
  <2>4. detect_installed = q \o Detected("codex")
    BY DEF detect_installed, p, q
  <2> QED
    BY <1>1, <1>3, <2>1, <2>2, <2>3, <2>4 DEF AIClient
<1> QED
  BY <1>2, <1>3

LEMMA ToSetIn ==
  ASSUME NEW S, NEW s \in Seq(S)
  PROVE  ToSet(s) \subseteq S
BY DEF ToSet

\* The first client, and the others.
LEMMA HeadAndTail ==
  ASSUME NEW S, NEW s \in Seq(S), s # << >>
  PROVE  /\ Head(s) \in S /\ Head(s) \in ToSet(s) /\ Tail(s) \in Seq(S)
         /\ ToSet(s) = {Head(s)} \cup ToSet(Tail(s))
<1>1. /\ Len(s) \in Nat \ {0} /\ Head(s) = s[1] /\ DOMAIN s = 1..Len(s)
      /\ DOMAIN Tail(s) = 1..Len(s) - 1 /\ Tail(s) \in Seq(S)
      /\ \A i \in 1..Len(s) - 1 : Tail(s)[i] = s[i + 1]
  OBVIOUS
<1>2. ASSUME NEW x \in ToSet(s), x # Head(s) PROVE x \in ToSet(Tail(s))
  <2>1. PICK i \in 1..Len(s) : s[i] = x
    BY <1>1 DEF ToSet
  <2>2. i - 1 \in DOMAIN Tail(s) /\ Tail(s)[i - 1] = x
    BY <1>1, <1>2, <2>1
  <2> QED
    BY <2>2 DEF ToSet
<1>3. ASSUME NEW x \in ToSet(Tail(s)) PROVE x \in ToSet(s)
  <2>1. PICK i \in 1..Len(s) - 1 : Tail(s)[i] = x
    BY <1>1, <1>3 DEF ToSet
  <2>2. i + 1 \in DOMAIN s /\ s[i + 1] = x
    BY <1>1, <2>1
  <2> QED
    BY <2>2 DEF ToSet
<1>4. Head(s) \in S /\ Head(s) \in ToSet(s)
  BY <1>1 DEF ToSet
<1> QED
  BY <1>1, <1>2, <1>3, <1>4

\* The file of a client.
FileOf(c) == IF c = "claude-code" THEN "settings" ELSE c

\* A step of t works for the client that has its turn.
Touches(t) ==
  /\ world'.tool = world.tool
  /\ \A f \in File \ {FileOf(Client(t))} : config'[f] = config[f]
  /\ claude' = claude \/ Client(t) = "claude-code"
  /\ codex'.cache = codex.cache \/ Client(t) = "codex"

LEMMA Untouched ==
  ASSUME NEW t \in Terminal, Touches(t), Client(t) \in AIClient,
         NEW c \in AIClient, c # Client(t), NEW b,
         Installed(c, b)
  PROVE  Installed(c, b)'
<1>1. FileOf(c) \in File \ {FileOf(Client(t))}
  BY DEF FileOf, File, AIClient
<1>2. config'[FileOf(c)] = config[FileOf(c)] /\ world'.tool = world.tool
  BY <1>1 DEF Touches
<1>3. CASE c = "claude-code"
  BY <1>2, <1>3 DEF Installed, Touches, FileOf, Shown
<1>4. CASE c = "codex"
  BY <1>2, <1>4 DEF Installed, Touches, FileOf, Plugin, Text, None
<1>5. CASE c \in {"cursor", "kimi"}
  BY <1>2, <1>5 DEF Installed, FileOf
<1> QED
  BY <1>3, <1>4, <1>5 DEF AIClient

\* An installer that goes on is the same one, for the same clients.
LEMMA SameAim ==
  ASSUME Shelled, NEW t \in Terminal, Walks(t), at[t] \in InstallPc, at'[t] \in InstallPc
  PROVE  /\ Aim(t)' = Aim(t) /\ NoSkills(t)' = NoSkills(t) /\ case' = case
         /\ OnlyPlain(case)' = OnlyPlain(case)
<1>1. /\ caller'[t] = caller[t] /\ todo'[t] = todo[t] /\ case' = case
  BY DEF Walks, Shelled, InstallPc
<1>2. OnlyPlain(case)' = OnlyPlain(case)
  BY <1>1 DEF OnlyPlain
<1> QED
  BY <1>1, <1>2 DEF Aim, NoSkills, Wanted, Bare, Job

\* The registers that say what an installer is about.
About(t) == <<inst[t].targets, inst[t].no_skills, inst[t].skills_only, inst[t].errors,
              inst[t].pkg>>

Busy == InstallPc \ {"client", "give_up"}

\* A step inside the work for one client.
LEMMA GoesOn ==
  ASSUME Shelled, NEW t \in Terminal, Bound(t), Walks(t), at[t] \in InstallPc,
         inst[t].targets # << >>,
         at'[t] \in InstallPc \ {"client"}, Touches(t), About(t)' = About(t)
  PROVE  Bound(t)'
<1>1. /\ at[t] \in InstallPc /\ at'[t] \in InstallPc /\ inst[t].targets # << >>
      /\ inst[t].targets \in Seq(AIClient)
  BY DEF Bound, Busy
<1>2. /\ Aim(t)' = Aim(t) /\ NoSkills(t)' = NoSkills(t) /\ OnlyPlain(case)' = OnlyPlain(case)
  BY <1>1, SameAim
<1>3. /\ inst'[t].targets = inst[t].targets /\ inst'[t].no_skills = inst[t].no_skills
      /\ inst'[t].skills_only = inst[t].skills_only /\ inst'[t].errors = inst[t].errors
      /\ inst'[t].pkg = inst[t].pkg /\ world'.tool = world.tool
  BY DEF About, Touches
<1>4. Client(t) \in AIClient /\ Client(t) \in ToSet(inst[t].targets)
  BY <1>1, HeadAndTail DEF Client
<1>5. ASSUME NEW c \in Aim(t)
      PROVE  c \in ToSet(inst[t].targets) \/ inst[t].errors \/ Installed(c, NoSkills(t))'
  <2>1. c \in AIClient
    BY <1>1 DEF Bound
  <2>2. Installed(c, NoSkills(t)) /\ c # Client(t) => Installed(c, NoSkills(t))'
    BY <1>2, <1>4, <2>1, Untouched
  <2> QED
    BY <1>1, <1>4, <2>2 DEF Bound
<1> QED
  BY <1>1, <1>2, <1>3, <1>5 DEF Bound

\* The end of the work for one client, done or not.
LEMMA GetsOn ==
  ASSUME Shelled, NEW t \in Terminal, Bound(t), Walks(t), at[t] \in Busy,
         at'[t] = "client", Touches(t),
         inst'[t].targets = Tail(inst[t].targets),
         inst'[t].no_skills = inst[t].no_skills, inst'[t].skills_only = inst[t].skills_only,
         inst'[t].pkg = inst[t].pkg,
         inst[t].errors => inst'[t].errors,
         NEW x, x = Client(t),
         inst'[t].errors \/ (x \in Aim(t) => Installed(x, NoSkills(t))')
  PROVE  Bound(t)'
<1>1. /\ at[t] \in InstallPc /\ at'[t] \in InstallPc /\ inst[t].targets # << >>
      /\ inst[t].targets \in Seq(AIClient)
  BY DEF Bound, Busy, InstallPc
<1>2. /\ Aim(t)' = Aim(t) /\ NoSkills(t)' = NoSkills(t) /\ OnlyPlain(case)' = OnlyPlain(case)
  BY <1>1, SameAim
<1>3. world'.tool = world.tool
  BY DEF Touches
<1>4. /\ Client(t) \in AIClient /\ inst'[t].targets \in Seq(AIClient)
      /\ ToSet(inst[t].targets) = {Client(t)} \cup ToSet(inst'[t].targets)
  BY <1>1, HeadAndTail DEF Client
<1>5. ASSUME NEW c \in Aim(t)
      PROVE  c \in ToSet(inst'[t].targets) \/ inst'[t].errors \/ Installed(c, NoSkills(t))'
  <2>1. c \in AIClient
    BY <1>1 DEF Bound
  <2>2. Installed(c, NoSkills(t)) /\ c # Client(t) => Installed(c, NoSkills(t))'
    BY <1>2, <1>4, <2>1, Untouched
  <2>3. c \in ToSet(inst[t].targets) \/ inst[t].errors \/ Installed(c, NoSkills(t))
    BY <1>1 DEF Bound
  <2>4. CASE c = Client(t)
    <3>1. c = x
      BY <2>4
    <3> QED
      BY <3>1
  <2>5. CASE c # Client(t)
    BY <1>4, <2>2, <2>3, <2>5
  <2> QED
    BY <2>4, <2>5
<1> QED
  BY <1>1, <1>2, <1>3, <1>4, <1>5 DEF Bound

\* A command that ends with an error promises nothing.
LEMMA EndsBadly ==
  ASSUME NEW t \in Terminal,
         \/ at'[t] = "prompt" /\ told'[t] # "ok"
         \/ at'[t] = "update_after" /\ told'[t] = "error"
  PROVE  Bound(t)' /\ Local(t)' /\ Outcome(t)'
BY DEF Bound, Local, Outcome, InstallPc, FilePc, CodexPc, PluginPc, EntryPc, AllowPc

LEMMA FinishesBadly ==
  ASSUME Shelled, NEW t \in Terminal, Finish(t, "error")
  PROVE  Bound(t)' /\ Local(t)' /\ Outcome(t)'
<1>1. \/ at'[t] = "prompt" /\ told'[t] = "error"
      \/ at'[t] = "update_after" /\ told'[t] = "error"
  BY DEF Finish, Ends, Shelled
<1> QED
  BY <1>1, EndsBadly

\* The command that has just ended is the last one.
LEMMA LastIs ==
  ASSUME Shelled, Queues, NEW t \in Terminal, Walks(t), at'[t] = "prompt"
  PROVE  LastJob(t)' = Job(t) /\ Ended(t)'
<1>1. todo[t] # << >> /\ todo'[t] = Tail(todo[t]) /\ case' = case
  BY DEF Walks, Queues, Queued
<1>2. /\ Len(todo[t]) \in 1..Len(case.todo[t])
      /\ Job(t) = case.todo[t][Len(case.todo[t]) - Len(todo[t]) + 1]
      /\ Len(todo'[t]) = Len(todo[t]) - 1 /\ Len(case.todo[t]) \in Nat
      /\ Len(case'.todo[t]) = Len(case.todo[t])
  BY <1>1, JobAt
<1>3. Len(case'.todo[t]) - Len(todo'[t]) = Len(case.todo[t]) - Len(todo[t]) + 1
  BY <1>2
<1>4. Len(todo'[t]) + 1 \in 1..Len(case'.todo[t])
  BY <1>2
<1> QED
  BY <1>1, <1>2, <1>3, <1>4 DEF LastJob, Ended

\* What runs was typed.
LEMMA JobTyped ==
  ASSUME Shelled, Queues, NEW t \in Terminal, todo[t] # << >>
  PROVE  \E i \in DOMAIN case.todo[t] : Job(t) = case.todo[t][i]
<1>1. /\ Len(todo[t]) \in 1..Len(case.todo[t])
      /\ Job(t) = case.todo[t][Len(case.todo[t]) - Len(todo[t]) + 1]
      /\ Len(case.todo[t]) \in Nat
  BY JobAt
<1>2. Len(case.todo[t]) - Len(todo[t]) + 1 \in 1..Len(case.todo[t])
  BY <1>1, CountedBack
<1>3. DOMAIN case.todo[t] = 1..Len(case.todo[t])
  BY JobsListed
<1> QED
  BY <1>1, <1>2, <1>3

\* The loop is over, and nothing has failed.
LEMMA FinishesWell ==
  ASSUME Shelled, Queues, NEW t \in Terminal, Bound(t), Walks(t), at[t] = "client",
         inst[t].targets = << >>, ~inst[t].errors, Finish(t, "ok"),
         UNCHANGED <<world, config, claude, codex>>
  PROVE  Bound(t)' /\ Local(t)' /\ Outcome(t)'
<1>1. \A c \in Aim(t) : Installed(c, NoSkills(t))
  BY DEF Bound, InstallPc, ToSet
<1>2. ASSUME NEW c, NEW b PROVE Installed(c, b)' = Installed(c, b)
  BY DEF Installed, Shown, Plugin
<1>3. CASE caller[t] = "shell"
  <2>1. at'[t] = "prompt" /\ LastJob(t)' = Job(t)
    BY <1>3, LastIs DEF Finish, Ends, Shelled
  <2>2. Aim(t) = Wanted(Job(t)) /\ NoSkills(t) = Bare(Job(t))
    BY <1>3 DEF Aim, NoSkills, Bare
  <2>3. PICK j : j = Job(t)
    OBVIOUS
  <2>4. Wanted(LastJob(t))' = Wanted(j) /\ Bare(LastJob(t))' = Bare(j)
    BY <2>1, <2>3 DEF Wanted, Bare, Walks
  <2>5. \A c \in Wanted(LastJob(t))' : Installed(c, Bare(j))'
    BY <1>1, <1>2, <2>2, <2>3, <2>4
  <2> QED
    BY <2>1, <2>4, <2>5 DEF Outcome, Bound, Local, InstallPc, FilePc, CodexPc, PluginPc, EntryPc, AllowPc
<1>4. CASE caller[t] = "update_after"
  <2>1. at'[t] = "update_after" /\ case' = case
    BY <1>4 DEF Finish, Ends, Shelled
  <2>2. Aim(t) = case.clients /\ NoSkills(t) = FALSE
    BY <1>4 DEF Aim, NoSkills
  <2>3. \A c \in case.clients : Installed(c, FALSE)'
    BY <1>1, <1>2, <2>2
  <2> QED
    BY <2>1, <2>3 DEF Outcome, Bound, Local, InstallPc, FilePc, CodexPc, PluginPc, EntryPc, AllowPc
<1> QED
  BY <1>3, <1>4 DEF Shelled

-----------------------------------------------------------------------------
(* The installer of files.                                                 *)

\* Where the loop begins nothing is said of the first client.
LEMMA AtClient == \A t \in Terminal : at'[t] = "client" => Local(t)' /\ Outcome(t)'
BY DEF Local, Outcome, FilePc, CodexPc, PluginPc, EntryPc, AllowPc

LEMMA InstallStarts ==
  ASSUME Shelled, Queues, Registered, NEW t \in Terminal, install(t)
  PROVE  Bound(t)' /\ Local(t)' /\ Outcome(t)'
<1>1. /\ at[t] = "prompt" /\ todo[t] # << >> /\ Job(t).run = "install" /\ caller[t] = "shell"
      /\ at'[t] = "client" /\ case' = case /\ todo' = todo /\ caller' = caller /\ world' = world
  BY DEF install, Starts, Go, Shelled, Queues, Queued
<1> DEFINE set == IF Job(t).all THEN detect_installed ELSE <<Job(t).client>>
<1>2. /\ inst'[t].targets = set /\ (inst'[t].no_skills <=> Job(t).no_skills)
      /\ ~inst'[t].skills_only /\ inst'[t].pkg = world.tool
  BY DEF install, Registered, NoInstall
<1>3. PICK i \in DOMAIN case.todo[t] : Job(t) = case.todo[t][i]
  BY <1>1, JobTyped
<1>4. /\ Job(t).all \/ Job(t).client \in AIClient
      /\ case.clients \subseteq AIClient /\ case \in Cases
  BY <1>1, <1>3, MachinesAssumption DEF Shelled
<1>5. OnlyPlain(case) => case.clients \subseteq Plain /\ (Job(t).all \/ Job(t).client \in Plain)
  BY <1>1, <1>3 DEF OnlyPlain, Installers
<1>6. /\ Aim(t)' = (IF Job(t).all THEN case.clients ELSE {Job(t).client})
      /\ (NoSkills(t)' <=> Job(t).no_skills) /\ OnlyPlain(case)' = OnlyPlain(case)
  BY <1>1 DEF Aim, NoSkills, Wanted, Bare, Job, OnlyPlain
<1>7. CASE Job(t).all
  <2>1. set \in Seq(case.clients) /\ case.clients \subseteq ToSet(set)
    BY <1>4, <1>7, DetectedAll
  <2>2. set \in Seq(AIClient) /\ ToSet(set) \subseteq case.clients
    BY <1>4, <2>1, ToSetIn
  <2> HIDE DEF set
  <2>3. Bound(t)'
    BY <1>1, <1>2, <1>4, <1>5, <1>6, <1>7, <2>1, <2>2 DEF Bound
  <2> QED
    BY <1>1, <2>3, AtClient
<1>8. CASE ~Job(t).all
  <2>1. set \in Seq(AIClient)
    BY <1>4, <1>8
  <2>2. ToSet(set) = {Job(t).client}
    BY <1>8, OneLined
  <2> HIDE DEF set
  <2>3. Bound(t)'
    BY <1>1, <1>2, <1>4, <1>5, <1>6, <1>8, <2>1, <2>2 DEF Bound
  <2> QED
    BY <1>1, <2>3, AtClient
<1> QED
  BY <1>7, <1>8

LEMMA SkillsStart ==
  ASSUME Shelled, Queues, Registered, NEW t \in Terminal, install_skills(t)
  PROVE  Bound(t)' /\ Local(t)' /\ Outcome(t)'
<1>1. /\ at[t] = "prompt" /\ todo[t] # << >> /\ Job(t).run = "install-skills"
      /\ caller[t] = "shell"
      /\ at'[t] = "client" /\ case' = case /\ todo' = todo /\ caller' = caller /\ world' = world
  BY DEF install_skills, Starts, Go, Shelled, Queues, Queued
<1> DEFINE set == IF Job(t).all THEN Detected("codex") \o Detected("kimi")
                  ELSE <<Job(t).client>>
<1>2. /\ inst'[t].targets = set /\ ~inst'[t].no_skills /\ inst'[t].pkg = world.tool
  BY DEF install_skills, Registered, NoInstall
<1>3. PICK i \in DOMAIN case.todo[t] : Job(t) = case.todo[t][i]
  BY <1>1, JobTyped
<1>4. /\ Job(t).all \/ Job(t).client \in AIClient
      /\ case.clients \subseteq AIClient /\ case \in Cases
  BY <1>1, <1>3, MachinesAssumption DEF Shelled
<1>5. OnlyPlain(case) => case.clients \subseteq Plain /\ (Job(t).all \/ Job(t).client \in Plain)
  BY <1>1, <1>3 DEF OnlyPlain, Installers
<1>6. /\ Aim(t)' = {} /\ ~NoSkills(t)' /\ OnlyPlain(case)' = OnlyPlain(case)
  BY <1>1 DEF Aim, NoSkills, Wanted, Bare, Job, OnlyPlain
<1>7. set \in Seq(AIClient) /\ (OnlyPlain(case) => ToSet(set) \subseteq Plain)
  <2>1. CASE Job(t).all
    <3>1. set \in Seq(case.clients)
      BY <2>1, DetectedAll
    <3>2. \A q \in Seq(case.clients) : q \in Seq(AIClient) /\ ToSet(q) \subseteq case.clients
      BY <1>4, ToSetIn
    <3> HIDE DEF set
    <3> QED
      BY <1>5, <3>1, <3>2
  <2>2. CASE ~Job(t).all
    <3>1. set = <<Job(t).client>>
      BY <2>2
    <3>2. <<Job(t).client>> \in Seq(AIClient)
      BY <1>4, <2>2
    <3> QED
      BY <1>5, <2>2, <3>1, <3>2, OneLined
  <2> QED
    BY <2>1, <2>2
<1> HIDE DEF set
<1>8. Bound(t)'
  BY <1>1, <1>2, <1>6, <1>7 DEF Bound
<1> QED
  BY <1>1, <1>8, AtClient

LEMMA ClientStarts ==
  ASSUME Shelled, Queues, Registered, NEW t \in Terminal, Walks(t), Bound(t),
         install_client(t)
  PROVE  Bound(t)' /\ Local(t)' /\ Outcome(t)'
<1>1. at[t] = "client" /\ UNCHANGED <<world, config, claude, codex>>
  BY DEF install_client, Runs, files, homes
<1>2. CASE inst[t].targets = << >>
  <2>1. Finish(t, IF inst[t].errors THEN "error" ELSE "ok")
    BY <1>2 DEF install_client
  <2>2. CASE inst[t].errors
    BY <2>1, <2>2, FinishesBadly
  <2>3. CASE ~inst[t].errors
    BY <1>1, <1>2, <2>1, <2>3, FinishesWell
  <2> QED
    BY <2>2, <2>3
<1>3. CASE inst[t].targets # << >>
  <2>1. /\ inst' = inst /\ at'[t] \in {"mcp_get", "claude_read", "codex_read", "skills", "plain_plan"}
        /\ at'[t] = "mcp_get" => Client(t) = "claude-code" /\ inst[t].no_skills
        /\ at'[t] = "claude_read" => Client(t) = "claude-code" /\ ~inst[t].no_skills
        /\ at'[t] = "codex_read" => Client(t) = "codex" /\ ~inst[t].no_skills
        /\ at'[t] = "skills" => Client(t) = "kimi" /\ inst[t].skills_only
        /\ at'[t] = "plain_plan" => /\ Client(t) # "claude-code"
                                    /\ Client(t) = "codex" => inst[t].no_skills
    BY <1>3 DEF install_client, Go, Shelled
  <2>2. at[t] \in InstallPc /\ at'[t] \in InstallPc \ {"client"}
    BY <1>1, <2>1 DEF InstallPc
  <2>3. /\ Aim(t)' = Aim(t) /\ NoSkills(t)' = NoSkills(t) /\ Client(t)' = Client(t)
    BY <2>1, <2>2, SameAim DEF Client
  <2>4. /\ inst[t].no_skills <=> NoSkills(t)
        /\ inst[t].skills_only => Aim(t) = {}
    BY <2>2 DEF Bound
  <2>5. Touches(t) /\ About(t)' = About(t)
    BY <1>1, <2>1 DEF Touches, About
  <2>6. Bound(t)'
    BY <1>3, <2>2, <2>5, GoesOn
  <2>7. Local(t)' /\ Outcome(t)'
    BY <2>1, <2>3, <2>4
       DEF Local, Outcome, FilePc, CodexPc, PluginPc, EntryPc, AllowPc
  <2> QED
    BY <2>6, <2>7
<1> QED
  BY <1>2, <1>3

\* The entry in its file is all that such a client needs.
LEMMA EntryIsAll ==
  ASSUME NEW t \in Terminal, NEW x \in AIClient, x # "claude-code", x = "codex" => NoSkills(t)
  PROVE  /\ "ours" \in ToSet(config[x]) => Installed(x, NoSkills(t))
         /\ (NoSkills(t)' = NoSkills(t) /\ "ours" \in ToSet(config'[x])) =>
              Installed(x, NoSkills(t))'
BY DEF Installed, AIClient

LEMMA PlainInstalls ==
  ASSUME Shelled, Queues, Registered, AllLined, NEW t \in Terminal, Walks(t), Bound(t),
         Local(t), PlainStep(t)
  PROVE  Bound(t)' /\ Local(t)' /\ Outcome(t)'
<1>1. DOMAIN inst = Terminal /\ DOMAIN inst[t] = InstallRegister /\ DOMAIN at = Terminal
      /\ DOMAIN told = Terminal /\ caller[t] \in {"shell", "update_after"}
  BY DEF Registered, Shelled
\* The work for a client that has a file of its own.
<1>2. ASSUME at[t] \in FilePc
      PROVE  /\ inst[t].targets # << >> /\ Client(t) \in AIClient \ {"claude-code"}
             /\ Client(t) = "codex" => NoSkills(t)
             /\ Client(t) \in File /\ FileOf(Client(t)) = Client(t)
             /\ at[t] \in Busy /\ at[t] \in InstallPc
             /\ inst[t].skills_only => Client(t) \notin Aim(t)
  <2>1. at[t] \in Busy /\ at[t] \in InstallPc
    BY <1>2 DEF FilePc, Busy, InstallPc
  <2>2. inst[t].targets \in Seq(AIClient) /\ inst[t].targets # << >>
    BY <2>1 DEF Bound, Busy
  <2>3. Client(t) \in AIClient
    BY <2>2, HeadAndTail DEF Client
  <2>4. inst[t].skills_only => Client(t) \notin Aim(t)
    BY <2>1 DEF Bound
  <2> QED
    BY <1>2, <2>1, <2>2, <2>3, <2>4 DEF Local, FileOf, AIClient, File
\* A step of it.
<1>3. ASSUME at[t] \in FilePc, at'[t] \in FilePc, Touches(t), About(t)' = About(t)
      PROVE  /\ Bound(t)' /\ Aim(t)' = Aim(t) /\ NoSkills(t)' = NoSkills(t)
             /\ Client(t)' = Client(t)
  <2>1. at[t] \in InstallPc /\ at'[t] \in InstallPc \ {"client"} /\ inst[t].targets # << >>
    BY <1>2, <1>3 DEF FilePc, InstallPc
  <2> QED
    BY <1>3, <2>1, GoesOn, SameAim DEF About, Client
\* Its end.
<1>4. ASSUME at[t] \in {"skills", "extract", "stamp"}, at'[t] = "client", config' = config,
             Touches(t), NEW r, Set(t, r),
             DOMAIN r \cap {"no_skills", "skills_only", "pkg", "errors"} = {},
             "targets" \in DOMAIN r, r["targets"] = Rest(t)
      PROVE  Bound(t)' /\ Local(t)' /\ Outcome(t)'
  <2>1. at[t] \in FilePc /\ at[t] \in InstallPc /\ at'[t] \in InstallPc
    BY <1>4 DEF FilePc, InstallPc
  <2>2. /\ inst'[t].targets = Tail(inst[t].targets)
        /\ inst'[t].no_skills = inst[t].no_skills /\ inst'[t].skills_only = inst[t].skills_only
        /\ inst'[t].pkg = inst[t].pkg /\ inst'[t].errors = inst[t].errors
    BY <1>1, <1>4 DEF Set, Over, InstallRegister, Rest
  <2>3. PICK x : x = Client(t)
    OBVIOUS
  <2>4. x \in Aim(t) => "ours" \in ToSet(config'[x])
    BY <1>4, <2>3 DEF Local
  <2>5. NoSkills(t)' = NoSkills(t)
    BY <2>1, SameAim
  <2>6. x \in AIClient /\ x # "claude-code" /\ (x = "codex" => NoSkills(t))
    BY <1>2, <2>1, <2>3
  <2>7. x \in Aim(t) => Installed(x, NoSkills(t))'
    BY <2>4, <2>5, <2>6, EntryIsAll
  <2>8. Bound(t)'
    BY <1>2, <1>4, <2>1, <2>2, <2>3, <2>7, GetsOn
  <2> QED
    BY <1>4, <2>8, AtClient
<1>5. CASE native_fails(t)
  <2>1. at[t] = "native_fails" /\ UNCHANGED <<world, config, claude, codex>>
    BY <1>5 DEF native_fails, Runs, files, homes
  <2>2. CASE inst[t].all
    <3>1. Go(t, "client") /\ Set(t, [targets |-> Rest(t), errors |-> TRUE])
      BY <1>5, <2>2 DEF native_fails
    <3>2. at'[t] = "client" /\ at[t] \in Busy /\ Touches(t)
      BY <1>1, <2>1, <3>1 DEF Go, Busy, InstallPc, Touches
    <3>3. /\ inst'[t].targets = Tail(inst[t].targets)
          /\ inst'[t].no_skills = inst[t].no_skills /\ inst'[t].skills_only = inst[t].skills_only
          /\ inst'[t].pkg = inst[t].pkg /\ inst'[t].errors
      BY <1>1, <3>1 DEF Set, Over, InstallRegister, Rest
    <3>4. PICK x : x = Client(t)
      OBVIOUS
    <3>5. Bound(t)'
      BY <3>2, <3>3, <3>4, GetsOn
    <3> QED
      BY <3>2, <3>5, AtClient
  <2>3. CASE ~inst[t].all
    BY <1>5, <2>3, FinishesBadly DEF native_fails
  <2> QED
    BY <2>2, <2>3
<1>6. CASE give_up(t)
  BY <1>6, FinishesBadly DEF give_up
<1>7. CASE plain_plan(t)
  <2> DEFINE plan == build_plan(Client(t), config[Client(t)])
  <2>1. at[t] = "plain_plan" /\ UNCHANGED <<world, config, claude, codex>> /\ at[t] \in FilePc
    BY <1>7 DEF plain_plan, Runs, files, homes, FilePc
  <2>2. CASE ~plan.ok
    BY <1>7, <2>2, FinishesBadly DEF plain_plan
  <2>3. CASE plan.ok
    <3>1. Go(t, "plain_backup") /\ Set(t, [plan |-> plan.content])
      BY <1>7, <2>3 DEF plain_plan
    <3>2. "ours" \in ToSet(plan.content)
      BY <1>2, <2>1, <2>3, PlanAdds DEF AllLined
    <3> HIDE DEF plan
    <3>3. /\ inst'[t].plan = plan.content /\ About(t)' = About(t)
          /\ at'[t] = "plain_backup" /\ Touches(t)
      BY <1>1, <2>1, <3>1 DEF Go, Set, Over, InstallRegister, About, Touches
    <3>4. at'[t] \in FilePc /\ "ours" \in ToSet(inst'[t].plan)
      BY <3>2, <3>3 DEF FilePc
    <3> QED
      BY <1>2, <1>3, <2>1, <3>3, <3>4
         DEF Local, Outcome, FilePc, CodexPc, PluginPc, EntryPc, AllowPc
  <2> QED
    BY <2>2, <2>3
<1>8. CASE plain_backup(t)
  <2>1. /\ at[t] = "plain_backup" /\ UNCHANGED <<world, config, claude, codex, inst>>
        /\ at[t] \in FilePc
        /\ \/ at'[t] = "skills" /\ config[Client(t)] = inst[t].plan
           \/ at'[t] = "plain_write"
    BY <1>1, <1>8 DEF plain_backup, Backup, Go, Runs, homes, FilePc
  <2>2. at'[t] \in FilePc /\ Touches(t) /\ About(t)' = About(t)
    BY <2>1 DEF FilePc, Touches, About
  <2>3. "ours" \in ToSet(inst[t].plan)
    BY <2>1 DEF Local
  <2> QED
    BY <1>2, <1>3, <2>1, <2>2, <2>3
       DEF Local, Outcome, FilePc, CodexPc, PluginPc, EntryPc, AllowPc
<1>9. CASE plain_write(t)
  <2>1. /\ at[t] = "plain_write" /\ UNCHANGED <<world, claude, codex, inst>>
        /\ at[t] \in FilePc /\ at'[t] = "skills"
        /\ config' = [config EXCEPT ![Client(t)] = inst[t].plan]
    BY <1>1, <1>9 DEF plain_write, Write, Go, Runs, homes, FilePc
  <2>2. at'[t] \in FilePc /\ About(t)' = About(t)
    BY <2>1 DEF FilePc, About
  <2>3. Touches(t)
    BY <1>2, <2>1 DEF Touches, AllLined
  <2>4. "ours" \in ToSet(config'[Client(t)])
    BY <1>2, <2>1 DEF Local, AllLined
  <2> QED
    BY <1>2, <1>3, <2>1, <2>2, <2>3, <2>4
       DEF Local, Outcome, FilePc, CodexPc, PluginPc, EntryPc, AllowPc
<1>10. CASE TornWrite(t)
  <2>1. at'[t] = "prompt" /\ told'[t] = "killed"
    BY <1>1, <1>10 DEF TornWrite
  <2> QED
    BY <2>1, EndsBadly
<1>11. CASE _ensure_skills(t)
  <2>1. at[t] = "skills" /\ UNCHANGED <<world, config, claude, codex>> /\ Touches(t)
    BY <1>11 DEF _ensure_skills, Runs, files, homes, Touches
  <2>2. CASE Client(t) # "kimi" \/ inst[t].no_skills \/ inst[t].offline
    <3>1. at'[t] = "client" /\ Set(t, [targets |-> Rest(t)])
      BY <1>1, <1>11, <2>2 DEF _ensure_skills, NextClient, Go
    <3> QED
      BY <1>4, <2>1, <3>1
  <2>3. CASE ~(Client(t) # "kimi" \/ inst[t].no_skills \/ inst[t].offline)
    <3> DEFINE tar == IF inst[t].tar = None THEN world.main ELSE inst[t].tar
    <3>1. CASE Go(t, "extract") /\ Set(t, [tar |-> tar, left |-> Shipped[tar]])
      <4> HIDE DEF tar
      <4>1. About(t)' = About(t) /\ at'[t] = "extract"
        BY <1>1, <3>1 DEF Go, Set, Over, InstallRegister, About
      <4>2. at[t] \in FilePc /\ at'[t] \in FilePc
        BY <2>1, <4>1 DEF FilePc
      <4> QED
        BY <1>2, <1>3, <2>1, <4>1, <4>2
           DEF Local, Outcome, FilePc, CodexPc, PluginPc, EntryPc, AllowPc
    <3>2. CASE inst[t].skills_only /\ GoBadly(t, "offline", "give_up") /\ UNCHANGED inst
      <4>1. About(t)' = About(t) /\ at'[t] = "give_up"
        BY <1>1, <3>2 DEF GoBadly, About
      <4>2. /\ at[t] \in FilePc /\ at'[t] \in InstallPc \ {"client"}
        BY <2>1, <4>1 DEF FilePc, InstallPc
      <4>3. Bound(t)'
        BY <1>2, <2>1, <4>1, <4>2, GoesOn
      <4> QED
        BY <4>1, <4>3
           DEF Local, Outcome, FilePc, CodexPc, PluginPc, EntryPc, AllowPc
    <3>3. CASE GoBadly(t, "offline", "client") /\ Set(t, [targets |-> Rest(t), offline |-> TRUE])
      <4>1. at'[t] = "client"
        BY <1>1, <3>3 DEF GoBadly
      <4> QED
        BY <1>4, <2>1, <3>3, <4>1
    <3> QED
      BY <1>11, <2>3, <3>1, <3>2, <3>3 DEF _ensure_skills
  <2> QED
    BY <2>2, <2>3
<1>12. CASE extract_skills(t)
  <2>1. /\ at[t] = "extract" /\ UNCHANGED <<world, config, claude, codex>> /\ Touches(t)
        /\ at'[t] \in {"stamp", "extract"}
    BY <1>1, <1>12 DEF extract_skills, Runs, files, Touches, Go
  <2>2. About(t)' = About(t)
    <3>1. CASE inst' = inst
      BY <3>1 DEF About
    <3>2. ASSUME NEW s, Set(t, [left |-> inst[t].left \ {s}])
          PROVE  About(t)' = About(t)
      BY <1>1, <3>2 DEF About, Set, Over, InstallRegister
    <3> QED
      BY ONLY <1>12, <3>1, <3>2 DEF extract_skills
  <2>3. at[t] \in FilePc /\ at'[t] \in FilePc
    BY <2>1 DEF FilePc
  <2> QED
    BY <1>2, <1>3, <2>1, <2>2, <2>3
       DEF Local, Outcome, FilePc, CodexPc, PluginPc, EntryPc, AllowPc
<1>13. CASE ExtractFails(t)
  <2>1. at[t] = "extract" /\ UNCHANGED <<world, config, claude, codex>> /\ Touches(t)
    BY <1>13 DEF ExtractFails, Runs, files, homes, Touches
  <2>2. CASE inst[t].skills_only
    <3>1. at'[t] = "give_up" /\ inst' = inst
      BY <1>1, <1>13, <2>2 DEF ExtractFails, GoBadly
    <3>2. About(t)' = About(t) /\ at[t] \in FilePc /\ at'[t] \in InstallPc \ {"client"}
      BY <2>1, <3>1 DEF About, FilePc, InstallPc
    <3>3. Bound(t)'
      BY <1>2, <2>1, <3>2, GoesOn
    <3> QED
      BY <3>1, <3>3
         DEF Local, Outcome, FilePc, CodexPc, PluginPc, EntryPc, AllowPc
  <2>3. CASE ~inst[t].skills_only
    <3>1. at'[t] = "client" /\ Set(t, [targets |-> Rest(t)])
      BY <1>1, <1>13, <2>3 DEF ExtractFails, GoBadly
    <3> QED
      BY <1>4, <2>1, <3>1
  <2> QED
    BY <2>2, <2>3
<1>14. CASE stamp_skills_dir(t)
  <2>1. /\ at[t] = "stamp" /\ UNCHANGED <<world, config, claude, codex>> /\ Touches(t)
        /\ at'[t] = "client" /\ Set(t, [targets |-> Rest(t)])
    BY <1>1, <1>14 DEF stamp_skills_dir, Runs, files, Touches, NextClient, Go
  <2> QED
    BY <1>4, <2>1
<1> QED
  BY <1>5, <1>6, <1>7, <1>8, <1>9, <1>10, <1>11, <1>12, <1>13, <1>14,
     InstallStarts, SkillsStart, ClientStarts DEF PlainStep

\* A client that has failed gets nothing more.
LEMMA AtFails ==
  \A t \in Terminal : at'[t] \in {"native_fails", "give_up"} => Local(t)' /\ Outcome(t)'
BY DEF Local, Outcome, FilePc, CodexPc, PluginPc, EntryPc, AllowPc

LEMMA ClaudeInstalls ==
  ASSUME Shelled, Registered, AllLined, EntryKnown, NEW t \in Terminal, Walks(t), Bound(t),
         Local(t), ClaudeStep(t)
  PROVE  Bound(t)' /\ Local(t)' /\ Outcome(t)'
<1> DEFINE ClaudePc == PluginPc \cup EntryPc \cup AllowPc
<1>0. DOMAIN inst = Terminal /\ DOMAIN inst[t] = InstallRegister /\ DOMAIN at = Terminal
  BY DEF Registered, Shelled
<1>1. /\ at[t] \in ClaudePc /\ at[t] \in InstallPc /\ at[t] \in Busy
      /\ world' = world /\ codex' = codex
  BY DEF ClaudeStep, claude_read, claude_market, claude_update, claude_plugin,
     claude_mcp_get, claude_mcp_remove, claude_mcp_add, _apply_claude_allowlist,
     allow_backup, allow_write, PluginPc, EntryPc, AllowPc, InstallPc, Busy, Runs, homes, clients
<1>2. /\ Client(t) = "claude-code" /\ inst[t].targets # << >>
      /\ at[t] \in PluginPc => ~NoSkills(t)
      /\ at[t] \in EntryPc => NoSkills(t)
      /\ at[t] \in AllowPc => ClaudeDone(t)
  BY <1>1 DEF Local, Bound, Busy
\* A step of the work, and its end.
<1>3. ASSUME at'[t] \in InstallPc \ {"client"}, config' = config, About(t)' = About(t)
      PROVE  /\ Bound(t)' /\ NoSkills(t)' = NoSkills(t) /\ Client(t)' = Client(t)
  <2>1. Touches(t)
    BY <1>1, <1>2, <1>3 DEF Touches
  <2> QED
    BY <1>1, <1>2, <1>3, <2>1, GoesOn, SameAim DEF About, Client
<1>4. ASSUME at'[t] = "client", NextClient(t), at[t] \in AllowPc, claude' = claude,
             \A f \in File \ {"settings"} : config'[f] = config[f],
             "rule" \in ToSet(config'["settings"])
      PROVE  Bound(t)' /\ Local(t)' /\ Outcome(t)'
  <2>1. /\ inst'[t].targets = Tail(inst[t].targets)
        /\ inst'[t].no_skills = inst[t].no_skills /\ inst'[t].skills_only = inst[t].skills_only
        /\ inst'[t].pkg = inst[t].pkg /\ inst'[t].errors = inst[t].errors
    BY <1>0, <1>4 DEF NextClient, Set, Over, InstallRegister, Rest
  <2>2. Touches(t)
    BY <1>1, <1>2, <1>4 DEF Touches, FileOf
  <2>3. NoSkills(t)' = NoSkills(t)
    BY <1>1, <1>4, SameAim DEF InstallPc
  <2>4. Installed("claude-code", NoSkills(t))'
    BY <1>2, <1>4, <2>3 DEF Installed, ClaudeDone, Shown
  <2>5. PICK x : x = "claude-code"
    OBVIOUS
  <2>6. Installed(x, NoSkills(t))'
    BY <2>4, <2>5
  <2>7. Bound(t)'
    BY <1>1, <1>2, <1>4, <2>1, <2>2, <2>5, <2>6, GetsOn
  <2> QED
    BY <1>4, <2>7, AtClient
\* A run of the program.
<1>5. ASSUME NEW done, NEW passes, NEW then \in InstallPc \ {"client"}, Program(t, done, passes, then),
             config' = config, inst' = inst
      PROVE  /\ Bound(t)' /\ NoSkills(t)' = NoSkills(t) /\ Client(t)' = Client(t)
             /\ \/ at'[t] = "native_fails" /\ Local(t)' /\ Outcome(t)'
                \/ at'[t] = then /\ passes /\ claude' = done
  <2>1. \/ at'[t] = "native_fails"
        \/ at'[t] = then /\ passes /\ claude' = done
    BY <1>0, <1>5 DEF Program, Go, GoBadly
  <2>2. at'[t] \in InstallPc \ {"client"} /\ About(t)' = About(t)
    BY <1>5, <2>1 DEF InstallPc, About
  <2> QED
    BY <1>3, <1>5, <2>1, <2>2, AtFails
<1> USE DEF Outcome
<1>6. CASE claude_read(t)
  <2>1. /\ at[t] = "claude_read" /\ config' = config /\ at'[t] \in {"claude_market", "native_fails"}
    BY <1>0, <1>6 DEF claude_read, Runs, Go, GoBadly, files
  <2>2. About(t)' = About(t)
    <3>1. CASE inst' = inst
      BY <3>1 DEF About
    <3>2. CASE Set(t, [before |-> claude.plugin])
      BY <1>0, <3>2 DEF About, Set, Over, InstallRegister
    <3> QED
      BY <1>6, <3>1, <3>2 DEF claude_read
  <2>3. /\ Bound(t)' /\ NoSkills(t)' = NoSkills(t) /\ Client(t)' = Client(t)
    BY <1>3, <2>1, <2>2 DEF InstallPc
  <2> QED
    BY <1>2, <2>1, <2>3 DEF Local, FilePc, CodexPc, PluginPc, EntryPc, AllowPc
<1>7. CASE claude_market(t)
  <2> DEFINE done == IF claude.market # "none" THEN claude
                     ELSE [claude EXCEPT !.market = "ours", !.root = world.main]
             passes == marketplace_is_canonical(done)
  <2>1. /\ at[t] = "claude_market" /\ config' = config /\ inst' = inst
        /\ Program(t, done, passes, "claude_update")
    BY <1>7 DEF claude_market, Runs, files
  <2> HIDE DEF done, passes
  <2>2. /\ Bound(t)' /\ NoSkills(t)' = NoSkills(t) /\ Client(t)' = Client(t)
        /\ \/ at'[t] = "native_fails" /\ Local(t)' /\ Outcome(t)'
           \/ at'[t] = "claude_update"
    BY <1>5, <2>1 DEF InstallPc
  <2> QED
    BY <1>2, <2>1, <2>2 DEF Local, FilePc, CodexPc, PluginPc, EntryPc, AllowPc
<1>8. CASE claude_update(t)
  <2> DEFINE done == [claude EXCEPT !.root = world.main]
             passes == marketplace_is_canonical(done)
  <2>1. /\ at[t] = "claude_update" /\ config' = config /\ inst' = inst
        /\ Program(t, done, passes, "claude_plugin")
    BY <1>8 DEF claude_update, Runs, files
  <2> HIDE DEF done, passes
  <2>2. /\ Bound(t)' /\ NoSkills(t)' = NoSkills(t) /\ Client(t)' = Client(t)
        /\ \/ at'[t] = "native_fails" /\ Local(t)' /\ Outcome(t)'
           \/ at'[t] = "claude_plugin"
    BY <1>5, <2>1 DEF InstallPc
  <2> QED
    BY <1>2, <2>1, <2>2 DEF Local, FilePc, CodexPc, PluginPc, EntryPc, AllowPc
<1>9. CASE claude_plugin(t)
  <2> DEFINE done == IF inst[t].before = None
                     THEN [claude EXCEPT !.plugin = claude.root, !.enabled = TRUE]
                     ELSE [claude EXCEPT !.plugin = claude.root]
             passes == marketplace_is_canonical(done) /\ done.plugin # None /\ done.enabled
  <2>1. /\ at[t] = "claude_plugin" /\ config' = config /\ inst' = inst
        /\ Program(t, done, passes, "allow_plan")
    BY <1>9 DEF claude_plugin, Runs, files
  <2>2. passes => done.plugin # None /\ done.enabled
    OBVIOUS
  <2> HIDE DEF done, passes
  <2>3. /\ Bound(t)' /\ NoSkills(t)' = NoSkills(t) /\ Client(t)' = Client(t)
        /\ \/ at'[t] = "native_fails" /\ Local(t)' /\ Outcome(t)'
           \/ at'[t] = "allow_plan" /\ passes /\ claude' = done
    BY <1>5, <2>1 DEF InstallPc
  <2>4. at'[t] # "native_fails" => ClaudeDone(t)'
    BY <1>2, <2>1, <2>2, <2>3 DEF ClaudeDone, PluginPc, None
  <2> QED
    BY <1>2, <2>1, <2>3, <2>4 DEF Local, FilePc, CodexPc, PluginPc, EntryPc, AllowPc
<1>10. CASE claude_mcp_get(t)
  <2>1. /\ at[t] = "mcp_get" /\ config' = config /\ inst' = inst /\ claude' = claude
        /\ at'[t] \in {"allow_plan", "mcp_remove", "mcp_add", "native_fails"}
        /\ at'[t] = "allow_plan" => Shown = "ours"
    BY <1>0, <1>10 DEF claude_mcp_get, Runs, Go, GoBadly, clients, _claude_mcp_is_canonical
  <2>2. /\ Bound(t)' /\ NoSkills(t)' = NoSkills(t) /\ Client(t)' = Client(t)
    BY <1>3, <2>1 DEF InstallPc, About
  <2>3. at'[t] = "allow_plan" => ClaudeDone(t)'
    BY <1>2, <2>1, <2>2 DEF ClaudeDone, EntryPc, Shown
  <2> QED
    BY <1>2, <2>1, <2>2, <2>3 DEF Local, FilePc, CodexPc, PluginPc, EntryPc, AllowPc
<1>11. CASE claude_mcp_remove(t)
  <2> DEFINE done == [claude EXCEPT !.user = "none"]
  <2>1. /\ at[t] = "mcp_remove" /\ config' = config /\ inst' = inst
        /\ Program(t, done, TRUE, "mcp_add")
    BY <1>11 DEF claude_mcp_remove, Runs, files
  <2> HIDE DEF done
  <2>2. /\ Bound(t)' /\ NoSkills(t)' = NoSkills(t) /\ Client(t)' = Client(t)
        /\ \/ at'[t] = "native_fails" /\ Local(t)' /\ Outcome(t)'
           \/ at'[t] = "mcp_add"
    BY <1>5, <2>1 DEF InstallPc
  <2> QED
    BY <1>2, <2>1, <2>2 DEF Local, FilePc, CodexPc, PluginPc, EntryPc, AllowPc
<1>12. CASE claude_mcp_add(t)
  <2> DEFINE done == IF claude.user = "none" THEN [claude EXCEPT !.user = "ours"]
                     ELSE claude
             passes == claude.user = "none" /\ ~claude.project
  <2>1. /\ at[t] = "mcp_add" /\ config' = config /\ inst' = inst
        /\ Program(t, done, passes, "allow_plan")
    BY <1>12 DEF claude_mcp_add, Runs, files
  <2>2. passes => ~done.project /\ done.user = "ours"
    BY DEF EntryKnown
  <2> HIDE DEF done, passes
  <2>3. /\ Bound(t)' /\ NoSkills(t)' = NoSkills(t) /\ Client(t)' = Client(t)
        /\ \/ at'[t] = "native_fails" /\ Local(t)' /\ Outcome(t)'
           \/ at'[t] = "allow_plan" /\ passes /\ claude' = done
    BY <1>5, <2>1 DEF InstallPc
  <2>4. at'[t] # "native_fails" => ClaudeDone(t)'
    BY <1>2, <2>1, <2>2, <2>3 DEF ClaudeDone, EntryPc, Shown
  <2> QED
    BY <1>2, <2>1, <2>3, <2>4 DEF Local, FilePc, CodexPc, PluginPc, EntryPc, AllowPc
<1>13. CASE _apply_claude_allowlist(t)
  <2> DEFINE plan == build_allowlist_plan(config["settings"])
  <2>1. at[t] = "allow_plan" /\ config' = config /\ claude' = claude
    BY <1>13 DEF _apply_claude_allowlist, Runs, files, homes
  <2>2. plan.ok => "rule" \in ToSet(plan.content)
    BY RuleAdds DEF AllLined, File
  <2>3. \/ at'[t] = "native_fails" /\ inst' = inst
        \/ plan.ok /\ at'[t] = "allow_backup" /\ Set(t, [plan |-> plan.content])
    BY <1>0, <1>13 DEF _apply_claude_allowlist, Go
  <2> HIDE DEF plan
  <2>4. About(t)' = About(t) /\ (at'[t] # "native_fails" => inst'[t].plan = plan.content)
    BY <1>0, <2>3 DEF About, Set, Over, InstallRegister
  <2>5. /\ Bound(t)' /\ NoSkills(t)' = NoSkills(t) /\ Client(t)' = Client(t)
    BY <1>3, <2>1, <2>3, <2>4 DEF InstallPc
  <2>6. ClaudeDone(t)'
    BY <1>2, <2>1, <2>5 DEF ClaudeDone, AllowPc, Shown
  <2>7. CASE at'[t] = "native_fails"
    BY <2>5, <2>7, AtFails
  <2>8. CASE at'[t] = "allow_backup"
    BY <1>2, <2>2, <2>3, <2>4, <2>5, <2>6, <2>8
       DEF Local, FilePc, CodexPc, PluginPc, EntryPc, AllowPc
  <2> QED
    BY <2>3, <2>7, <2>8
<1>14. CASE allow_backup(t)
  <2>1. at[t] = "allow_backup" /\ config' = config /\ claude' = claude
    BY <1>14 DEF allow_backup, Runs, files, homes
  <2>2. at[t] \in AllowPc /\ "rule" \in ToSet(inst[t].plan)
    BY <2>1 DEF AllowPc, Local
  <2>3. CASE config["settings"] = inst[t].plan
    <3>1. NextClient(t) /\ at'[t] = "client"
      BY <1>0, <1>14, <2>3 DEF allow_backup, NextClient, Go
    <3> QED
      BY <1>4, <2>1, <2>2, <2>3, <3>1
  <2>4. CASE config["settings"] # inst[t].plan
    <3>1. at'[t] = "allow_write" /\ inst' = inst
      BY <1>0, <1>14, <2>4 DEF allow_backup, Backup, Go
    <3>2. /\ Bound(t)' /\ NoSkills(t)' = NoSkills(t) /\ Client(t)' = Client(t)
      BY <1>3, <2>1, <3>1 DEF InstallPc, About
    <3>3. ClaudeDone(t)'
      BY <1>2, <2>1, <2>2, <3>2 DEF ClaudeDone, Shown
    <3> QED
      BY <1>2, <2>2, <3>1, <3>2, <3>3
         DEF Local, FilePc, CodexPc, PluginPc, EntryPc, AllowPc
  <2> QED
    BY <2>3, <2>4
<1>15. CASE allow_write(t)
  <2>1. /\ at[t] = "allow_write" /\ claude' = claude
        /\ config' = [config EXCEPT !["settings"] = inst[t].plan]
        /\ NextClient(t) /\ at'[t] = "client"
    BY <1>0, <1>15 DEF allow_write, Runs, homes, NextClient, Go
  <2>2. at[t] \in AllowPc /\ "rule" \in ToSet(config'["settings"])
    BY <2>1 DEF AllowPc, Local, AllLined, File
  <2>3. \A f \in File \ {"settings"} : config'[f] = config[f]
    BY <2>1 DEF AllLined
  <2> QED
    BY <1>4, <2>1, <2>2, <2>3
<1> QED
  BY <1>6, <1>7, <1>8, <1>9, <1>10, <1>11, <1>12, <1>13, <1>14, <1>15 DEF ClaudeStep

LEMMA CodexInstalls ==
  ASSUME Shelled, Registered, AllLined, EntryKnown, NEW t \in Terminal, Walks(t), Bound(t),
         Local(t), CodexStep(t)
  PROVE  Bound(t)' /\ Local(t)' /\ Outcome(t)'
<1>0. DOMAIN inst = Terminal /\ DOMAIN inst[t] = InstallRegister /\ DOMAIN at = Terminal
  BY DEF Registered, Shelled
<1>1. /\ at[t] \in CodexPc /\ at[t] \in InstallPc /\ at[t] \in Busy
      /\ world' = world /\ claude' = claude
  BY DEF CodexStep, codex_read, _snapshot_config, codex_market, codex_verify, codex_mcp,
     codex_backup, codex_write, codex_add, codex_post, migrate_legacy_skills,
     migration_undone, _restore_configs, CodexProgramFails, CodexProgramLacks,
     CodexPc, InstallPc, Busy, Runs, homes, clients
<1>2. /\ Client(t) = "codex" /\ inst[t].targets # << >> /\ ~NoSkills(t)
      /\ at[t] \in {"codex_mcp", "codex_backup", "codex_write", "codex_add", "codex_post"} =>
           inst[t].expected = inst[t].pkg
      /\ at[t] \in {"codex_migrate", "codex_unmove"} /\ "codex" \in Aim(t) =>
           Installed("codex", FALSE)
      /\ inst[t].targets \in Seq(AIClient)
      /\ inst[t].skills_only => "codex" \notin Aim(t)
      /\ OnlyPlain(case) => ToSet(inst[t].targets) \subseteq Plain
      /\ OnlyPlain(case) \/ inst[t].pkg = world.tool
  BY <1>1 DEF Local, Bound, Busy
<1>3. inst[t].pkg = world.tool
  <2>1. "codex" \in ToSet(inst[t].targets)
    BY <1>2, HeadAndTail DEF Client
  <2> QED
    BY <1>2, <2>1 DEF Plain
\* A step of the work, and its end.
<1>4. ASSUME at'[t] \in InstallPc \ {"client"}, About(t)' = About(t),
             \A f \in File \ {"codex"} : config'[f] = config[f]
      PROVE  /\ Bound(t)' /\ NoSkills(t)' = NoSkills(t) /\ Client(t)' = Client(t)
             /\ Aim(t)' = Aim(t) /\ inst'[t].pkg = inst[t].pkg
  <2>1. Touches(t)
    BY <1>1, <1>2, <1>4 DEF Touches, FileOf
  <2> QED
    BY <1>1, <1>2, <1>4, <2>1, GoesOn, SameAim DEF About, Client
<1>5. ASSUME at'[t] = "client", NextClient(t), config' = config, codex' = codex,
             at[t] \in {"codex_migrate", "codex_unmove"}
      PROVE  Bound(t)' /\ Local(t)' /\ Outcome(t)'
  <2>1. /\ inst'[t].targets = Tail(inst[t].targets)
        /\ inst'[t].no_skills = inst[t].no_skills /\ inst'[t].skills_only = inst[t].skills_only
        /\ inst'[t].pkg = inst[t].pkg /\ inst'[t].errors = inst[t].errors
    BY <1>0, <1>5 DEF NextClient, Set, Over, InstallRegister, Rest
  <2>2. Touches(t)
    BY <1>1, <1>5 DEF Touches
  <2>3. NoSkills(t)' = NoSkills(t)
    BY <1>1, <1>5, SameAim DEF InstallPc
  <2>4. "codex" \in Aim(t) => Installed("codex", NoSkills(t))'
    BY <1>1, <1>2, <1>5, <2>3 DEF Installed, Plugin
  <2>5. PICK x : x = "codex"
    OBVIOUS
  <2>6. x \in Aim(t) => Installed(x, NoSkills(t))'
    BY <2>4, <2>5
  <2>7. Bound(t)'
    BY <1>1, <1>2, <1>5, <2>1, <2>2, <2>5, <2>6, GetsOn
  <2> QED
    BY <1>5, <2>7, AtClient
<1>6. ASSUME at'[t] \in CodexPc \cup {"native_fails"}, About(t)' = About(t),
             \A f \in File \ {"codex"} : config'[f] = config[f],
             at'[t] \in {"codex_mcp", "codex_backup", "codex_write", "codex_add", "codex_post"} =>
               inst'[t].expected = inst[t].pkg,
             at'[t] \in {"codex_migrate", "codex_unmove"} /\ "codex" \in Aim(t) =>
               Installed("codex", FALSE)'
      PROVE  Bound(t)' /\ Local(t)' /\ Outcome(t)'
  <2>1. at'[t] \in InstallPc \ {"client"}
    BY <1>6 DEF CodexPc, InstallPc
  <2>2. /\ Bound(t)' /\ NoSkills(t)' = NoSkills(t) /\ Client(t)' = Client(t)
        /\ Aim(t)' = Aim(t) /\ inst'[t].pkg = inst[t].pkg
    BY <1>4, <1>6, <2>1
  <2>3. CASE at'[t] = "native_fails"
    BY <2>2, <2>3, AtFails
  <2>4. CASE at'[t] \in CodexPc
    <3>1. Local(t)'
      BY <1>2, <1>6, <2>2, <2>4 DEF Local, FilePc, CodexPc, PluginPc, EntryPc, AllowPc
    <3>2. Outcome(t)'
      BY <2>4 DEF Outcome, CodexPc
    <3> QED
      BY <2>2, <3>1, <3>2
  <2> QED
    BY <1>6, <2>3, <2>4
<1>7. ASSUME config' = config PROVE \A f \in File \ {"codex"} : config'[f] = config[f]
  BY <1>7
<1>8. ASSUME inst' = inst PROVE About(t)' = About(t)
  BY <1>8 DEF About
<1>9. CASE codex_read(t)
  <2>1. config' = config /\ at'[t] \in {"codex_snapshot", "native_fails"}
    BY <1>0, <1>9 DEF codex_read, Go, files
  <2>2. About(t)' = About(t)
    <3>1. CASE inst' = inst
      BY <1>8, <3>1
    <3>2. ASSUME NEW v, NEW m, Set(t, [before |-> v, market |-> m])
          PROVE  About(t)' = About(t)
      BY <1>0, <3>2 DEF About, Set, Over, InstallRegister
    <3> QED
      BY <1>9, <3>1, <3>2 DEF codex_read
  <2> QED
    BY <1>6, <1>7, <2>1, <2>2 DEF CodexPc
<1>10. CASE _snapshot_config(t)
  <2>1. config' = config /\ at'[t] = "codex_market" /\ Set(t, [snapshot |-> config["codex"]])
    BY <1>0, <1>10 DEF _snapshot_config, Go
  <2>2. About(t)' = About(t)
    BY <1>0, <2>1 DEF About, Set, Over, InstallRegister
  <2> QED
    BY <1>6, <1>7, <2>1, <2>2 DEF CodexPc
<1>11. CASE codex_market(t)
  <2>1. /\ inst' = inst /\ at'[t] \in {"codex_verify", "codex_restore"}
        /\ \A f \in File \ {"codex"} : config'[f] = config[f]
    BY <1>0, <1>11 DEF codex_market, Go, GoBadly, AllLined
  <2> QED
    BY <1>6, <1>8, <2>1 DEF CodexPc
<1>12. CASE codex_verify(t)
  <2>1. config' = config /\ at'[t] \in {"codex_add", "codex_mcp", "codex_restore"}
    BY <1>0, <1>12 DEF codex_verify, Go, files
  <2>2. CASE at'[t] = "codex_restore"
    <3>1. inst' = inst
      BY <1>0, <1>12, <2>2 DEF codex_verify, Go
    <3> QED
      BY <1>6, <1>7, <1>8, <2>1, <2>2, <3>1 DEF CodexPc
  <2>3. CASE at'[t] # "codex_restore"
    <3>1. codex.root = inst[t].pkg /\ Set(t, [expected |-> codex.root])
      BY <1>0, <1>12, <2>3 DEF codex_verify, Go, verify_marketplace_snapshot
    <3>2. About(t)' = About(t) /\ inst'[t].expected = inst[t].pkg
      BY <1>0, <3>1 DEF About, Set, Over, InstallRegister
    <3> QED
      BY <1>6, <1>7, <2>1, <3>2 DEF CodexPc
  <2> QED
    BY <2>2, <2>3
<1>13. CASE codex_mcp(t)
  <2> DEFINE plan == build_plan("codex", config["codex"])
  <2>1. at[t] = "codex_mcp" /\ config' = config /\ at'[t] \in {"codex_backup", "codex_restore"}
    BY <1>0, <1>13 DEF codex_mcp, Go, files, Runs
  <2>2. inst' = inst \/ Set(t, [plan |-> plan.content])
    BY <1>13 DEF codex_mcp
  <2> HIDE DEF plan
  <2>3. About(t)' = About(t) /\ inst'[t].expected = inst[t].expected
    BY <1>0, <2>2 DEF About, Set, Over, InstallRegister
  <2> QED
    BY <1>2, <1>6, <1>7, <2>1, <2>3 DEF CodexPc
<1>14. CASE codex_backup(t)
  <2>1. /\ at[t] = "codex_backup" /\ config' = config /\ inst' = inst
        /\ at'[t] \in {"codex_write", "codex_add"}
    BY <1>0, <1>14 DEF codex_backup, Backup, Go, Runs
  <2> QED
    BY <1>2, <1>6, <1>7, <1>8, <2>1 DEF CodexPc
<1>15. CASE codex_write(t)
  <2>1. /\ at[t] = "codex_write" /\ inst' = inst /\ at'[t] = "codex_add"
        /\ \A f \in File \ {"codex"} : config'[f] = config[f]
    BY <1>0, <1>15 DEF codex_write, Write, Go, Runs, AllLined
  <2> QED
    BY <1>2, <1>6, <1>8, <2>1 DEF CodexPc
<1>16. CASE codex_add(t)
  <2>1. /\ at[t] = "codex_add" /\ inst' = inst /\ at'[t] \in {"codex_post", "codex_restore"}
        /\ \A f \in File \ {"codex"} : config'[f] = config[f]
    BY <1>0, <1>16 DEF codex_add, Go, GoBadly, Runs, AllLined
  <2> QED
    BY <1>2, <1>6, <1>8, <2>1 DEF CodexPc
<1>17. CASE codex_post(t)
  <2>1. /\ at[t] = "codex_post" /\ config' = config /\ codex' = codex
        /\ at'[t] \in {"codex_migrate", "codex_restore"}
    BY <1>0, <1>17 DEF codex_post, Go, files, homes, Runs
  <2>2. CASE at'[t] = "codex_restore"
    <3>1. inst' = inst
      BY <1>0, <1>17, <2>2 DEF codex_post, Go
    <3> QED
      BY <1>6, <1>7, <1>8, <2>1, <2>2, <3>1 DEF CodexPc
  <2>3. CASE at'[t] = "codex_migrate"
    <3>1. /\ Plugin(config["codex"]) = inst[t].expected
          /\ inst[t].skills_only \/ "ours" \in ToSet(config["codex"])
          /\ Set(t, [left |-> find_owned_legacy_skills(inst[t].expected)])
      BY <1>0, <1>17, <2>3 DEF codex_post, Go, _verified_installed, _verify_mcp_config
    <3>2. About(t)' = About(t)
      BY <1>0, <3>1 DEF About, Set, Over, InstallRegister
    <3>3. "codex" \in Aim(t) => Installed("codex", FALSE)'
      BY <1>1, <1>2, <1>3, <2>1, <3>1 DEF Installed, Plugin
    <3> QED
      BY <1>6, <1>7, <2>1, <2>3, <3>2, <3>3 DEF CodexPc
  <2> QED
    BY <2>1, <2>2, <2>3
\* A move changes none of what the installation leaves.
<1>18. ASSUME at[t] \in {"codex_migrate", "codex_unmove"}, config' = config,
              NEW legacy, codex' = [codex EXCEPT !.legacy = legacy] \/ codex' = codex,
              "codex" \in Aim(t)
       PROVE  Installed("codex", FALSE)'
  <2>1. codex'.cache = codex.cache
    BY <1>18 DEF EntryKnown
  <2> QED
    BY <1>1, <1>2, <1>18, <2>1 DEF Installed, Plugin
<1>19. CASE migrate_legacy_skills(t)
  <2>1. at[t] = "codex_migrate" /\ config' = config
    BY <1>19 DEF migrate_legacy_skills, Runs, files
  <2>2. CASE inst[t].left = {}
    <3>1. NextClient(t) /\ at'[t] = "client" /\ codex' = codex
      BY <1>0, <1>19, <2>2 DEF migrate_legacy_skills, NextClient, Go
    <3> QED
      BY <1>5, <2>1, <3>1
  <2>3. ASSUME NEW s, codex' = [codex EXCEPT !.legacy[s] = "backup"],
               Set(t, [left |-> inst[t].left \ {s}, moved |-> inst[t].moved \cup {s}]),
               Go(t, "codex_migrate")
        PROVE  Bound(t)' /\ Local(t)' /\ Outcome(t)'
    <3>1. About(t)' = About(t) /\ at'[t] = "codex_migrate"
      BY <1>0, <2>3 DEF About, Set, Over, InstallRegister, Go
    <3>2. PICK legacy : legacy = [codex.legacy EXCEPT ![s] = "backup"]
      OBVIOUS
    <3>3. codex' = [codex EXCEPT !.legacy = legacy]
      BY <2>3, <3>2
    <3>4. "codex" \in Aim(t) => Installed("codex", FALSE)'
      BY <1>18, <2>1, <3>3
    <3> QED
      BY <1>6, <1>7, <2>1, <3>1, <3>4 DEF CodexPc
  <2>4. CASE GoBadly(t, "move", "codex_unmove") /\ UNCHANGED <<inst, codex>>
    <3>1. at'[t] = "codex_unmove" /\ inst' = inst /\ codex' = codex
      BY <1>0, <2>4 DEF GoBadly
    <3>2. "codex" \in Aim(t) => Installed("codex", FALSE)'
      BY <1>18, <2>1, <3>1
    <3> QED
      BY <1>6, <1>7, <1>8, <2>1, <3>1, <3>2 DEF CodexPc
  <2> QED
    BY <1>19, <2>2, <2>3, <2>4 DEF migrate_legacy_skills
<1>20. CASE migration_undone(t)
  <2>1. at[t] = "codex_unmove" /\ config' = config
    BY <1>20 DEF migration_undone, Runs, files
  <2>2. CASE inst[t].moved = {}
    <3>1. NextClient(t) /\ at'[t] = "client" /\ codex' = codex
      BY <1>0, <1>20, <2>2 DEF migration_undone, NextClient, Go
    <3> QED
      BY <1>5, <2>1, <3>1
  <2>3. ASSUME NEW s, codex' = [codex EXCEPT !.legacy[s] = "owned"],
               Set(t, [moved |-> inst[t].moved \ {s}]), Go(t, "codex_unmove")
        PROVE  Bound(t)' /\ Local(t)' /\ Outcome(t)'
    <3>1. About(t)' = About(t) /\ at'[t] = "codex_unmove"
      BY <1>0, <2>3 DEF About, Set, Over, InstallRegister, Go
    <3>2. PICK legacy : legacy = [codex.legacy EXCEPT ![s] = "owned"]
      OBVIOUS
    <3>3. codex' = [codex EXCEPT !.legacy = legacy]
      BY <2>3, <3>2
    <3>4. "codex" \in Aim(t) => Installed("codex", FALSE)'
      BY <1>18, <2>1, <3>3
    <3> QED
      BY <1>6, <1>7, <2>1, <3>1, <3>4 DEF CodexPc
  <2>4. CASE GoBadly(t, "move_back", "codex_restore") /\ UNCHANGED <<inst, codex>>
    <3>1. at'[t] = "codex_restore" /\ inst' = inst /\ codex' = codex
      BY <1>0, <2>4 DEF GoBadly
    <3> QED
      BY <1>6, <1>7, <1>8, <2>1, <3>1 DEF CodexPc
  <2> QED
    BY <1>20, <2>2, <2>3, <2>4 DEF migration_undone
<1>21. CASE _restore_configs(t)
  <2>1. /\ inst' = inst /\ at'[t] = "native_fails"
        /\ \A f \in File \ {"codex"} : config'[f] = config[f]
    BY <1>0, <1>21 DEF _restore_configs, Go, AllLined
  <2> QED
    BY <1>6, <1>8, <2>1 DEF CodexPc
<1>22. CASE CodexProgramFails(t) \/ CodexProgramLacks(t)
  <2>1. /\ inst' = inst /\ config' = config /\ at'[t] \in {"codex_restore", "native_fails"}
    BY <1>0, <1>22 DEF CodexProgramFails, CodexProgramLacks, GoBadly, clients
  <2> QED
    BY <1>6, <1>7, <1>8, <2>1 DEF CodexPc
<1> QED
  BY <1>9, <1>10, <1>11, <1>12, <1>13, <1>14, <1>15, <1>16, <1>17, <1>19, <1>20, <1>21, <1>22
     DEF CodexStep

-----------------------------------------------------------------------------
(* What is not an installer.                                               *)

\* Nothing is said of a command that is at none of these steps.
LEMMA NothingSaid ==
  ASSUME NEW t \in Terminal,
         at'[t] \notin InstallPc \cup {"update_after", "update_done", "prompt"}
  PROVE  Bound(t)' /\ Local(t)' /\ Outcome(t)'
BY DEF Bound, Local, Outcome, InstallPc, FilePc, CodexPc, PluginPc, EntryPc, AllowPc

\* The steps of an update outside of the installer.
LEMMA UpdateInstalls ==
  ASSUME Shelled, Queues, JobInv, Registered, ComposeInv, NEW t \in Terminal, Walks(t),
         Outcome(t), UpdateStep(t)
  PROVE  Bound(t)' /\ Local(t)' /\ Outcome(t)'
<1>0. DOMAIN at = Terminal /\ DOMAIN told = Terminal /\ DOMAIN inst = Terminal
      /\ DOMAIN inst[t] = InstallRegister
      /\ DOMAIN upd = Terminal /\ DOMAIN upd[t] = UpdateRegister
  BY DEF Shelled, Registered, ComposeInv
<1>1. at[t] # "prompt" => caller[t] = "shell" /\ Job(t).run \in Updaters
  <2>1. at[t] \in UpdatePc \/ at[t] = "prompt"
    BY UpdateFrom
  <2> QED
    BY <2>1, PcSets DEF JobInv, Fit
<1>2. case.clients \subseteq AIClient
  BY MachinesAssumption DEF Shelled
<1>3. CASE update(t)
  <2>1. at'[t] \in {"compose_fetch", "upgrade", "latest"}
    BY <1>0, <1>3 DEF update, Updates, Go
  <2> QED
    BY <2>1, NothingSaid DEF InstallPc
<1>4. CASE check_latest(t)
  <2>1. at'[t] \in {"compose_fetch", "upgrade", "update_advises"}
    BY <1>0, <1>4 DEF check_latest, UpgradeDue, Go, GoBadly
  <2> QED
    BY <2>1, NothingSaid DEF InstallPc
<1>5. CASE upgrade_uv_tool(t)
  <2>1. at'[t] \in {"fresh", "update_fails"}
    BY <1>0, <1>5 DEF upgrade_uv_tool, Go, GoBadly
  <2> QED
    BY <2>1, NothingSaid DEF InstallPc
<1>6. CASE run_fresh_artifact_refresh(t)
  <2>1. at'[t] \in {"compose_fetch", "update_fails"}
    BY <1>0, <1>6 DEF run_fresh_artifact_refresh, Go, GoBadly
  <2> QED
    BY <2>1, NothingSaid DEF InstallPc
<1>7. CASE \/ download_compose(t) \/ _update_lock(t) \/ sync_compose_file(t)
           \/ compose_again(t) \/ compose_replace(t) \/ compose_create(t)
           \/ _write_state(t) \/ compose_error(t) \/ compose_unlock(t)
  <2>1. at'[t] \in {"compose_lock", "update_clients", "compose_read", "compose_state",
                    "compose_create", "compose_again", "compose_unlock", "compose_replace"}
    BY <1>0, <1>7 DEF download_compose, _update_lock, sync_compose_file, compose_again,
       compose_replace, compose_create, _write_state, compose_error, compose_unlock, Go,
       GoBadly, Preserve
  <2> QED
    BY <2>1, NothingSaid DEF InstallPc
<1>8. CASE _refresh_update_artifacts(t)
  <2>1. at[t] = "update_clients"
    BY <1>8 DEF _refresh_update_artifacts, Runs
  <2>2. CASE ~_has_detected_clients
    <3>1. at'[t] = "update_done" /\ case' = case /\ case.clients = {}
      BY <1>0, <1>8, <2>2 DEF _refresh_update_artifacts, Go, _has_detected_clients
    <3> QED
      BY <3>1 DEF Bound, Local, Outcome, InstallPc, FilePc, CodexPc, PluginPc, EntryPc, AllowPc
  <2>3. CASE _has_detected_clients
    <3>1. /\ at'[t] = "client" /\ caller'[t] = "update_after" /\ case' = case
          /\ world' = world
          /\ inst' = [inst EXCEPT ![t] =
               [NoInstall EXCEPT !.targets = detect_installed, !.all = TRUE,
                                 !.pkg = world.tool]]
      BY <1>0, <1>8, <2>3 DEF _refresh_update_artifacts, Calls, Shelled
    <3>2. /\ inst'[t].targets = detect_installed /\ ~inst'[t].no_skills
          /\ ~inst'[t].skills_only /\ inst'[t].pkg = world'.tool
      BY <1>0, <3>1 DEF NoInstall
    <3>3. Aim(t)' = case.clients /\ ~NoSkills(t)' /\ OnlyPlain(case)' = OnlyPlain(case)
      BY <3>1 DEF Aim, NoSkills, OnlyPlain
    <3>4. detect_installed \in Seq(case.clients) /\ case.clients \subseteq ToSet(detect_installed)
      BY <1>2, DetectedAll
    <3>5. detect_installed \in Seq(AIClient) /\ ToSet(detect_installed) \subseteq case.clients
      BY <1>2, <3>4, ToSetIn
    <3>6. OnlyPlain(case) => case.clients \subseteq Plain
      BY DEF OnlyPlain
    <3>7. Bound(t)'
      BY <1>2, <3>1, <3>2, <3>3, <3>4, <3>5, <3>6 DEF Bound
    <3> QED
      BY <3>1, <3>7, AtClient
  <2> QED
    BY <2>2, <2>3
<1>9. CASE update_after(t)
  <2>1. /\ at[t] = "update_after" /\ at'[t] = "update_done" /\ case' = case
        /\ upd'[t].failed = (upd[t].failed \/ told[t] = "error")
        /\ UNCHANGED clients
    BY <1>0, <1>9 DEF update_after, Runs, Go, Note, Over, UpdateRegister
  <2>2. ASSUME NEW c PROVE Installed(c, FALSE)' = Installed(c, FALSE)
    BY <2>1 DEF Installed, Shown, Plugin, clients
  <2>3. told[t] = "error" \/ \A c \in case.clients : Installed(c, FALSE)
    BY <2>1 DEF Outcome
  <2>4. upd'[t].failed \/ \A c \in case.clients : Installed(c, FALSE)'
    BY <2>1, <2>2, <2>3
  <2> QED
    BY <2>1, <2>4 DEF Bound, Local, Outcome, InstallPc, FilePc, CodexPc, PluginPc, EntryPc, AllowPc
<1>10. CASE update_done(t)
  <2>1. /\ at[t] = "update_done" /\ at'[t] = "prompt" /\ case' = case
        /\ told'[t] = (IF upd[t].failed THEN "error" ELSE "ok")
        /\ UNCHANGED clients
    BY <1>0, <1>1, <1>10 DEF update_done, Runs, UpdateEnds, Ends
  <2>2. CASE upd[t].failed
    BY <2>1, <2>2, EndsBadly
  <2>3. CASE ~upd[t].failed
    <3>1. \A c \in case.clients : Installed(c, FALSE)
      BY <2>1, <2>3 DEF Outcome
    <3>2. ASSUME NEW c PROVE Installed(c, FALSE)' = Installed(c, FALSE)
      BY <2>1 DEF Installed, Shown, Plugin, clients
    <3>3. \A c \in case.clients : Installed(c, FALSE)'
      BY <3>1, <3>2
    <3>4. PICK j : j = Job(t)
      OBVIOUS
    <3>5. LastJob(t)' = j /\ j.run \in Updaters
      BY <1>1, <2>1, <3>4, LastIs
    <3>6. Wanted(j)' \subseteq case.clients /\ Bare(j)' = FALSE
      BY <2>1, <3>5 DEF Wanted, Bare, Updaters
    <3>7. Wanted(LastJob(t))' \subseteq case.clients /\ Bare(LastJob(t))' = FALSE
      BY <3>5, <3>6 DEF Wanted, Bare
    <3>8. \A c \in Wanted(LastJob(t))' : Installed(c, Bare(LastJob(t)))'
      BY <3>3, <3>7
    <3> QED
      BY <2>1, <3>8 DEF Bound, Local, Outcome, InstallPc, FilePc, CodexPc, PluginPc, EntryPc, AllowPc
  <2> QED
    BY <2>2, <2>3
<1>11. CASE update_fails(t) \/ update_advises(t)
  <2>1. at'[t] = "prompt" /\ told'[t] \in {"error", "advised"}
    BY <1>0, <1>1, <1>11 DEF update_fails, update_advises, Runs, UpdateEnds, Ends
  <2> QED
    BY <2>1, EndsBadly
<1> QED
  BY <1>3, <1>4, <1>5, <1>6, <1>7, <1>8, <1>9, <1>10, <1>11 DEF UpdateStep

\* A command that is to install nothing.
LEMMA NotWanted ==
  ASSUME Shelled, Queues, NEW t \in Terminal, Walks(t), at'[t] = "prompt",
         Job(t).run \notin {"install", "update"}
  PROVE  Bound(t)' /\ Local(t)' /\ Outcome(t)'
<1>1. PICK j : j = Job(t)
  OBVIOUS
<1>2. LastJob(t)' = j
  BY <1>1, LastIs
<1>3. Wanted(j)' = {}
  BY <1>1 DEF Wanted
<1>4. Wanted(LastJob(t))' = {}
  BY <1>2, <1>3 DEF Wanted
<1> QED
  BY <1>4 DEF Bound, Local, Outcome, InstallPc, FilePc, CodexPc, PluginPc, EntryPc, AllowPc

\* Every step of t.
LEMMA OwnStep ==
  ASSUME MachineInv, Queues, JobInv, CleanInv, NEW t \in Terminal, Step(t) \/ Killed(t)
  PROVE  Bound(t)' /\ Local(t)' /\ Outcome(t)' /\ Ended(t)'
<1>0. /\ Shelled /\ ComposeInv /\ Registered /\ AllLined /\ EntryKnown /\ ConfigInv
      /\ Bound(t) /\ Local(t) /\ Outcome(t) /\ Walks(t) /\ Fit(t)
  BY StepWalks DEF MachineInv, CleanInv, JobInv
<1>1. Ended(t)'
  <2>1. CASE at'[t] = "prompt"
    BY <1>0, <2>1, LastIs
  <2> QED
    BY <2>1 DEF Ended
<1>2. CASE Killed(t)
  <2>1. at'[t] = "prompt" /\ told'[t] = "killed"
    BY <1>0, <1>2 DEF Killed, Kill, Shelled
  <2> QED
    BY <1>1, <2>1, EndsBadly
<1>3. CASE Installing(t)
  BY <1>0, <1>1, <1>3, PlainInstalls, CodexInstalls, ClaudeInstalls DEF Installing, InstallStep
<1>4. CASE Updating(t)
  BY <1>0, <1>1, <1>4, UpdateInstalls DEF Updating
<1>5. CASE Serving(t) \/ Configuring(t) \/ Reporting(t)
  <2>1. /\ at[t] \in ServicePc \cup ConfigPc \cup ReportPc \cup {"prompt"}
        /\ at[t] = "prompt" => Job(t).run \notin {"install", "update"}
    <3>1. CASE Serving(t)
      BY <3>1, ServiceFrom, PcSets DEF Serving
    <3>2. CASE Configuring(t)
      BY <3>2, ConfigFrom, PcSets DEF Configuring
    <3>3. CASE Reporting(t)
      BY <3>3, ReportFrom, PcSets DEF Reporting
    <3> QED
      BY <1>5, <3>1, <3>2, <3>3
  <2>2. at'[t] \in ServicePc \cup ConfigPc \cup ReportPc \cup Out
    BY <1>0, <1>5, ServicePaths, ConfigPaths, ReportPaths
       DEF Serving, Configuring, Reporting, ServicePc, ReportPc
  <2>3. Job(t).run \notin {"install", "update"}
    BY <1>0, <2>1 DEF Fit, Installers, Updaters
  <2>4. at'[t] # "update_after"
    <3>1. caller[t] = "shell"
      BY <1>0, <2>1, PcSets DEF Fit
    <3> QED
      BY <1>0, <3>1 DEF Walks
  <2>5. CASE at'[t] = "prompt"
    BY <1>0, <1>1, <2>3, <2>5, NotWanted
  <2>6. CASE at'[t] # "prompt"
    BY <1>1, <2>2, <2>4, <2>6, NothingSaid DEF InstallPc, ServicePc, ConfigPc, ReportPc, Out
  <2> QED
    BY <2>5, <2>6
<1>6. CASE launched_update(t)
  <2>1. at'[t] \in {"compose_fetch", "upgrade", "latest"}
    BY <1>0, <1>6 DEF launched_update, Updates, Go, Shelled
  <2> QED
    BY <1>1, <2>1, NothingSaid DEF InstallPc
<1>7. CASE LauncherStep(t)
  <2>1. at[t] \in LauncherPc \/ (at[t] = "prompt" /\ Job(t).run = "launcher")
    BY <1>7, LauncherFrom
  <2>2. at'[t] \in LauncherPc \cup Out
    BY <1>0, <1>7, LauncherPaths DEF LauncherPc
  <2>3. Job(t).run = "launcher" /\ caller[t] = "shell"
    BY <1>0, <2>1, PcSets DEF Fit
  <2>4. at'[t] # "update_after"
    BY <1>0, <2>3 DEF Walks
  <2>5. CASE at'[t] = "prompt"
    BY <1>0, <1>1, <2>3, <2>5, NotWanted
  <2>6. CASE at'[t] # "prompt"
    BY <1>1, <2>2, <2>4, <2>6, NothingSaid DEF InstallPc, LauncherPc, Out
  <2> QED
    BY <2>5, <2>6
<1> QED
  BY <1>2, <1>3, <1>4, <1>5, <1>6, <1>7 DEF Step, Launching

-----------------------------------------------------------------------------
(* What has been installed stays so.                                       *)

\* What a step leaves of it: the entries of the clients with a file of their
\* own, and everything where other clients are installed as well.
Stays ==
  /\ \A f \in Plain : "ours" \in ToSet(config[f]) => "ours" \in ToSet(config'[f])
  /\ OnlyPlain(case) \/
       /\ claude' = claude /\ codex'.cache = codex.cache /\ world'.tool = world.tool
       /\ "rule" \in ToSet(config["settings"]) => "rule" \in ToSet(config'["settings"])
       /\ "ours" \in ToSet(config["codex"]) => "ours" \in ToSet(config'["codex"])
       /\ "plugin" \in ToSet(Text(config["codex"])) <=>
            "plugin" \in ToSet(Text(config'["codex"]))

LEMMA StaysInstalled ==
  ASSUME Stays, NEW c \in AIClient, OnlyPlain(case) => c \in Plain, NEW b,
         Installed(c, b)
  PROVE  Installed(c, b)'
<1>1. CASE c \in Plain
  BY <1>1 DEF Installed, Stays, Plain
<1>2. CASE c = "claude-code"
  <2>1. ~OnlyPlain(case)
    BY <1>2 DEF Plain
  <2> QED
    BY <1>2, <2>1 DEF Installed, Stays, Shown
<1>3. CASE c = "codex"
  <2>1. ~OnlyPlain(case)
    BY <1>3 DEF Plain
  <2> QED
    BY <1>3, <2>1 DEF Installed, Stays, Plugin
<1> QED
  BY <1>1, <1>2, <1>3 DEF AIClient, Plain

\* What u knows of itself is as it was.
Rests(u) ==
  /\ case' = case /\ at'[u] = at[u] /\ todo'[u] = todo[u] /\ caller'[u] = caller[u]
  /\ told'[u] = told[u] /\ inst'[u] = inst[u] /\ upd'[u] = upd[u]

LEMMA RestsAim ==
  ASSUME NEW u \in Terminal, Rests(u)
  PROVE  /\ Aim(u)' = Aim(u) /\ NoSkills(u)' = NoSkills(u) /\ Client(u)' = Client(u)
         /\ OnlyPlain(case)' = OnlyPlain(case)
         /\ LastJob(u)' = LastJob(u)
         /\ \A j : Wanted(j)' = Wanted(j) /\ Bare(j)' = Bare(j)
BY DEF Rests, Aim, NoSkills, Client, OnlyPlain, LastJob, Wanted, Bare, Job

LEMMA LeftBound ==
  ASSUME NEW u \in Terminal, Rests(u), Stays, Bound(u)
  PROVE  Bound(u)'
<1>1. CASE at[u] \notin InstallPc
  BY <1>1 DEF Bound, Rests
<1>2. CASE at[u] \in InstallPc
  <2>1. /\ Aim(u)' = Aim(u) /\ NoSkills(u)' = NoSkills(u)
        /\ OnlyPlain(case)' = OnlyPlain(case)
        /\ inst'[u] = inst[u] /\ at'[u] = at[u]
    BY RestsAim DEF Rests
  <2>2. ASSUME NEW c \in Aim(u)
        PROVE  c \in ToSet(inst[u].targets) \/ inst[u].errors \/ Installed(c, NoSkills(u))'
    <3>1. c \in AIClient /\ (OnlyPlain(case) => c \in Plain)
      BY <1>2 DEF Bound
    <3>2. Installed(c, NoSkills(u)) => Installed(c, NoSkills(u))'
      <4>1. PICK b : b = NoSkills(u)
        OBVIOUS
      <4>2. Installed(c, b) => Installed(c, b)'
        BY <3>1, StaysInstalled
      <4> QED
        BY <2>1, <4>1, <4>2
    <3> QED
      BY <1>2, <3>2 DEF Bound
  <2>3. OnlyPlain(case) \/ inst[u].pkg = world'.tool
    BY <1>2 DEF Bound, Stays
  <2> QED
    BY <1>2, <2>1, <2>2, <2>3 DEF Bound
<1> QED
  BY <1>1, <1>2

LEMMA LeftLocal ==
  ASSUME NEW u \in Terminal, Rests(u), Stays, Bound(u), Local(u)
  PROVE  Local(u)'
<1>1. CASE at[u] \notin InstallPc
  BY <1>1 DEF Local, Rests, InstallPc, FilePc, CodexPc, PluginPc, EntryPc, AllowPc
<1>2. CASE at[u] \in InstallPc
  <2>1. /\ Aim(u)' = Aim(u) /\ NoSkills(u)' = NoSkills(u) /\ Client(u)' = Client(u)
        /\ inst'[u] = inst[u] /\ at'[u] = at[u]
    BY RestsAim DEF Rests
  <2>2. ASSUME at[u] \in {"skills", "extract", "stamp"}, Client(u) \in Aim(u)
        PROVE  "ours" \in ToSet(config'[Client(u)])
    <3>1. /\ Client(u) \in AIClient /\ (OnlyPlain(case) => Client(u) \in Plain)
          /\ Client(u) # "claude-code" /\ "ours" \in ToSet(config[Client(u)])
      BY <1>2, <2>2 DEF Bound, Local, FilePc
    <3> QED
      BY <3>1 DEF Stays, AIClient, Plain
  <2>3. ASSUME at[u] \in CodexPc \cup AllowPc
        PROVE  ~OnlyPlain(case)
    <3>1. inst[u].targets \in Seq(AIClient) /\ inst[u].targets # << >>
      BY <1>2, <2>3 DEF Bound, CodexPc, AllowPc
    <3>2. Client(u) \in ToSet(inst[u].targets)
      BY <3>1, HeadAndTail DEF Client
    <3>3. Client(u) \in {"codex", "claude-code"}
      BY <2>3 DEF Local
    <3> QED
      BY <1>2, <3>2, <3>3 DEF Bound, Plain
  <2>4. ASSUME at[u] \in AllowPc PROVE ClaudeDone(u)'
    <3>1. ClaudeDone(u) /\ claude' = claude
      BY <2>3, <2>4 DEF Local, Stays
    <3> QED
      BY <2>1, <3>1 DEF ClaudeDone, Shown
  <2>5. ASSUME at[u] \in {"codex_migrate", "codex_unmove"}, "codex" \in Aim(u)
        PROVE  Installed("codex", FALSE)'
    <3>1. ~OnlyPlain(case) /\ Installed("codex", FALSE)
      BY <2>3, <2>5 DEF Local, CodexPc
    <3> QED
      BY <3>1, StaysInstalled DEF AIClient
  <2> QED
    BY <2>1, <2>2, <2>4, <2>5 DEF Local
<1> QED
  BY <1>1, <1>2

\* The command that a terminal ran last was typed.
LEMMA LastTyped ==
  ASSUME Shelled, Queues, NEW u \in Terminal, Ended(u), at[u] = "prompt", told[u] # "nothing"
  PROVE  \E i \in DOMAIN case.todo[u] : LastJob(u) = case.todo[u][i]
<1>1. PICK k \in 0..Len(case.todo[u]) :
        todo[u] = SubSeq(case.todo[u], k + 1, Len(case.todo[u]))
  BY DEF Queues, Queued
<1>2. Len(todo[u]) \in Nat /\ DOMAIN case.todo[u] = 1..Len(case.todo[u])
      /\ Len(case.todo[u]) \in Nat
  BY <1>1, JobsListed
<1>3. ASSUME NEW l \in Nat, NEW n \in Nat, n + 1 \in 1..l PROVE l - n \in 1..l
  BY <1>3
<1>4. Len(case.todo[u]) - Len(todo[u]) \in DOMAIN case.todo[u]
  BY <1>2, <1>3 DEF Ended
<1> QED
  BY <1>4 DEF LastJob

\* Whom it was for.
LEMMA LastWanted ==
  ASSUME Shelled, Queues, NEW u \in Terminal, Ended(u), at[u] = "prompt", told[u] # "nothing",
         NEW c \in Wanted(LastJob(u))
  PROVE  c \in AIClient /\ (OnlyPlain(case) => c \in Plain)
<1>1. /\ case.clients \subseteq AIClient
      /\ \A i \in DOMAIN case.todo[u] :
           case.todo[u][i].run = "install" => case.todo[u][i].all \/ case.todo[u][i].client \in AIClient
  BY MachinesAssumption DEF Shelled
<1>2. PICK i \in DOMAIN case.todo[u] : LastJob(u) = case.todo[u][i]
  BY LastTyped
<1> QED
  BY <1>1, <1>2 DEF Wanted, OnlyPlain, Installers

LEMMA LeftOutcome ==
  ASSUME Shelled, Queues, NEW u \in Terminal, Rests(u), Stays, Outcome(u), Ended(u)
  PROVE  Outcome(u)' /\ Ended(u)'
<1>1. /\ case' = case /\ at'[u] = at[u] /\ told'[u] = told[u] /\ upd'[u] = upd[u]
      /\ todo'[u] = todo[u]
  BY DEF Rests
<1>2. case.clients \subseteq AIClient /\ (OnlyPlain(case) => case.clients \subseteq Plain)
  BY MachinesAssumption DEF Shelled, OnlyPlain
<1>3. (\A c \in case.clients : Installed(c, FALSE)) =>
        \A c \in case.clients : Installed(c, FALSE)'
  BY <1>2, StaysInstalled
<1>4. ASSUME at[u] = "prompt", told[u] = "ok"
      PROVE  \A c \in Wanted(LastJob(u))' : Installed(c, Bare(LastJob(u)))'
  <2>1. PICK j : j = LastJob(u)
    OBVIOUS
  <2>2. /\ LastJob(u)' = j /\ Wanted(j)' = Wanted(j) /\ Bare(j)' = Bare(j)
    BY <2>1, RestsAim
  <2>3. ASSUME NEW c \in Wanted(j) PROVE Installed(c, Bare(j))'
    <3>1. c \in AIClient /\ (OnlyPlain(case) => c \in Plain) /\ Installed(c, Bare(j))
      BY <1>4, <2>1, <2>3, LastWanted DEF Outcome
    <3>2. PICK b : b = Bare(j)
      OBVIOUS
    <3>3. Installed(c, b)'
      BY <3>1, <3>2, StaysInstalled
    <3> QED
      BY <2>2, <3>2, <3>3
  <2>4. Wanted(LastJob(u))' = Wanted(j) /\ Bare(LastJob(u))' = Bare(j)'
    BY <2>2 DEF Wanted, Bare
  <2> QED
    BY <2>3, <2>4
<1> QED
  BY <1>1, <1>3, <1>4 DEF Outcome, Ended

\* Of a terminal that installs nothing there is nothing to say.
AllEnded == \A u \in Terminal : Ended(u)
BystandersFree ==
  \A u \in Terminal : Bystander(case, u) => Bound(u) /\ Local(u) /\ Outcome(u)

LEMMA BystanderClean == Shelled /\ Queues /\ JobInv /\ AllEnded => BystandersFree
<1> SUFFICES ASSUME Shelled, Queues, JobInv, NEW u \in Terminal, Ended(u), Bystander(case, u)
             PROVE  Bound(u) /\ Local(u) /\ Outcome(u)
  BY DEF AllEnded, BystandersFree
<1>1. at[u] \notin InstallPc \cup UpdatePc
  <2> SUFFICES ASSUME at[u] \in InstallPc \cup UpdatePc PROVE FALSE
    OBVIOUS
  <2>1. todo[u] # << >> /\ Job(u).run \in Installers \cup Updaters
    BY PcSets DEF Queues, Queued, JobInv, Fit
  <2> QED
    BY <2>1, JobTyped DEF Bystander
<1>2. ASSUME at[u] = "prompt", told[u] = "ok", NEW c \in Wanted(LastJob(u)) PROVE FALSE
  <2>1. PICK i \in DOMAIN case.todo[u] : LastJob(u) = case.todo[u][i]
    BY <1>2, LastTyped
  <2> QED
    BY <1>2, <2>1 DEF Bystander, Wanted, Installers, Updaters
<1>3. Bound(u) /\ Local(u)
  BY <1>1 DEF Bound, Local, InstallPc, FilePc, CodexPc, PluginPc, EntryPc, AllowPc
<1>4. Outcome(u)
  BY <1>1, <1>2 DEF Outcome, UpdatePc
<1> QED
  BY <1>3, <1>4

-----------------------------------------------------------------------------
(* What an installer writes.                                               *)

\* One file at most, with what it has planned, what was there, or a line more.
Writes(t) ==
  \/ config' = config
  \/ /\ at[t] = "plain_write" /\ config' = [config EXCEPT ![Client(t)] = inst[t].plan]
  \/ \E f \in {"settings", "codex"} :
       \/ config' = [config EXCEPT ![f] = inst[t].plan]
       \/ config' = [config EXCEPT ![f] = inst[t].snapshot]
       \/ \E line : config' = [config EXCEPT ![f] = Append1(config[f], line)]
  \/ "torn" \in case.trouble /\ \E f : config' = [config EXCEPT ![f] = << >>]

LEMMA InstallWrites ==
  ASSUME NEW t \in Terminal, InstallStep(t)
  PROVE  Writes(t)
<1>1. CASE PlainStep(t)
  <2>1. CASE TornWrite(t)
    <3> DEFINE f == IF at[t] = "plain_write" THEN Client(t)
                    ELSE IF at[t] = "allow_write" THEN "settings" ELSE "codex"
    <3>1. "torn" \in case.trouble /\ config' = [config EXCEPT ![f] = << >>]
      BY <2>1 DEF TornWrite, May
    <3> QED
      BY <3>1 DEF Writes
  <2>2. CASE plain_write(t)
    BY <2>2 DEF plain_write, Write, Runs, Writes
  <2>3. CASE ~TornWrite(t) /\ ~plain_write(t)
    BY <1>1, <2>3 DEF PlainStep, install, install_skills, install_client, native_fails, give_up,
       plain_plan, plain_backup, _ensure_skills, extract_skills,
       ExtractFails, stamp_skills_dir, files, Writes
  <2> QED
    BY <2>1, <2>2, <2>3
<1>2. CASE CodexStep(t)
  <2>1. CASE codex_market(t)
    BY <2>1 DEF codex_market, Writes
  <2>2. CASE codex_write(t)
    BY <2>2 DEF codex_write, Write, Writes
  <2>3. CASE codex_add(t)
    BY <2>3 DEF codex_add, Writes
  <2>4. CASE _restore_configs(t)
    BY <2>4 DEF _restore_configs, Writes
  <2>5. CASE ~codex_market(t) /\ ~codex_write(t) /\ ~codex_add(t) /\ ~_restore_configs(t)
    <3>1. config' = config
      BY <1>2, <2>5 DEF CodexStep, codex_read, _snapshot_config, codex_verify, codex_mcp,
         codex_backup, codex_post, migrate_legacy_skills, migration_undone,
         CodexProgramFails, CodexProgramLacks, files, clients
    <3> QED
      BY <3>1 DEF Writes
  <2> QED
    BY <2>1, <2>2, <2>3, <2>4, <2>5
<1>3. CASE ClaudeStep(t)
  <2>1. CASE allow_write(t)
    BY <2>1 DEF allow_write, Writes
  <2>2. CASE ~allow_write(t)
    <3>1. config' = config
      BY <1>3, <2>2 DEF ClaudeStep, claude_read, claude_market, claude_update, claude_plugin,
         claude_mcp_get, claude_mcp_remove, claude_mcp_add, _apply_claude_allowlist,
         allow_backup, files, clients
    <3> QED
      BY <3>1 DEF Writes
  <2> QED
    BY <2>1, <2>2
<1> QED
  BY <1>1, <1>2, <1>3 DEF InstallStep

\* A line more, or it is there already.
LEMMA Append1Lined ==
  ASSUME NEW raw, Lined(raw), NEW line
  PROVE  Lined(Append1(raw, line))
BY TextLined, AppendLined DEF Append1

LEMMA WritesLines ==
  ASSUME AllLined, NEW t \in Terminal, Writes(t)
  PROVE  DOMAIN config' = File /\ \A f \in File : Lined(config'[f])
<1>1. /\ DOMAIN config = File /\ \A f \in File : Lined(config[f])
      /\ Lined(inst[t].plan) /\ Lined(inst[t].snapshot)
  BY DEF AllLined
<1>2. ASSUME NEW f, NEW s, Lined(s), config' = [config EXCEPT ![f] = s]
      PROVE  DOMAIN config' = File /\ \A g \in File : Lined(config'[g])
  <2>1. DOMAIN config' = File
    BY <1>1, <1>2
  <2>2. \A g \in File : config'[g] = s \/ config'[g] = config[g]
    BY <1>1, <1>2
  <2> QED
    BY <1>1, <1>2, <2>1, <2>2
<1>3. ASSUME NEW f \in {"settings", "codex"}, NEW line,
             config' = [config EXCEPT ![f] = Append1(config[f], line)]
      PROVE  DOMAIN config' = File /\ \A g \in File : Lined(config'[g])
  <2>1. Lined(Append1(config[f], line))
    BY <1>1, Append1Lined DEF File
  <2> QED
    BY <1>2, <1>3, <2>1
<1>4. CASE config' = config
  BY <1>1, <1>4
<1> QED
  BY <1>1, <1>2, <1>3, <1>4, NothingLined DEF Writes

\* Where files alone are written, a file that has the entry keeps it.
LEMMA WritesStay ==
  ASSUME AllLined, NEW t \in Terminal, Writes(t), OnlyPlain(case), Bound(t), Local(t)
  PROVE  Stays
<1>1. DOMAIN config = File /\ "torn" \notin case.trouble
  BY DEF AllLined, OnlyPlain
<1>2. CASE at[t] = "plain_write" /\ config' = [config EXCEPT ![Client(t)] = inst[t].plan]
  <2>1. "ours" \in ToSet(inst[t].plan)
    BY <1>2 DEF Local
  <2> HIDE DEF Plain
  <2>2. \A f \in File : config'[f] = inst[t].plan \/ config'[f] = config[f]
    BY <1>1, <1>2
  <2>3. Plain \subseteq File
    BY DEF Plain, File
  <2> QED
    BY <2>1, <2>2, <2>3 DEF Stays
<1>3. CASE \A f \in Plain : config'[f] = config[f]
  BY <1>3 DEF Stays
<1>4. ASSUME NEW f \in {"settings", "codex"}, NEW s, config' = [config EXCEPT ![f] = s]
      PROVE  \A g \in Plain : config'[g] = config[g]
  BY <1>1, <1>4 DEF Plain, File
<1> QED
  BY <1>1, <1>2, <1>3, <1>4 DEF Writes

\* The registers that hold a file.
Holds(t) == Lined(inst'[t].plan) /\ Lined(inst'[t].snapshot)

LEMMA SameHolds ==
  ASSUME AllLined, NEW t \in Terminal, inst'[t].plan = inst[t].plan,
         inst'[t].snapshot = inst[t].snapshot
  PROVE  Holds(t)
BY DEF AllLined, Holds

LEMMA SetHolds ==
  ASSUME Registered, AllLined, NEW t \in Terminal, NEW r, Set(t, r),
         "plan" \in DOMAIN r => Lined(r["plan"]),
         "snapshot" \in DOMAIN r => Lined(r["snapshot"])
  PROVE  Holds(t)
<1>1. /\ inst'[t].plan = (IF "plan" \in DOMAIN r THEN r["plan"] ELSE inst[t].plan)
      /\ inst'[t].snapshot = (IF "snapshot" \in DOMAIN r THEN r["snapshot"] ELSE inst[t].snapshot)
  BY DEF Set, Over, Registered, InstallRegister
<1> QED
  BY <1>1 DEF AllLined, Holds

LEMMA NewHolds ==
  ASSUME NEW t \in Terminal, inst'[t].plan = Nothing, inst'[t].snapshot = Nothing
  PROVE  Holds(t)
BY NothingLined DEF Holds

LEMMA FinishHolds ==
  ASSUME Registered, NEW t \in Terminal, inst' = [inst EXCEPT ![t] = NoInstall]
  PROVE  Holds(t)
BY NewHolds DEF Registered, NoInstall

LEMMA InstallHolds ==
  ASSUME Registered, AllLined, NEW t \in Terminal, Bound(t), Local(t), InstallStep(t)
  PROVE  Holds(t)
<1>0. DOMAIN inst = Terminal /\ DOMAIN inst[t] = InstallRegister
      /\ DOMAIN config = File /\ \A f \in File : Lined(config[f])
  BY DEF Registered, AllLined
<1>1. ASSUME inst' = inst PROVE Holds(t)
  BY <1>1, SameHolds
<1>2. ASSUME NEW how, Finish(t, how) PROVE Holds(t)
  BY <1>2, FinishHolds DEF Finish
<1>3. ASSUME NEW r, Set(t, r), DOMAIN r \cap {"plan", "snapshot"} = {} PROVE Holds(t)
  BY <1>3, SetHolds
<1>4. ASSUME NextClient(t) PROVE Holds(t)
  BY <1>3, <1>4 DEF NextClient
\* A plan that was made.
<1>5. ASSUME NEW f \in File, NEW client, build_plan(client, config[f]).ok,
             Set(t, [plan |-> build_plan(client, config[f]).content])
      PROVE  Holds(t)
  <2>1. Lined(build_plan(client, config[f]).content)
    BY <1>0, <1>5, PlanAdds
  <2>2. PICK s : s = build_plan(client, config[f]).content
    OBVIOUS
  <2> QED
    BY <1>5, <2>1, <2>2, SetHolds
<1>6. CASE PlainStep(t)
  <2>1. CASE install(t) \/ install_skills(t)
    <3>1. NoInstall.plan = Nothing /\ NoInstall.snapshot = Nothing
          /\ {"plan", "snapshot"} \subseteq DOMAIN NoInstall
      BY DEF NoInstall
    <3>2. CASE install(t)
      <4>1. PICK targets, all, bare, pkg :
              inst' = [inst EXCEPT ![t] = [NoInstall EXCEPT !.targets = targets,
                         !.all = all, !.no_skills = bare, !.pkg = pkg]]
        BY <3>2 DEF install
      <4> QED
        BY <1>0, <3>1, <4>1, NewHolds
    <3>3. CASE install_skills(t)
      <4>1. PICK targets, pkg :
              inst' = [inst EXCEPT ![t] = [NoInstall EXCEPT !.targets = targets,
                         !.skills_only = TRUE, !.pkg = pkg]]
        BY <3>3 DEF install_skills
      <4> QED
        BY <1>0, <3>1, <4>1, NewHolds
    <3> QED
      BY <2>1, <3>2, <3>3
  <2>2. CASE install_client(t)
    BY <1>1, <1>2, <2>2 DEF install_client
  <2>3. CASE native_fails(t)
    BY <1>2, <1>3, <2>3 DEF native_fails
  <2>4. CASE give_up(t)
    BY <1>2, <2>4 DEF give_up
  <2>5. CASE plain_plan(t)
    <3>1. CASE build_plan(Client(t), config[Client(t)]).ok
      <4>1. Set(t, [plan |-> build_plan(Client(t), config[Client(t)]).content])
        BY <2>5, <3>1 DEF plain_plan
      <4>2. at[t] = "plain_plan"
        BY <2>5 DEF plain_plan, Runs
      <4>3. inst[t].targets \in Seq(AIClient) /\ inst[t].targets # << >>
        BY <4>2 DEF Bound, InstallPc
      <4>4. Client(t) \in AIClient /\ Client(t) # "claude-code"
        BY <4>2, <4>3, HeadAndTail DEF Client, Local, FilePc
      <4>5. Client(t) \in File
        BY <4>4 DEF AIClient, File
      <4> QED
        BY <1>5, <3>1, <4>1, <4>5
    <3>2. CASE ~build_plan(Client(t), config[Client(t)]).ok
      BY <1>2, <2>5, <3>2 DEF plain_plan
    <3> QED
      BY <3>1, <3>2
  <2>6. CASE plain_backup(t) \/ plain_write(t)
    BY <1>1, <2>6 DEF plain_backup, plain_write
  <2>7. CASE TornWrite(t)
    BY <2>7, FinishHolds DEF TornWrite
  <2>8. CASE _ensure_skills(t)
    BY <1>1, <1>3, <1>4, <2>8 DEF _ensure_skills
  <2>9. CASE extract_skills(t)
    <3>1. ASSUME NEW s, Set(t, [left |-> inst[t].left \ {s}]) PROVE Holds(t)
      BY <1>3, <3>1
    <3> QED
      BY ONLY <1>1, <2>9, <3>1 DEF extract_skills
  <2>10. CASE ExtractFails(t)
    BY <1>1, <1>3, <2>10 DEF ExtractFails
  <2>11. CASE stamp_skills_dir(t)
    BY <1>4, <2>11 DEF stamp_skills_dir
  <2> QED
    BY <1>6, <2>1, <2>2, <2>3, <2>4, <2>5, <2>6, <2>7, <2>8, <2>9, <2>10, <2>11 DEF PlainStep
<1>7. CASE CodexStep(t)
  <2>1. CASE codex_read(t)
    BY <1>1, <1>3, <2>1 DEF codex_read
  <2>2. CASE _snapshot_config(t)
    <3>1. Set(t, [snapshot |-> config["codex"]]) /\ Lined(config["codex"])
      BY <1>0, <2>2 DEF _snapshot_config, File
    <3> QED
      BY <3>1, SetHolds
  <2>3. CASE codex_market(t) \/ codex_backup(t) \/ codex_write(t) \/ codex_add(t) \/ _restore_configs(t)
    BY <1>1, <2>3 DEF codex_market, codex_backup, codex_write, codex_add, _restore_configs
  <2>4. CASE codex_verify(t)
    BY <1>1, <1>3, <2>4 DEF codex_verify
  <2>5. CASE codex_mcp(t)
    <3>1. CASE build_plan("codex", config["codex"]).ok
      BY <1>5, <2>5, <3>1 DEF codex_mcp, File
    <3>2. CASE ~build_plan("codex", config["codex"]).ok
      BY <1>1, <2>5, <3>2 DEF codex_mcp
    <3> QED
      BY <3>1, <3>2
  <2>6. CASE codex_post(t)
    BY <1>1, <1>3, <2>6 DEF codex_post
  <2>7. CASE migrate_legacy_skills(t)
    <3>1. ASSUME NEW s, Set(t, [left |-> inst[t].left \ {s}, moved |-> inst[t].moved \cup {s}])
          PROVE  Holds(t)
      BY <1>3, <3>1
    <3> QED
      BY ONLY <1>1, <1>4, <2>7, <3>1 DEF migrate_legacy_skills
  <2>8. CASE migration_undone(t)
    <3>1. ASSUME NEW s, Set(t, [moved |-> inst[t].moved \ {s}])
          PROVE  Holds(t)
      BY <1>3, <3>1
    <3> QED
      BY ONLY <1>1, <1>4, <2>8, <3>1 DEF migration_undone
  <2>9. CASE CodexProgramFails(t) \/ CodexProgramLacks(t)
    BY <1>1, <2>9 DEF CodexProgramFails, CodexProgramLacks, clients
  <2> QED
    BY <1>7, <2>1, <2>2, <2>3, <2>4, <2>5, <2>6, <2>7, <2>8, <2>9 DEF CodexStep
<1>8. CASE ClaudeStep(t)
  <2>1. CASE claude_read(t)
    BY <1>1, <1>3, <2>1 DEF claude_read
  <2>2. CASE \/ claude_market(t) \/ claude_update(t) \/ claude_plugin(t) \/ claude_mcp_get(t)
             \/ claude_mcp_remove(t) \/ claude_mcp_add(t)
    BY <1>1, <2>2 DEF claude_market, claude_update, claude_plugin, claude_mcp_get,
       claude_mcp_remove, claude_mcp_add, clients
  <2>3. CASE _apply_claude_allowlist(t)
    <3> DEFINE plan == build_allowlist_plan(config["settings"])
    <3>1. CASE plan.ok
      <4>1. Set(t, [plan |-> plan.content]) /\ Lined(plan.content)
        BY <1>0, <2>3, <3>1, RuleAdds DEF _apply_claude_allowlist, File
      <4> HIDE DEF plan
      <4> QED
        BY <4>1, SetHolds
    <3>2. CASE ~plan.ok
      BY <1>1, <2>3, <3>2 DEF _apply_claude_allowlist
    <3> QED
      BY <3>1, <3>2
  <2>4. CASE allow_backup(t)
    BY <1>1, <1>4, <2>4 DEF allow_backup
  <2>5. CASE allow_write(t)
    BY <1>4, <2>5 DEF allow_write
  <2> QED
    BY <1>8, <2>1, <2>2, <2>3, <2>4, <2>5 DEF ClaudeStep
<1> QED
  BY <1>6, <1>7, <1>8 DEF InstallStep

\* The two programs keep what they keep.
LEMMA InstallKnown ==
  ASSUME EntryKnown, NEW t \in Terminal, InstallStep(t)
  PROVE  EntryKnown'
<1>1. CASE PlainStep(t)
  <2>1. claude' = claude /\ codex' = codex
    BY <1>1 DEF PlainStep, install, install_skills, install_client, native_fails, give_up,
       plain_plan, plain_backup, plain_write, TornWrite, _ensure_skills, extract_skills,
       ExtractFails, stamp_skills_dir, homes
  <2> QED
    BY <2>1 DEF EntryKnown
<1>2. CASE CodexStep(t)
  <2>1. claude' = claude
    BY <1>2 DEF CodexStep, codex_read, _snapshot_config, codex_market, codex_verify, codex_mcp,
       codex_backup, codex_write, codex_add, codex_post, migrate_legacy_skills,
       migration_undone, _restore_configs, CodexProgramFails, CodexProgramLacks, homes, clients
  <2>2. codex' = codex \/ \E k, v : codex' = [codex EXCEPT ![k] = v]
    <3>1. CASE codex_market(t) \/ codex_add(t)
      BY <3>1 DEF codex_market, codex_add
    <3>2. CASE migrate_legacy_skills(t)
      <4>1. ASSUME NEW s, codex' = [codex EXCEPT !.legacy[s] = "backup"]
            PROVE  \E k, v : codex' = [codex EXCEPT ![k] = v]
        BY <4>1
      <4> QED
        BY ONLY <3>2, <4>1 DEF migrate_legacy_skills
    <3>3. CASE migration_undone(t)
      <4>1. ASSUME NEW s, codex' = [codex EXCEPT !.legacy[s] = "owned"]
            PROVE  \E k, v : codex' = [codex EXCEPT ![k] = v]
        BY <4>1
      <4> QED
        BY ONLY <3>3, <4>1 DEF migration_undone
    <3>4. CASE \/ codex_read(t) \/ _snapshot_config(t) \/ codex_verify(t) \/ codex_mcp(t)
               \/ codex_backup(t) \/ codex_write(t) \/ codex_post(t) \/ _restore_configs(t)
               \/ CodexProgramFails(t) \/ CodexProgramLacks(t)
      BY <3>4 DEF codex_read, _snapshot_config, codex_verify, codex_mcp,
         codex_backup, codex_write, codex_post, _restore_configs, CodexProgramFails,
         CodexProgramLacks, homes, clients
    <3> QED
      BY <1>2, <3>1, <3>2, <3>3, <3>4 DEF CodexStep
  <2> QED
    BY <2>1, <2>2 DEF EntryKnown
<1>3. CASE ClaudeStep(t)
  <2>1. codex' = codex
    BY <1>3 DEF ClaudeStep, claude_read, claude_market, claude_update, claude_plugin,
       claude_mcp_get, claude_mcp_remove, claude_mcp_add, _apply_claude_allowlist,
       allow_backup, allow_write, homes, clients
  <2>2. DOMAIN claude' = DOMAIN claude
    BY <1>3 DEF ClaudeStep, claude_read, claude_market, claude_update, claude_plugin, Program,
       claude_mcp_get, claude_mcp_remove, claude_mcp_add, _apply_claude_allowlist,
       allow_backup, allow_write, homes, clients
  <2> QED
    BY <2>1, <2>2 DEF EntryKnown
<1> QED
  BY <1>1, <1>2, <1>3 DEF InstallStep

-----------------------------------------------------------------------------
(* All steps.                                                              *)

\* The registers of the others are theirs.
LEMMA StepLoads ==
  ASSUME MachineInv, Registered, NEW t \in Terminal, Step(t) \/ Killed(t)
  PROVE  /\ Registered'
         /\ \A u \in Terminal \ {t} : inst'[u] = inst[u] /\ upd'[u] = upd[u]
<1>0. Shelled /\ ComposeInv /\ DOMAIN inst = Terminal /\ DOMAIN upd = Terminal
  BY DEF MachineInv, ComposeInv, Registered
<1>1. ASSUME Loads(t) PROVE Registered' /\ \A u \in Terminal \ {t} : inst'[u] = inst[u]
  BY <1>1 DEF Loads, Registered
<1>2. CASE Installing(t)
  BY <1>1, <1>2, PlainLoads, CodexLoads, ClaudeLoads DEF Installing, InstallStep, updates
<1>3. CASE Updating(t)
  BY <1>0, <1>1, <1>3, UpdateLoads, UpdateSyncs DEF Updating, Syncs
<1>4. CASE Serving(t)
  <2>1. UNCHANGED clients /\ UNCHANGED updates
    BY <1>4 DEF Serving, ServiceStep, start_services, stop_services, Composes, check,
       check_probe, check_graph, check_providers
  <2> QED
    BY <2>1 DEF clients, updates, Registered
<1>5. CASE Configuring(t) \/ Reporting(t) \/ Launching(t)
  BY <1>5 DEF Configuring, Reporting, Launching, clients, updates, Registered
<1>6. CASE Killed(t)
  <2>1. /\ inst' = [inst EXCEPT ![t] = NoInstall] /\ upd' = [upd EXCEPT ![t] = NoUpdate]
    BY <1>6 DEF Killed, InstallKilled, UpdateKilled
  <2> QED
    BY <1>0, <2>1 DEF Registered, NoInstall, InstallRegister
<1> QED
  BY <1>2, <1>3, <1>4, <1>5, <1>6 DEF Step

\* Only an installer writes to the files and the programs of the clients.
LEMMA StepOutside ==
  ASSUME MachineInv, Registered, AllLined, NEW t \in Terminal, Step(t) \/ Killed(t)
  PROVE  InstallStep(t) \/ (config' = config /\ claude' = claude /\ codex' = codex /\ Holds(t))
<1>0. DOMAIN inst = Terminal
  BY DEF Registered
<1>1. ASSUME UNCHANGED clients
      PROVE  config' = config /\ claude' = claude /\ codex' = codex /\ Holds(t)
  BY <1>1, SameHolds DEF clients
<1>2. CASE Installing(t)
  BY <1>2 DEF Installing
<1>3. CASE Updating(t)
  <2>1. CASE upgrade_uv_tool(t)
    BY <2>1, SameHolds DEF upgrade_uv_tool, homes
  <2>2. CASE _refresh_update_artifacts(t)
    <3>1. config' = config /\ claude' = claude /\ codex' = codex
      BY <2>2 DEF _refresh_update_artifacts, files, homes
    <3>2. CASE inst' = inst
      BY <3>1, <3>2, SameHolds
    <3>3. ASSUME NEW targets, NEW pkg,
                 inst' = [inst EXCEPT ![t] =
                   [NoInstall EXCEPT !.targets = targets, !.all = TRUE, !.pkg = pkg]]
          PROVE  Holds(t)
      <4>1. inst'[t].plan = Nothing /\ inst'[t].snapshot = Nothing
        BY <1>0, <3>3 DEF NoInstall
      <4> QED
        BY <4>1, NewHolds
    <3> QED
      BY ONLY <2>2, <3>1, <3>2, <3>3 DEF _refresh_update_artifacts
  <2>3. CASE ~upgrade_uv_tool(t) /\ ~_refresh_update_artifacts(t)
    <3>1. UNCHANGED clients
      BY <1>3, <2>3 DEF Updating, UpdateStep, update, check_latest,
         run_fresh_artifact_refresh, download_compose, _update_lock, sync_compose_file,
         compose_again, compose_replace, compose_create, _write_state, compose_error,
         NoResult, compose_unlock, update_after, update_done, update_fails,
         update_advises, UpdateEnds
    <3> QED
      BY <1>1, <3>1
  <2> QED
    BY <2>1, <2>2, <2>3
<1>4. CASE Serving(t)
  <2>1. UNCHANGED clients
    BY <1>4 DEF Serving, ServiceStep, start_services, stop_services, Composes, check,
       check_probe, check_graph, check_providers
  <2> QED
    BY <1>1, <2>1
<1>5. CASE Configuring(t) \/ Reporting(t) \/ Launching(t)
  BY <1>1, <1>5 DEF Configuring, Reporting, Launching
<1>6. CASE Killed(t)
  BY <1>0, <1>6, FinishHolds DEF Killed, InstallKilled, files, homes
<1> QED
  BY <1>2, <1>3, <1>4, <1>5, <1>6 DEF Step

LEMMA StepLines ==
  ASSUME MachineInv, CleanInv, NEW t \in Terminal, Step(t) \/ Killed(t)
  PROVE  AllLined' /\ EntryKnown'
<1>0. Registered /\ AllLined /\ EntryKnown /\ Bound(t) /\ Local(t)
  BY DEF CleanInv
<1>1. /\ Holds(t)
      /\ DOMAIN config' = File /\ \A f \in File : Lined(config'[f])
      /\ EntryKnown'
  <2>1. CASE InstallStep(t)
    BY <1>0, <2>1, InstallHolds, InstallWrites, WritesLines, InstallKnown
  <2>2. CASE config' = config /\ claude' = claude /\ codex' = codex /\ Holds(t)
    BY <1>0, <2>2 DEF AllLined, EntryKnown
  <2> QED
    BY <1>0, <2>1, <2>2, StepOutside
<1>2. ASSUME NEW u \in Terminal
      PROVE  Lined(inst'[u].plan) /\ Lined(inst'[u].snapshot)
  <2>1. CASE u = t
    BY <1>1, <2>1 DEF Holds
  <2>2. CASE u # t
    BY <1>0, <2>2, StepLoads DEF AllLined
  <2> QED
    BY <2>1, <2>2
<1> QED
  BY <1>1, <1>2 DEF AllLined, Lined

\* A step of t leaves what another terminal has installed, be it that both
\* install plain clients only, or that t installs nothing.
LEMMA StepStays ==
  ASSUME MachineInv, Queues, JobInv, CleanInv, NEW t \in Terminal, Step(t) \/ Killed(t),
         OnlyPlain(case) \/ Bystander(case, t)
  PROVE  Stays
<1>0. /\ Shelled /\ ConfigInv /\ ComposeInv /\ Registered /\ AllLined /\ Bound(t) /\ Local(t)
      /\ Walks(t) /\ Fit(t)
  BY StepWalks DEF MachineInv, CleanInv, JobInv
<1>1. ASSUME config' = config, claude' = claude, codex' = codex,
             OnlyPlain(case) \/ world'.tool = world.tool
      PROVE  Stays
  BY <1>1 DEF Stays
<1>2. CASE OnlyPlain(case)
  <2>1. CASE InstallStep(t)
    BY <1>0, <1>2, <2>1, InstallWrites, WritesStay
  <2>2. CASE ~InstallStep(t)
    BY <1>0, <1>1, <1>2, <2>2, StepOutside
  <2> QED
    BY <2>1, <2>2
<1>3. CASE Bystander(case, t)
  <2>1. ~InstallStep(t) /\ ~UpdateStep(t)
    <3> SUFFICES ASSUME InstallStep(t) \/ UpdateStep(t) PROVE FALSE
      OBVIOUS
    <3>1. \/ at[t] \in InstallPc \cup UpdatePc
          \/ at[t] = "prompt" /\ Job(t).run \in Installers \cup Updaters
      BY InstallFrom, UpdateFrom DEF Installers, Updaters
    <3>2. Job(t).run \in Installers \cup Updaters
      BY <1>0, <3>1 DEF Fit
    <3>3. todo[t] # << >>
      BY <1>0 DEF Walks, Queues, Queued
    <3> QED
      BY <1>0, <1>3, <3>2, <3>3, JobTyped DEF Bystander
  <2>2. config' = config /\ claude' = claude /\ codex' = codex
    BY <1>0, <2>1, StepOutside
  <2>3. world' = world
    <3>1. CASE Serving(t)
      BY <3>1 DEF Serving, ServiceStep, start_services, stop_services, Composes, check,
         check_probe, check_graph, check_providers, clients
    <3>2. CASE Configuring(t) \/ Reporting(t) \/ Launching(t)
      BY <3>2 DEF Configuring, Reporting, Launching, clients
    <3>3. CASE Killed(t)
      BY <3>3 DEF Killed
    <3> QED
      BY <2>1, <3>1, <3>2, <3>3 DEF Step, Installing, Updating
  <2> QED
    BY <1>1, <2>2, <2>3
<1> QED
  BY <1>2, <1>3

\* A text with a note of its user before it.
LEMMA NoteBefore ==
  ASSUME NEW raw, Lined(raw)
  PROVE  /\ Lined(<<"note">> \o Text(raw))
         /\ \A x : x \in ToSet(raw) /\ raw # Nothing => x \in ToSet(<<"note">> \o Text(raw))
         /\ Text(<<"note">> \o Text(raw)) = <<"note">> \o Text(raw)
         /\ \A x : x # "note" =>
              (x \in ToSet(<<"note">> \o Text(raw)) <=> x \in ToSet(Text(raw)))
<1>1. /\ Lined(<<"note">>) /\ ToSet(<<"note">>) = {"note"} /\ Lined(Text(raw))
  BY OneLined, TextLined
<1>2. /\ Lined(<<"note">> \o Text(raw))
      /\ {"note"} \cup ToSet(Text(raw)) \subseteq ToSet(<<"note">> \o Text(raw))
  BY <1>1, ConcatLined
<1>3. ToSet(<<"note">> \o Text(raw)) \subseteq {"note"} \cup ToSet(Text(raw))
  <2>1. <<"note">> \in Seq({"note"} \cup ToSet(Text(raw)))
    OBVIOUS
  <2>2. Text(raw) \in Seq({"note"} \cup ToSet(Text(raw)))
    BY <1>1 DEF Lined
  <2>3. \A S : \A s \in Seq(S) : \A r \in Seq(S) : s \o r \in Seq(S)
    OBVIOUS
  <2>4. <<"note">> \o Text(raw) \in Seq({"note"} \cup ToSet(Text(raw)))
    BY <2>1, <2>2, <2>3
  <2> QED
    BY <2>4, ToSetIn
<1>4. Text(<<"note">> \o Text(raw)) = <<"note">> \o Text(raw)
  <2>1. "note" \in ToSet(<<"note">> \o Text(raw))
    BY <1>2
  <2>2. <<"note">> \o Text(raw) # Nothing
    <3>1. PICK s : s = <<"note">> \o Text(raw)
      OBVIOUS
    <3>2. "note" \in ToSet(s)
      BY <2>1, <3>1
    <3>3. ToSet(Nothing) = {"absent"}
      BY OneLined DEF Nothing
    <3>4. s # Nothing
      BY ONLY <3>2, <3>3
    <3> QED
      BY ONLY <3>1, <3>4
  <2> QED
    BY <2>2 DEF Text
<1>5. raw # Nothing => ToSet(raw) = ToSet(Text(raw))
  BY TextLined
<1> QED
  BY <1>2, <1>3, <1>4, <1>5

\* People leave what was installed.
LEMMA PeopleStay ==
  ASSUME MachineInv, CleanInv, People
  PROVE  /\ Stays /\ AllLined' /\ EntryKnown' /\ inst' = inst
         /\ case' = case /\ at' = at /\ todo' = todo /\ caller' = caller /\ told' = told
<1>0. AllLined /\ EntryKnown /\ WorldSound
  BY DEF CleanInv, MachineInv
<1>1. ASSUME NEW f \in File, Edit(f)
      PROVE  Stays /\ AllLined'
  <2>1. /\ DOMAIN config = File /\ \A g \in File : Lined(config[g])
        /\ config' = [config EXCEPT ![f] = <<"note">> \o Text(config[f])]
        /\ claude' = claude /\ codex' = codex /\ world' = world /\ inst' = inst
    BY <1>0, <1>1 DEF AllLined, Edit, homes
  <2>2. PICK note : note = <<"note">> \o Text(config[f])
    OBVIOUS
  <2>3. /\ Lined(note) /\ Text(note) = note
        /\ \A x : x # "note" => (x \in ToSet(note) <=> x \in ToSet(Text(config[f])))
    BY <2>1, <2>2, NoteBefore
  <2>4. \A x : x # "absent" /\ x \in ToSet(config[f]) => x \in ToSet(Text(config[f]))
    BY NothingLined, OneLined, <2>1, TextLined DEF Nothing
  <2>5. ASSUME NEW g \in File, NEW x \in {"ours", "rule"}, x \in ToSet(config[g])
        PROVE  x \in ToSet(config'[g])
    <3>1. CASE g = f
      BY <2>1, <2>2, <2>3, <2>4, <2>5, <3>1
    <3>2. CASE g # f
      BY <2>1, <2>5, <3>2
    <3> QED
      BY <3>1, <3>2
  <2>6. "plugin" \in ToSet(Text(config["codex"])) <=>
          "plugin" \in ToSet(Text(config'["codex"]))
    <3>1. CASE f = "codex"
      BY <2>1, <2>2, <2>3, <3>1
    <3>2. CASE f # "codex"
      BY <2>1, <3>2
    <3> QED
      BY <3>1, <3>2
  <2>7. Stays
    BY <2>1, <2>5, <2>6 DEF Stays, Plain, File
  <2>8. DOMAIN config' = File /\ \A g \in File : Lined(config'[g])
    BY <2>1, <2>2, <2>3
  <2> QED
    BY <1>0, <2>1, <2>7, <2>8 DEF AllLined, Lined
<1>2. ASSUME config' = config, inst' = inst PROVE AllLined'
  BY <1>0, <1>2 DEF AllLined, Lined
<1>3. ASSUME config' = config, claude' = claude, codex' = codex, world'.tool = world.tool
      PROVE  Stays
  BY <1>3 DEF Stays
<1>4. claude' = claude /\ codex' = codex /\ inst' = inst
  BY DEF People, Edit, EditSkill, Merge, Release, homes
<1>5. CASE ~\E f \in File : Edit(f)
  <2>1. config' = config /\ world'.tool = world.tool
    BY <1>0, <1>5 DEF People, EditSkill, Merge, Release, files, WorldSound
  <2>2. case' = case /\ at' = at /\ todo' = todo /\ caller' = caller /\ told' = told
    BY <1>5 DEF People, EditSkill, Merge, Release, Happens
  <2>3. EntryKnown'
    BY <1>0, <1>4 DEF EntryKnown
  <2> QED
    BY <1>2, <1>3, <1>4, <2>1, <2>2, <2>3
<1>6. CASE \E f \in File : Edit(f)
  BY <1>0, <1>1, <1>4, <1>6 DEF Edit, Happens, EntryKnown
<1> QED
  BY <1>5, <1>6

\* A terminal that rests keeps what it knows.
LEMMA RestsClean ==
  ASSUME Shelled, Queues, CleanInv, NEW u \in Terminal, Rests(u), Stays
  PROVE  Bound(u)' /\ Local(u)' /\ Outcome(u)' /\ Ended(u)'
BY LeftBound, LeftLocal, LeftOutcome DEF CleanInv

\* What a case says of its clients.
LEMMA SameCase ==
  ASSUME case' = case, OnlyPlain(case) \/ OneInstalls(case)
  PROVE  (OnlyPlain(case) \/ OneInstalls(case))'
BY DEF OnlyPlain, OneInstalls, Bystander

LEMMA CleanSteps ==
  ASSUME MachineInv, MachineInv', Queues, Queues', JobInv, JobInv', CleanInv, [Next]_machine
  PROVE  CleanInv'
<1>0. /\ Shelled /\ Shelled' /\ Registered /\ AllLined /\ EntryKnown
      /\ OnlyPlain(case) \/ OneInstalls(case)
      /\ \A t \in Terminal : Ended(t)
  BY DEF MachineInv, CleanInv
\* Nobody goes a step.
<1>1. ASSUME Stays, AllLined', EntryKnown', inst' = inst, upd' = upd,
             case' = case, at' = at, todo' = todo, caller' = caller, told' = told
      PROVE  CleanInv'
  <2>1. Registered'
    BY <1>0, <1>1 DEF Registered
  <2>2. (OnlyPlain(case) \/ OneInstalls(case))'
    BY <1>0, <1>1, SameCase
  <2>3. \A u \in Terminal : Bound(u)' /\ Local(u)' /\ Outcome(u)' /\ Ended(u)'
    BY <1>0, <1>1, RestsClean DEF Rests
  <2> QED
    BY <1>1, <2>1, <2>2, <2>3 DEF CleanInv
<1>2. CASE UNCHANGED machine \/ (Others /\ ~People)
  <2>1. /\ UNCHANGED clients /\ upd' = upd
        /\ case' = case /\ at' = at /\ todo' = todo /\ caller' = caller /\ told' = told
    BY <1>2 DEF machine, shell, updates, Others, EditCompose, Crowd, EditHome, Happens
  <2>2. Stays /\ AllLined' /\ EntryKnown' /\ inst' = inst
    BY <1>0, <2>1 DEF clients, Stays, AllLined, Lined, EntryKnown
  <2> QED
    BY <1>1, <2>1, <2>2
<1>3. CASE Others /\ People
  <2>1. upd' = upd
    BY <1>3 DEF Others, updates, EditCompose, Crowd, EditHome
  <2> QED
    BY <1>1, <1>3, <2>1, PeopleStay
<1>4. ASSUME NEW t \in Terminal, Step(t) \/ Killed(t)
      PROVE  CleanInv'
  <2>1. Walks(t) /\ case' = case
    BY <1>4, StepWalks DEF Walks
  <2>2. Bound(t)' /\ Local(t)' /\ Outcome(t)' /\ Ended(t)'
    BY <1>4, OwnStep
  <2>3. Registered' /\ AllLined' /\ EntryKnown'
    BY <1>0, <1>4, StepLoads, StepLines
  <2>4. (OnlyPlain(case) \/ OneInstalls(case))'
    BY <1>0, <2>1, SameCase
  <2>5. ASSUME NEW u \in Terminal \ {t}
        PROVE  Rests(u) /\ Ended(u)'
    <3>1. Rests(u)
      BY <1>0, <1>4, <2>1, StepLoads DEF Rests, Walks
    <3>2. Ended(u)'
      BY <1>0, <3>1 DEF Rests, Ended
    <3> QED
      BY <3>1, <3>2
  <2>6. ASSUME NEW u \in Terminal \ {t}, Stays
        PROVE  Bound(u)' /\ Local(u)' /\ Outcome(u)' /\ Ended(u)'
    BY <1>0, <2>5, <2>6, RestsClean
  <2>7. ASSUME NEW u \in Terminal \ {t}
        PROVE  Bound(u)' /\ Local(u)' /\ Outcome(u)' /\ Ended(u)'
    <3>1. CASE OnlyPlain(case)
      BY <1>4, <2>6, <3>1, StepStays
    <3>2. CASE OneInstalls(case)
      <4>1. PICK w \in Terminal : \A v \in Terminal \ {w} : Bystander(case, v)
        BY <3>2 DEF OneInstalls
      <4>2. CASE u = w
        <5>1. Bystander(case, t)
          BY <4>1, <4>2
        <5> QED
          BY <1>4, <2>6, <5>1, StepStays
      <4>3. CASE u # w
        <5>1. Bystander(case, u)
          BY <4>1, <4>3
        <5>2. Bystander(case, u)'
          BY <2>1, <5>1 DEF Bystander
        <5>3. AllEnded'
          BY <2>2, <2>5 DEF AllEnded
        <5>4. BystandersFree'
          BY <1>0, <5>3, BystanderClean, PTL
        <5> QED
          BY <2>5, <5>2, <5>4 DEF BystandersFree
      <4> QED
        BY <4>2, <4>3
    <3> QED
      BY <1>0, <3>1, <3>2
  <2>8. \A u \in Terminal : Bound(u)' /\ Local(u)' /\ Outcome(u)' /\ Ended(u)'
    BY <2>2, <2>7
  <2> QED
    BY <2>3, <2>4, <2>8 DEF CleanInv
<1> QED
  BY <1>2, <1>3, <1>4 DEF Next, Idle

LEMMA CleanStart ==
  ASSUME Unshared, Init
  PROVE  CleanInv
<1>1. /\ case \in Cases /\ at = [t \in Terminal |-> "prompt"]
      /\ told = [t \in Terminal |-> "nothing"]
      /\ inst = [t \in Terminal |-> NoInstall] /\ config = case.config
      /\ claude = case.claude /\ DOMAIN codex = {"root", "cache", "legacy"}
  BY DEF Init, ShellInit, InstallInit
<1>2. Registered
  BY <1>1 DEF Registered, NoInstall, InstallRegister
<1>3. AllLined
  <2>1. DOMAIN config = File /\ \A f \in File : config[f] = Nothing \/ config[f] \in Seq(Line)
    BY <1>1, MachinesAssumption
  <2>2. \A f \in File : Lined(config[f])
    BY <2>1, NothingLined, SeqLined
  <2> QED
    BY <1>1, <2>1, <2>2, NothingLined DEF AllLined, NoInstall
<1>4. EntryKnown
  BY <1>1, MachinesAssumption DEF EntryKnown
<1>5. OnlyPlain(case) \/ OneInstalls(case)
  BY <1>1 DEF Unshared
<1>6. ASSUME NEW t \in Terminal PROVE Bound(t) /\ Local(t) /\ Outcome(t) /\ Ended(t)
  BY <1>1 DEF Bound, Local, Outcome, Ended, InstallPc, FilePc, CodexPc, PluginPc, EntryPc, AllowPc
<1> QED
  BY <1>2, <1>3, <1>4, <1>5, <1>6 DEF CleanInv

LEMMA CleanShown == CleanInv => CleanInstallIsWhole
BY DEF CleanInv, Outcome, CleanInstallIsWhole

-----------------------------------------------------------------------------
\* What a command tells is true, whatever runs beside it, fails or is killed:
\* where a setting comes from (config show), that the user has changed his
\* Compose file (update), that a store should be started (check), and that all
\* clients are installed (install, update).
THEOREM ToldTrue ==
  NoRefill /\ ComposeKnown /\ Unshared => (Spec => []ToldIsTrue)
<1> SUFFICES ASSUME NoRefill, ComposeKnown, Unshared PROVE Spec => []ToldIsTrue
  OBVIOUS
<1> DEFINE ToldInv == /\ MachineInv /\ AdviceInv /\ ReportInv /\ JobInv /\ KnownInv
                      /\ CleanInv
<1>1. Init => ToldInv
  BY MachineStart, AdviceStart, ReportStart, JobStart, KnownStart, CleanStart
<1>2. ToldInv /\ [Next]_machine => ToldInv'
  <2> SUFFICES ASSUME ToldInv, [Next]_machine PROVE ToldInv'
    OBVIOUS
  <2>1. MachineInv' /\ AdviceInv' /\ ReportInv' /\ JobInv'
    BY MachineSteps, AdviceSteps, ReportSteps, JobSteps
  <2>2. Queues /\ Queues'
    BY <2>1 DEF AdviceInv
  <2>3. KnownInv' /\ CleanInv'
    BY <2>1, <2>2, KnownSteps, CleanSteps
  <2> QED
    BY <2>1, <2>3
<1>3. ToldInv => ToldIsTrue
  BY AdviceShown, ReportShown, KnownShown, CleanShown DEF ToldIsTrue
<1> QED
  BY <1>1, <1>2, <1>3, PTL DEF Spec
=============================================================================
