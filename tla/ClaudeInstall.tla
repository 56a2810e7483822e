---------------------------- MODULE ClaudeInstall ----------------------------
(***************************************************************************)
(* Claude Code: the plugin (run_claude_install in                          *)
(* reviewer/install_claude.py), or the MCP entry alone                     *)
(* (_run_claude_mcp_target in entrypoints/cli.py), and after either the    *)
(* rule in permissions.allow.  Nothing is put back when a step fails.      *)
(*                                                                         *)
(* The program claude is external; what it keeps changes by it alone, so   *)
(* that a run of it and the listing that checks it are one step.           *)
(***************************************************************************)
EXTENDS ClientInstall

\* A run of the program: what it does, then the next step if what it lists
\* passes the check.  It may fail with its work done, or not done.
Program(t, done, passes, then) ==
  \/ /\ claude' = done
     /\ IF passes THEN Go(t, then) ELSE Go(t, "native_fails")
  \/ /\ claude' \in {done, claude}
     /\ GoBadly(t, "program", "native_fails")

marketplace_is_canonical(c) == c.market = "ours"

\* Capabilities, and the state that decides between install and update.
claude_read(t) ==
  /\ Runs(t, "claude_read")
  /\ \/ Go(t, "claude_market") /\ Set(t, [before |-> claude.plugin])
     \/ GoBadly(t, "program", "native_fails") /\ UNCHANGED inst
  /\ UNCHANGED <<world, mine, files, homes>>

\* A marketplace of the same name stays where it is from.
claude_market(t) ==
  /\ Runs(t, "claude_market")
  /\ LET done == IF claude.market # "none" THEN claude
                 ELSE [claude EXCEPT !.market = "ours", !.root = world.main]
     IN Program(t, done, marketplace_is_canonical(done), "claude_update")
  /\ UNCHANGED <<world, mine, inst, files, skills, stamp, codex>>

claude_update(t) ==
  /\ Runs(t, "claude_update")
  /\ LET done == [claude EXCEPT !.root = world.main]
     IN Program(t, done, marketplace_is_canonical(done), "claude_plugin")
  /\ UNCHANGED <<world, mine, inst, files, skills, stamp, codex>>

\* An update leaves a plugin that is switched off as it is.
claude_plugin(t) ==
  /\ Runs(t, "claude_plugin")
  /\ LET done == IF inst[t].before = None
                 THEN [claude EXCEPT !.plugin = claude.root, !.enabled = TRUE]
                 ELSE [claude EXCEPT !.plugin = claude.root]
     IN Program(t, done,
                marketplace_is_canonical(done) /\ done.plugin # None /\ done.enabled,
                "allow_plan")
  /\ UNCHANGED <<world, mine, inst, files, skills, stamp, codex>>

---------------------------------------------------------------------------
(* The MCP entry. *)

\* An entry of the project hides the one of the user.
Shown == IF claude.project THEN "project" ELSE claude.user

_claude_mcp_is_canonical(shown) == shown = "ours"

claude_mcp_get(t) ==
  /\ Runs(t, "mcp_get")
  /\ \/ Go(t, IF _claude_mcp_is_canonical(Shown) THEN "allow_plan"
              ELSE IF Shown = "old" THEN "mcp_remove" ELSE "mcp_add")
     \/ GoBadly(t, "program", "native_fails")
  /\ UNCHANGED clients

claude_mcp_remove(t) ==
  /\ Runs(t, "mcp_remove")
  /\ Program(t, [claude EXCEPT !.user = "none"], TRUE, "mcp_add")
  /\ UNCHANGED <<world, mine, inst, files, skills, stamp, codex>>

\* add refuses when there is an entry; what it wrote is shown and compared.
claude_mcp_add(t) ==
  /\ Runs(t, "mcp_add")
  /\ LET done == IF claude.user = "none" THEN [claude EXCEPT !.user = "ours"]
                 ELSE claude
     IN Program(t, done, claude.user = "none" /\ ~claude.project, "allow_plan")
  /\ UNCHANGED <<world, mine, inst, files, skills, stamp, codex>>

---------------------------------------------------------------------------
(* The rule in settings.json. *)

_apply_claude_allowlist(t) ==
  /\ Runs(t, "allow_plan")
  /\ LET plan == build_allowlist_plan(config["settings"]) IN
     IF plan.ok THEN Go(t, "allow_backup") /\ Set(t, [plan |-> plan.content])
     ELSE Go(t, "native_fails") /\ UNCHANGED inst
  /\ UNCHANGED <<world, mine, files, homes>>

allow_backup(t) ==
  /\ Runs(t, "allow_backup")
  /\ IF config["settings"] = inst[t].plan
     THEN NextClient(t) /\ UNCHANGED bak
     ELSE Backup(t, "settings", "allow_write", "client") /\ UNCHANGED inst
  /\ UNCHANGED <<world, mine, config, saved, homes>>

allow_write(t) ==
  /\ Runs(t, "allow_write")
  /\ config' = [config EXCEPT !["settings"] = inst[t].plan]
  /\ NextClient(t)
  /\ UNCHANGED <<world, mine, bak, saved, homes>>

ClaudeStep(t) ==
  \/ claude_read(t)
  \/ claude_market(t)
  \/ claude_update(t)
  \/ claude_plugin(t)
  \/ claude_mcp_get(t)
  \/ claude_mcp_remove(t)
  \/ claude_mcp_add(t)
  \/ _apply_claude_allowlist(t)
  \/ allow_backup(t)
  \/ allow_write(t)
=============================================================================
