---------------------------- MODULE CodexInstall ----------------------------
(***************************************************************************)
(* run_codex_install (reviewer/install_codex.py): the plugin of Codex, its *)
(* MCP entry, and the move of the skills that an earlier installer left.   *)
(* The configuration is backed up first; whatever fails later puts it back *)
(* to the byte.                                                            *)
(*                                                                         *)
(* The program codex is external.  It keeps the marketplace and the chosen *)
(* plugin as tables of config.toml, the copy of the marketplace and the    *)
(* plugin it installed elsewhere.                                          *)
(***************************************************************************)
EXTENDS ClientInstall

Append1(raw, line) ==
  IF line \in ToSet(Text(raw)) THEN raw ELSE Append(Text(raw), line)

---------------------------------------------------------------------------
(* What is read. *)

\* The marketplace in config.toml; nothing else than the canonical one will do.
_configured_marketplace_metadata(raw) ==
  LET has == ToSet(Text(raw)) IN
  CASE "broken" \in has \/ "foreign" \in has -> "error"
    [] "market" \in has -> "ours"
    [] OTHER -> "none"

\* What a generation of the program says of it: everything; the source and
\* no ref; the source in the place where it used to be; no source.
Generation == {"full", "source", "legacy", "other"}

\* The source that is told must be that of the configuration; a ref that is
\* not told is taken from there.
_merge_marketplace_metadata(lists, configured) ==
  [source |-> IF lists = "other" THEN "unknown" ELSE configured,
   whole |-> lists = "full" \/ configured = "ours"]

marketplace_is_owned(m) == m.source = "ours" /\ m.whole

Plugin(raw) == IF "plugin" \in ToSet(Text(raw)) THEN codex.cache ELSE None

read_codex_state(raw) ==
  LET configured == _configured_marketplace_metadata(raw) IN
  IF configured = "error" THEN [ok |-> FALSE]
  ELSE [ok |-> TRUE, plugin |-> Plugin(raw), market |->
          IF configured = "none" THEN "none"
          ELSE IF marketplace_is_owned(
                    _merge_marketplace_metadata(case.codex.lists, configured))
               THEN "owned" ELSE "not_owned"]

\* _verify_marketplace_ownership
Owned(raw) == LET s == read_codex_state(raw) IN s.ok /\ s.market = "owned"

\* The copy is whole, by its digest, and of the version that runs.
verify_marketplace_snapshot(t) == codex.root = inst[t].pkg

_verified_installed(t, raw) == Plugin(raw) = inst[t].expected

---------------------------------------------------------------------------
(* The steps. *)

\* build_codex_plugin_plan, and the preview of the MCP entry.
codex_read(t) ==
  /\ Runs(t, "codex_read")
  /\ LET s == read_codex_state(config["codex"]) IN
     IF /\ s.ok /\ s.market # "not_owned"
        /\ inst[t].skills_only \/ build_plan("codex", config["codex"]).ok
     THEN /\ Go(t, "codex_snapshot")
          /\ Set(t, [before |-> s.plugin,
                     market |-> IF s.market = "none" THEN "add" ELSE "upgrade"])
     ELSE Go(t, "native_fails") /\ UNCHANGED inst
  /\ UNCHANGED <<world, mine, files, homes>>

\* A backup with a name of its own; of a file that is not there, an empty one.
_snapshot_config(t) ==
  /\ Runs(t, "codex_snapshot")
  /\ saved' = saved \cup {Text(config["codex"])}
  /\ Set(t, [snapshot |-> config["codex"]])
  /\ Go(t, "codex_market")
  /\ UNCHANGED <<world, mine, config, bak, homes>>

\* codex plugin marketplace add, or upgrade.
codex_market(t) ==
  /\ Runs(t, "codex_market")
  /\ IF inst[t].market = "add"
     THEN config' = [config EXCEPT !["codex"] = Append1(@, "market")]
     ELSE UNCHANGED config
  /\ codex' = [codex EXCEPT !.root = world.main]
  /\ Go(t, "codex_verify") \/ GoBadly(t, "program", "codex_restore")
  /\ UNCHANGED <<world, mine, inst, bak, saved, skills, stamp, claude>>

\* The stamp of the installer, or the bytes of the plugin, tell a skill that is
\* still as the installer left it.
_stamp_owned(s) == codex.legacy[s] = "owned"

\* Of those, the ones that the plugin brings.
find_owned_legacy_skills(v) == {s \in Shipped[v] : _stamp_owned(s)}

\* Seeded fault: the old skills go before the plugin is there.
codex_verify_migrating(t) ==
  /\ Runs(t, "codex_verify")
  /\ IF Owned(config["codex"]) /\ verify_marketplace_snapshot(t)
     THEN /\ Set(t, [expected |-> codex.root])
          /\ codex' = [codex EXCEPT !.legacy = [s \in Skill |->
               IF s \in find_owned_legacy_skills(codex.root) THEN "backup"
               ELSE codex.legacy[s]]]
          /\ Go(t, IF inst[t].skills_only THEN "codex_add" ELSE "codex_mcp")
     ELSE Go(t, "codex_restore") /\ UNCHANGED <<inst, codex>>
  /\ UNCHANGED <<world, mine, files, skills, stamp, claude>>

codex_verify(t) ==
  /\ Runs(t, "codex_verify")
  /\ IF Owned(config["codex"]) /\ verify_marketplace_snapshot(t)
     THEN /\ Set(t, [expected |-> codex.root])
          /\ Go(t, IF inst[t].skills_only THEN "codex_add" ELSE "codex_mcp")
     ELSE Go(t, "codex_restore") /\ UNCHANGED inst
  /\ UNCHANGED <<world, mine, files, homes>>

\* The plan is made again, of the file as it is by now.
codex_mcp(t) ==
  /\ Runs(t, "codex_mcp")
  /\ LET plan == build_plan("codex", config["codex"]) IN
     IF plan.ok THEN Go(t, "codex_backup") /\ Set(t, [plan |-> plan.content])
     ELSE Go(t, "codex_restore") /\ UNCHANGED inst
  /\ UNCHANGED <<world, mine, files, homes>>

codex_backup(t) ==
  /\ Runs(t, "codex_backup")
  /\ Backup(t, "codex", "codex_write", "codex_add")
  /\ UNCHANGED <<world, mine, inst, config, saved, homes>>

codex_write(t) ==
  /\ Runs(t, "codex_write")
  /\ Write(t, "codex", "codex_add")
  /\ UNCHANGED <<world, mine, inst, bak, saved, homes>>

\* codex plugin add.
codex_add(t) ==
  /\ Runs(t, "codex_add")
  /\ config' = [config EXCEPT !["codex"] = Append1(@, "plugin")]
  /\ codex' = [codex EXCEPT !.cache = codex.root]
  /\ Go(t, "codex_post") \/ GoBadly(t, "program", "codex_restore")
  /\ UNCHANGED <<world, mine, inst, bak, saved, skills, stamp, claude>>

\* A program that fails may have done nothing.
CodexProgramFails(t) ==
  /\ at[t] \in {"codex_market", "codex_add"}
  /\ GoBadly(t, "program", "codex_restore")
  /\ UNCHANGED clients

\* Or it tells us that it cannot do what is wanted, before anything is done.
CodexProgramLacks(t) ==
  /\ at[t] = "codex_read"
  /\ GoBadly(t, "program", "native_fails")
  /\ UNCHANGED clients

codex_post(t) ==
  /\ Runs(t, "codex_post")
  /\ IF /\ Owned(config["codex"]) /\ _verified_installed(t, config["codex"])
        /\ inst[t].skills_only \/ _verify_mcp_config(config["codex"])
     THEN /\ Set(t, [left |-> find_owned_legacy_skills(inst[t].expected)])
          /\ Go(t, "codex_migrate")
     ELSE Go(t, "codex_restore") /\ UNCHANGED inst
  /\ UNCHANGED <<world, mine, files, homes>>

\* One skill after the other goes to reviewer-legacy-backups.
migrate_legacy_skills(t) ==
  /\ Runs(t, "codex_migrate")
  /\ IF inst[t].left = {} THEN NextClient(t) /\ UNCHANGED codex
     ELSE \E s \in inst[t].left :
            \/ /\ codex' = [codex EXCEPT !.legacy[s] = "backup"]
               /\ Set(t, [left |-> inst[t].left \ {s},
                          moved |-> inst[t].moved \cup {s}])
               /\ Go(t, "codex_migrate")
            \/ /\ GoBadly(t, "move", "codex_unmove")
               /\ UNCHANGED <<inst, codex>>
  /\ UNCHANGED <<world, mine, files, skills, stamp, claude>>

\* One that cannot be moved calls the others back; that is a warning only,
\* unless the way back fails as well.
migration_undone(t) ==
  /\ Runs(t, "codex_unmove")
  /\ IF inst[t].moved = {} THEN NextClient(t) /\ UNCHANGED codex
     ELSE \E s \in inst[t].moved :
            \/ /\ codex' = [codex EXCEPT !.legacy[s] = "owned"]
               /\ Set(t, [moved |-> inst[t].moved \ {s}])
               /\ Go(t, "codex_unmove")
            \/ /\ GoBadly(t, "move_back", "codex_restore")
               /\ UNCHANGED <<inst, codex>>
  /\ UNCHANGED <<world, mine, files, skills, stamp, claude>>

\* The configuration as it was, or no file where there was none; then it is
\* read again, and what the user hears depends on whether the plugin is what
\* it was.  The error is told either way.
_restore_configs(t) ==
  /\ Runs(t, "codex_restore")
  /\ config' = [config EXCEPT !["codex"] = inst[t].snapshot]
  /\ Go(t, "native_fails")
  /\ UNCHANGED <<world, mine, inst, bak, saved, homes>>

CodexStep(t) ==
  \/ codex_read(t)
  \/ _snapshot_config(t)
  \/ codex_market(t)
  \/ codex_verify(t)
  \/ codex_mcp(t)
  \/ codex_backup(t)
  \/ codex_write(t)
  \/ codex_add(t)
  \/ codex_post(t)
  \/ migrate_legacy_skills(t)
  \/ migration_undone(t)
  \/ _restore_configs(t)
  \/ CodexProgramFails(t)
  \/ CodexProgramLacks(t)

---------------------------------------------------------------------------
(* Whoever had the skills of an earlier installer keeps them, there or in  *)
(* the plugin, whatever fails and whenever the command is killed, as long  *)
(* as one installer runs at a time: a skill is in the backup only while    *)
(* the plugin is chosen and installed.  A move that fails and whose way    *)
(* back fails too is the exception, on a machine that had no plugin: the   *)
(* configuration is put back and what was moved stays in the backup.       *)
CodexKeepsItsSkills ==
  (\E s \in Skill : codex.legacy[s] = "backup") =>
    \/ Plugin(config["codex"]) # None
    \/ "move_back" \in ToSet(spent) /\ "plugin" \notin ToSet(Text(case.config["codex"]))
=============================================================================
