--------------------------- MODULE UpdateLifecycle ---------------------------
(***************************************************************************)
(* reviewer update: the package, then the Compose file, then every client  *)
(* again (update in reviewer/entrypoints/cli.py, update_lifecycle.py,      *)
(* versioning.py).  Two of them may run at once; the Compose file is under *)
(* a lock, the rest is not.                                                *)
(*                                                                         *)
(* The package index, uv and the download are external.  In the mode uvx   *)
(* world.tool is the version that runs; with --upgrade-tool it is the      *)
(* persistent one, and the newest runs.  A lock file that cannot be opened *)
(* is as a download that fails: the Compose file has not been looked at.   *)
(***************************************************************************)
EXTENDS Installers

Modes == {"editable", "uv_tool", "uvx", "unknown"}

VARIABLES
  compose,   \* file: what docker-compose.yml holds; link: it is a symlink;
             \* recorded: the digest in .reviewer-update.json
  lock,      \* who holds .reviewer-update.lock, or "nobody"
  upd        \* the registers of the update at each terminal

updates == <<compose, lock, upd>>

Nobody == "nobody"
ASSUME NobodyAssumption == Nobody \notin Terminal

NoUpdate == [content |-> None, existing |-> None, action |-> "none",
             failed |-> FALSE]
Action == {"none", "created", "adopted", "current", "updated", "preserved"}

UpdateInit ==
  /\ compose = case.compose
  /\ lock = Nobody
  /\ upd = [t \in Terminal |-> NoUpdate]

UpdateOK ==
  /\ compose.file \in VersionOrNone \cup {Edited}
  /\ compose.recorded \in VersionOrNone /\ compose.link \in BOOLEAN
  /\ lock \in Terminal \cup {Nobody}
  /\ \A t \in Terminal : upd[t].content \in VersionOrNone /\ upd[t].action \in Action

Note(t, r) == upd' = [upd EXCEPT ![t] = Over(r, upd[t])]

---------------------------------------------------------------------------
(* The package. *)

\* detect_installation decides; --upgrade-tool asks no index.
Updates(t, upgrade_tool) ==
  Go(t, IF case.mode = "editable" THEN "compose_fetch"
        ELSE IF upgrade_tool /\ case.mode = "uvx" THEN "upgrade"
        ELSE "latest")

update(t) ==
  /\ Starts(t, "update") /\ Updates(t, Job(t).upgrade_tool)
  /\ UNCHANGED <<clients, updates>>

\* Newer than what is installed, as far as the index can be asked.
UpgradeDue == case.mode = "uv_tool" /\ world.pypi > world.tool

check_latest(t) ==
  /\ Runs(t, "latest")
  /\ \/ Go(t, IF UpgradeDue THEN "upgrade" ELSE "compose_fetch")
     \/ GoBadly(t, "offline", "compose_fetch")
     \/ UpgradeDue /\ GoBadly(t, "no_uv", "update_advises")
  /\ UNCHANGED <<clients, updates>>

upgrade_uv_tool(t) ==
  /\ Runs(t, "upgrade")
  /\ \/ /\ Go(t, "fresh")
        /\ world' = [world EXCEPT !.tool = IF world.pypi > @ THEN world.pypi ELSE @]
     \/ /\ GoBadly(t, "program", "update_fails") /\ UNCHANGED world
  /\ UNCHANGED <<config, bak, saved, homes, inst, mine, updates>>

\* The new package is run for the rest, if its Python is found.
run_fresh_artifact_refresh(t) ==
  /\ Runs(t, "fresh")
  /\ Go(t, "compose_fetch") \/ GoBadly(t, "program", "update_fails")
  /\ UNCHANGED <<clients, updates>>

---------------------------------------------------------------------------
(* The Compose file. *)

\* An error here is noted, and the clients have their turn all the same.
download_compose(t) ==
  /\ Runs(t, "compose_fetch")
  /\ \/ Go(t, "compose_lock") /\ Note(t, [content |-> world.main])
     \/ GoBadly(t, "offline", "update_clients") /\ Note(t, [failed |-> TRUE])
  /\ UNCHANGED <<clients, compose, lock>>

\* flock waits.
_update_lock(t) ==
  /\ Runs(t, "compose_lock") /\ lock = Nobody
  /\ lock' = t
  /\ Go(t, "compose_read")
  /\ UNCHANGED <<clients, compose, upd>>

\* The digest of the file that an update wrote last.
_read_recorded_hash == compose.recorded

Preserve(t) == Go(t, "compose_unlock") /\ Note(t, [action |-> "preserved"])

\* An error while the lock is held: no result, and the lock goes.
NoResult(t) == Note(t, [action |-> "none", failed |-> TRUE])

sync_compose_file(t) ==
  /\ Runs(t, "compose_read")
  /\ LET content == upd[t].content IN
     CASE compose.link -> Preserve(t)
       [] ~compose.link /\ compose.file = content ->
            /\ Go(t, "compose_state")
            /\ Note(t, [action |-> IF _read_recorded_hash = content THEN "current"
                                   ELSE "adopted"])
       [] ~compose.link /\ compose.file = None ->
            Go(t, "compose_create") /\ UNCHANGED upd
       [] ~compose.link /\ compose.file \notin {content, None}
          /\ _read_recorded_hash = compose.file ->
            Go(t, "compose_again") /\ Note(t, [existing |-> compose.file])
       [] OTHER -> Preserve(t)
  /\ UNCHANGED <<clients, compose, lock>>

\* It is read again just before it is replaced, which a file that is gone
\* by now makes an error.
compose_again(t) ==
  /\ Runs(t, "compose_again")
  /\ CASE compose.file = None -> Go(t, "compose_unlock") /\ NoResult(t)
       [] compose.file = upd[t].existing -> Go(t, "compose_replace") /\ UNCHANGED upd
       [] compose.file # None /\ compose.file # upd[t].existing
          /\ compose.file = upd[t].content ->
            Go(t, "compose_state") /\ Note(t, [action |-> "current"])
       [] OTHER -> Preserve(t)
  /\ UNCHANGED <<clients, compose, lock>>

\* _atomic_write
compose_replace(t) ==
  /\ Runs(t, "compose_replace")
  /\ compose' = [compose EXCEPT !.file = upd[t].content]
  /\ Go(t, "compose_state") /\ Note(t, [action |-> "updated"])
  /\ UNCHANGED <<clients, lock>>

\* _atomic_create: a link, which a file that is there by now refuses.
compose_create(t) ==
  /\ Runs(t, "compose_create")
  /\ IF compose.file = None
     THEN /\ compose' = [compose EXCEPT !.file = upd[t].content]
          /\ Go(t, "compose_state") /\ Note(t, [action |-> "created"])
     ELSE Preserve(t) /\ UNCHANGED compose
  /\ UNCHANGED <<clients, lock>>

_write_state(t) ==
  /\ Runs(t, "compose_state")
  /\ compose' = [compose EXCEPT !.recorded = upd[t].content]
  /\ Go(t, "compose_unlock")
  /\ UNCHANGED <<clients, lock, upd>>

\* A file that cannot be read or written is left as it is.
compose_error(t) ==
  /\ at[t] \in {"compose_read", "compose_again", "compose_replace", "compose_create",
               "compose_state"}
  /\ GoBadly(t, "disk", "compose_unlock") /\ NoResult(t)
  /\ UNCHANGED <<clients, compose, lock>>

compose_unlock(t) ==
  /\ Runs(t, "compose_unlock")
  /\ lock' = Nobody
  /\ Go(t, "update_clients")
  /\ UNCHANGED <<clients, compose, upd>>

---------------------------------------------------------------------------
(* The clients. *)

\* _install_detected_clients: install --all, as if it were typed.
_refresh_update_artifacts(t) ==
  /\ Runs(t, "update_clients")
  /\ IF _has_detected_clients
     THEN /\ Calls(t, "client", "update_after")
          /\ inst' = [inst EXCEPT ![t] =
               [NoInstall EXCEPT !.targets = detect_installed, !.all = TRUE,
                                 !.pkg = world.tool]]
     ELSE Go(t, "update_done") /\ UNCHANGED inst
  /\ UNCHANGED <<world, mine, files, homes, updates>>

update_after(t) ==
  /\ Runs(t, "update_after")
  /\ Note(t, [failed |-> upd[t].failed \/ told[t] = "error"])
  /\ Go(t, "update_done")
  /\ UNCHANGED <<clients, compose, lock>>

UpdateEnds(t, how) ==
  /\ Ends(t, how)
  /\ upd' = [upd EXCEPT ![t] = NoUpdate]
  /\ UNCHANGED <<clients, compose, lock>>

update_done(t) ==
  Runs(t, "update_done") /\ UpdateEnds(t, IF upd[t].failed THEN "error" ELSE "ok")

update_fails(t) == Runs(t, "update_fails") /\ UpdateEnds(t, "error")

\* Without uv the user is told what to run, and nothing is refreshed.
update_advises(t) == Runs(t, "update_advises") /\ UpdateEnds(t, "advised")

UpdateStep(t) ==
  \/ update(t)
  \/ check_latest(t)
  \/ upgrade_uv_tool(t)
  \/ run_fresh_artifact_refresh(t)
  \/ download_compose(t)
  \/ _update_lock(t)
  \/ sync_compose_file(t)
  \/ compose_again(t)
  \/ compose_replace(t)
  \/ compose_create(t)
  \/ _write_state(t)
  \/ compose_error(t)
  \/ compose_unlock(t)
  \/ _refresh_update_artifacts(t)
  \/ update_after(t)
  \/ update_done(t)
  \/ update_fails(t)
  \/ update_advises(t)

\* The lock goes with the process that has it.
UpdateKilled(t) ==
  /\ upd' = [upd EXCEPT ![t] = NoUpdate]
  /\ lock' = IF lock = t THEN Nobody ELSE lock
  /\ UNCHANGED compose

\* The user changes the file, or removes it, at any moment but one: what he
\* writes between the second reading and the replacement is lost.
EditCompose ==
  /\ Happens("edit_compose") /\ ~compose.link
  /\ \A t \in Terminal :
       at[t] # "compose_replace" \/ "edit_any_time" \in case.trouble
  /\ \E file \in {Edited, None} : compose' = [compose EXCEPT !.file = file]
  /\ UNCHANGED <<clients, lock, upd>>

---------------------------------------------------------------------------
(* A Compose file that the user has changed stays as he left it, although  *)
(* two updates may run and he may write while they read.                   *)
UserComposeIsKept ==
  [][compose.file = Edited /\ compose'.file # Edited =>
       /\ compose'.file = None
       /\ \A t \in Terminal : at'[t] = at[t]]_compose

\* The warning that the file was left because its user has changed it is
\* true: a file that an update wrote is recognised as such by the next one.
PreservedMeansEdited ==
  \A t \in Terminal :
    at[t] = "compose_unlock" /\ upd[t].action = "preserved" =>
      compose.link \/ compose.file \in {Edited, None}
=============================================================================
