----------------------------- MODULE Installers -----------------------------
(***************************************************************************)
(* All the installers of one machine, the people who edit what they write, *)
(* the repository that moves on, and what the installers owe.              *)
(***************************************************************************)
EXTENDS CodexInstall, ClaudeInstall

InstallStep(t) == PlainStep(t) \/ CodexStep(t) \/ ClaudeStep(t)

InstallKilled(t) == inst' = [inst EXCEPT ![t] = NoInstall]

---------------------------------------------------------------------------
(* People.  They edit what no installer is busy with: an edit between the  *)
(* plan and the write, or between the backup of Codex and its restoration, *)
(* is lost to the next .bak or to the restoration.                         *)

Typing == \A t \in Terminal : inst[t] = NoInstall

Edit(f) ==
  /\ Happens("edit") /\ Typing
  /\ config' = [config EXCEPT ![f] = <<"note">> \o Text(config[f])]
  /\ mine' = [mine EXCEPT ![f] = <<"note">> \o mine[f]]
  /\ UNCHANGED <<world, bak, saved, inst, homes>>

EditSkill(s) ==
  /\ Happens("edit_skill") /\ skills[s] # None
  /\ \A t \in Terminal : at[t] \notin {"extract", "stamp"}
  /\ skills' = [skills EXCEPT ![s] = Edited]
  /\ UNCHANGED <<world, mine, inst, files, stamp, codex, claude>>

\* A version is merged, and later it is released.
Merge ==
  /\ Happens("merge") /\ world.main + 1 \in Version
  /\ world' = [world EXCEPT !.main = @ + 1]
  /\ UNCHANGED <<mine, inst, files, homes>>

Release ==
  /\ Happens("release") /\ world.pypi # world.main
  /\ world' = [world EXCEPT !.pypi = world.main]
  /\ UNCHANGED <<mine, inst, files, homes>>

People ==
  \/ \E f \in File : Edit(f)
  \/ \E s \in Skill : EditSkill(s)
  \/ Merge
  \/ Release

---------------------------------------------------------------------------
(* What the user wrote in a configuration file is still to be had, in the  *)
(* file or in a backup of it, at every moment: .bak is written before the  *)
(* file, the TOML surgery takes no line of another table, and a rollback   *)
(* writes back what was there.                                             *)
ConfigIsRecoverable ==
  \A f \in File :
    \E c \in {config[f], bak[f]} \cup (IF f = "codex" THEN saved ELSE {}) :
      UserLines(f, c) = mine[f]

\* Skills that reviewer check does not call stale are all there, as the
\* archive of that version has them: a partial installation, a killed one
\* and a hand-edited skill are seen (skills_staleness).
FreshSkillsAreWhole ==
  ~skills_staleness(world.main) =>
    \A s \in Shipped[world.main] : skills[s] = world.main

---------------------------------------------------------------------------
(* A command that ended without an error did all it was asked to do.       *)

LastJob(t) == case.todo[t][Len(case.todo[t]) - Len(todo[t])]

\* What an installation leaves for a client.
Installed(c, no_skills) ==
  CASE c = "claude-code" ->
         /\ "rule" \in ToSet(config["settings"])
         /\ IF no_skills THEN Shown = "ours"
            ELSE claude.plugin # None /\ claude.enabled
    [] c = "codex" ->
         /\ "ours" \in ToSet(config["codex"])
         /\ no_skills \/ Plugin(config["codex"]) = world.tool
    [] OTHER -> "ours" \in ToSet(config[c])

\* Whom a command was to install, and whether without skills.
Wanted(job) ==
  CASE job.run = "install" /\ ~job.all -> {job.client}
    [] job.run = "update" \/ (job.run = "install" /\ job.all) -> case.clients
    [] OTHER -> {}
Bare(job) == job.run = "install" /\ job.no_skills

\* install and update end well only if every client they were for has its
\* entry, its plugin and its rule: install --all goes on after a client that
\* fails, and still says so at the end.
CleanInstallIsWhole ==
  \A t \in Terminal :
    at[t] = "prompt" /\ told[t] = "ok" =>
      \A c \in Wanted(LastJob(t)) : Installed(c, Bare(LastJob(t)))
=============================================================================
