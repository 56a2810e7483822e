---------------------------- MODULE ClientInstall ----------------------------
(***************************************************************************)
(* reviewer install and reviewer install-skills: the entry of the MCP      *)
(* server in the configuration of every AI client, the skills in its       *)
(* directory, and the plugins of Codex and of Claude Code, which their own *)
(* command-line programs install (reviewer/install.py, install_codex.py,   *)
(* install_claude.py, and the commands in entrypoints/cli.py).             *)
(*                                                                         *)
(* Simplifications.  One JSON client without a skills directory (cursor)   *)
(* and one with (kimi) stand for the ten there are.  A file is replaced in *)
(* one step, the trouble "torn" excepted: there the machine goes down when *)
(* the old content is already gone.  The programs codex and claude are     *)
(* external; a run of one does its work or not, and says so or not.        *)
(***************************************************************************)
EXTENDS Commands, ConfigFiles

CONSTANTS
  Skill,      \* the skills that the repository has, or had
  Shipped     \* the ones of each version, by version

ASSUME ShippedAssumption == Shipped \in Seq(SUBSET Skill)

Version == DOMAIN Shipped
None == 0                         \* no version: it is not there
Edited == Len(Shipped) + 1        \* a skill that its user has rewritten
VersionOrNone == {None} \cup Version

CONSTANT HadSkills   \* the skills an old installer gave Codex, and how they are

ASSUME HadAssumption == HadSkills \in [Skill -> {"none", "owned", "changed"}]

AIClient == {"claude-code", "cursor", "kimi", "codex"}
File == {"cursor", "kimi", "settings", "codex"}

VARIABLES
  world,      \* main: version of the repository; pypi: the released one;
              \* tool: the one installed here
  config,     \* the file of each client; settings is Claude's
  bak,        \* the .bak beside it
  saved,      \* the backups with names of their own: Codex only
  skills,     \* what kimi's directory holds, by skill
  stamp,      \* .reviewer-skills.json there
  codex,      \* what the codex program keeps outside its configuration
  claude,     \* what the claude program keeps
  inst,       \* the registers of the installer at each terminal
  mine        \* the lines of the user in each file: as last left by him

clients == <<world, config, bak, saved, skills, stamp, codex, claude, inst,
             mine>>

files == <<config, bak, saved>>
homes == <<skills, stamp, codex, claude>>

NoStamp == [etag |-> None, pkg |-> None, hashes |-> [s \in Skill |-> None]]

NoInstall ==
  [targets |-> << >>, all |-> FALSE, no_skills |-> FALSE, skills_only |-> FALSE,
   errors |-> FALSE, tar |-> None, offline |-> FALSE, left |-> {},
   plan |-> Nothing, pkg |-> None, snapshot |-> Nothing, market |-> "none",
   before |-> None, expected |-> None, moved |-> {}]

InstallInit ==
  /\ world = case.world
  /\ config = case.config
  /\ bak = [f \in File |-> Nothing]
  /\ saved = {}
  /\ skills = case.skills /\ stamp = case.stamp
  /\ codex = [root |-> case.codex.root, cache |-> case.codex.cache,
              legacy |-> IF case.codex.legacy THEN HadSkills
                         ELSE [s \in Skill |-> "none"]]
  /\ claude = case.claude
  /\ inst = [t \in Terminal |-> NoInstall]
  /\ mine = [f \in File |-> UserLines(f, case.config[f])]

InstallOK ==
  /\ world \in [main : Version, pypi : VersionOrNone, tool : Version]
  /\ \A f \in File :
       /\ config[f] = Nothing \/ ToSet(config[f]) \subseteq Line
       /\ bak[f] = Nothing \/ ToSet(bak[f]) \subseteq Line
       /\ ToSet(mine[f]) \subseteq Line
  /\ skills \in [Skill -> VersionOrNone \cup {Edited}]
  /\ stamp.etag \in VersionOrNone /\ stamp.pkg \in VersionOrNone
  /\ stamp.hashes \in [Skill -> VersionOrNone \cup {Edited}]
  /\ codex.root \in VersionOrNone /\ codex.cache \in VersionOrNone
  /\ codex.legacy \in [Skill -> {"none", "owned", "changed", "backup"}]
  /\ claude.market \in {"none", "ours", "foreign"}
  /\ claude.plugin \in VersionOrNone /\ claude.root \in VersionOrNone
  /\ claude.enabled \in BOOLEAN
  /\ claude.user \in {"none", "old", "ours"} /\ claude.project \in BOOLEAN
  /\ \A t \in Terminal : inst[t].moved \subseteq Skill

Set(t, r) == inst' = [inst EXCEPT ![t] = Over(r, inst[t])]

\* The installer ends, and forgets.
Finish(t, how) ==
  /\ Ends(t, how)
  /\ inst' = [inst EXCEPT ![t] = NoInstall]

Client(t) == Head(inst[t].targets)
Rest(t) == Tail(inst[t].targets)

\* This client is done.
NextClient(t) == Go(t, "client") /\ Set(t, [targets |-> Rest(t)])

\* A ClickException of a native client: install --all notes it and goes on.
native_fails(t) ==
  /\ Runs(t, "native_fails")
  /\ IF inst[t].all
     THEN Go(t, "client") /\ Set(t, [targets |-> Rest(t), errors |-> TRUE])
     ELSE Finish(t, "error")
  /\ UNCHANGED <<world, mine, files, homes>>

\* An exception that nobody catches.
give_up(t) ==
  /\ Runs(t, "give_up") /\ Finish(t, "error")
  /\ UNCHANGED <<world, mine, files, homes>>

---------------------------------------------------------------------------
(* The command line. *)

\* A client that is on this machine.
Detected(c) == IF c \in case.clients THEN <<c>> ELSE << >>

\* What --all means: Claude Code first, Codex last unless it has a file.
detect_installed ==
  Detected("claude-code") \o Detected("cursor") \o Detected("kimi")
    \o Detected("codex")

_has_detected_clients == case.clients # {}

install(t) ==
  /\ Starts(t, "install")
  /\ inst' = [inst EXCEPT ![t] =
       [NoInstall EXCEPT
          !.targets = IF Job(t).all THEN detect_installed ELSE <<Job(t).client>>,
          !.all = Job(t).all, !.no_skills = Job(t).no_skills,
          !.pkg = world.tool]]
  /\ Go(t, "client")
  /\ UNCHANGED <<world, mine, files, homes>>

\* Codex comes first here, and its failure is the end of the command.
install_skills(t) ==
  /\ Starts(t, "install-skills")
  /\ inst' = [inst EXCEPT ![t] =
       [NoInstall EXCEPT
          !.targets = IF Job(t).all THEN Detected("codex") \o Detected("kimi")
                      ELSE <<Job(t).client>>,
          !.skills_only = TRUE, !.pkg = world.tool]]
  /\ Go(t, "client")
  /\ UNCHANGED <<world, mine, files, homes>>

\* The loop over the clients.
install_client(t) ==
  /\ Runs(t, "client")
  /\ IF inst[t].targets = << >>
     THEN Finish(t, IF inst[t].errors THEN "error" ELSE "ok")
     ELSE /\ UNCHANGED inst
          /\ Go(t, CASE Client(t) = "claude-code" ->
                          IF inst[t].no_skills THEN "mcp_get" ELSE "claude_read"
                     [] Client(t) = "codex" /\ ~inst[t].no_skills -> "codex_read"
                     [] Client(t) = "kimi" /\ inst[t].skills_only -> "skills"
                     [] OTHER -> "plain_plan")
  /\ UNCHANGED <<world, mine, files, homes>>

---------------------------------------------------------------------------
(* A client with a configuration file of its own. *)

\* Whatever goes wrong here is no ClickException, and ends the command.
plain_plan(t) ==
  /\ Runs(t, "plain_plan")
  /\ LET plan == build_plan(Client(t), config[Client(t)]) IN
     IF plan.ok THEN Go(t, "plain_backup") /\ Set(t, [plan |-> plan.content])
     ELSE Finish(t, "error")
  /\ UNCHANGED <<world, mine, files, homes>>

\* The first half of _write_with_backup: nothing to do, or a .bak.
Backup(t, f, then, done) ==
  IF config[f] = inst[t].plan
  THEN Go(t, done) /\ UNCHANGED bak
  ELSE /\ Go(t, then)
       /\ bak' = IF config[f] = Nothing THEN bak
                 ELSE [bak EXCEPT ![f] = config[f]]

\* The second half.
Write(t, f, then) ==
  /\ config' = [config EXCEPT ![f] = inst[t].plan]
  /\ Go(t, then)

plain_backup(t) ==
  /\ Runs(t, "plain_backup")
  /\ Backup(t, Client(t), "plain_write", "skills")
  /\ UNCHANGED <<world, mine, inst, config, saved, homes>>

plain_write(t) ==
  /\ Runs(t, "plain_write")
  /\ Write(t, Client(t), "skills")
  /\ UNCHANGED <<world, mine, inst, bak, saved, homes>>

\* The machine goes down when write_bytes has truncated the file.
TornWrite(t) ==
  /\ at[t] \in {"plain_write", "allow_write", "codex_write"}
  /\ May("torn") /\ Spend("torn")
  /\ LET f == IF at[t] = "plain_write" THEN Client(t)
              ELSE IF at[t] = "allow_write" THEN "settings" ELSE "codex"
     IN config' = [config EXCEPT ![f] = << >>]
  /\ at' = [at EXCEPT ![t] = "prompt"] /\ caller' = [caller EXCEPT ![t] = "shell"]
  /\ told' = [told EXCEPT ![t] = "killed"]
  /\ todo' = [todo EXCEPT ![t] = Tail(todo[t])]
  /\ inst' = [inst EXCEPT ![t] = NoInstall]
  /\ UNCHANGED case
  /\ UNCHANGED <<world, mine, bak, saved, homes>>

---------------------------------------------------------------------------
(* Skills as files. *)

\* _ensure_skills: the archive is fetched once for all clients, and install
\* remembers a fetch that failed and does without; install-skills ends.
_ensure_skills(t) ==
  /\ Runs(t, "skills")
  /\ IF Client(t) # "kimi" \/ inst[t].no_skills \/ inst[t].offline
     THEN NextClient(t)
     ELSE LET tar == IF inst[t].tar = None THEN world.main ELSE inst[t].tar IN
          \/ /\ Go(t, "extract")
             /\ Set(t, [tar |-> tar, left |-> Shipped[tar]])
          \/ /\ inst[t].tar = None
             /\ IF inst[t].skills_only
                THEN GoBadly(t, "offline", "give_up") /\ UNCHANGED inst
                ELSE /\ GoBadly(t, "offline", "client")
                     /\ Set(t, [targets |-> Rest(t), offline |-> TRUE])
  /\ UNCHANGED <<world, mine, files, homes>>

\* Seeded fault: the directory is stamped anew after each skill.
extract_skills_stamped(t) ==
  /\ Runs(t, "extract")
  /\ IF inst[t].left = {}
     THEN NextClient(t) /\ UNCHANGED <<skills, stamp>>
     ELSE \E s \in inst[t].left :
            /\ skills' = [skills EXCEPT ![s] = inst[t].tar]
            /\ stamp' = [etag |-> inst[t].tar, pkg |-> inst[t].pkg,
                         hashes |-> [skills EXCEPT ![s] = inst[t].tar]]
            /\ Set(t, [left |-> inst[t].left \ {s}])
            /\ Go(t, "extract")
  /\ UNCHANGED <<world, mine, files, codex, claude>>

\* extract_skills: one skill after the other; what is there and not in the
\* archive stays.
extract_skills(t) ==
  /\ Runs(t, "extract")
  /\ IF inst[t].left = {}
     THEN Go(t, "stamp") /\ UNCHANGED <<inst, skills>>
     ELSE \E s \in inst[t].left :
            /\ skills' = [skills EXCEPT ![s] = inst[t].tar]
            /\ Set(t, [left |-> inst[t].left \ {s}])
            /\ Go(t, "extract")
  /\ UNCHANGED <<world, mine, files, stamp, codex, claude>>

\* The disk is full: no stamp is written.  install goes on all the same.
ExtractFails(t) ==
  /\ Runs(t, "extract") /\ inst[t].left # {}
  /\ IF inst[t].skills_only
     THEN GoBadly(t, "disk", "give_up") /\ UNCHANGED inst
     ELSE GoBadly(t, "disk", "client") /\ Set(t, [targets |-> Rest(t)])
  /\ UNCHANGED <<world, mine, files, homes>>

\* What lies in the directory now, by its content.
_skill_file_hashes == skills

\* Without the ETag of its archive the stamp would say less.
write_skills_stamp(etag, pkg) ==
  stamp' = [etag |-> etag, pkg |-> pkg, hashes |-> _skill_file_hashes]

stamp_skills_dir(t) ==
  /\ Runs(t, "stamp")
  /\ write_skills_stamp(inst[t].tar, inst[t].pkg)
  /\ NextClient(t)
  /\ UNCHANGED <<world, mine, files, skills, codex, claude>>

\* Whether reviewer check says that the skills are stale; upstream is the
\* ETag of the archive, or None when there is no network.
skills_staleness(upstream) ==
  \/ stamp = NoStamp
  \/ stamp.hashes # _skill_file_hashes
  \/ upstream # None /\ stamp.etag # upstream
  \/ upstream = None /\ stamp.pkg # world.tool

PlainStep(t) ==
  \/ install(t)
  \/ install_skills(t)
  \/ install_client(t)
  \/ native_fails(t)
  \/ give_up(t)
  \/ plain_plan(t)
  \/ plain_backup(t)
  \/ plain_write(t)
  \/ TornWrite(t)
  \/ _ensure_skills(t)
  \/ extract_skills(t)
  \/ ExtractFails(t)
  \/ stamp_skills_dir(t)
=============================================================================
