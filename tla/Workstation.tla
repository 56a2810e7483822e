----------------------------- MODULE Workstation -----------------------------
(***************************************************************************)
(* A workstation: every command of reviewer that works on the files and    *)
(* the programs of its user, at several terminals at once, with the people *)
(* and the troubles around them.  A case says which.                       *)
(***************************************************************************)
EXTENDS Services, HomeConfig, PolicyMerge, Launcher

\* A case describes a machine as the commands, or their user, have left it.
ASSUME MachinesAssumption ==
  \A c \in Cases :
    /\ c.home.ino \in Nat /\ (c.home.kind = "absent" <=> c.home.ino = 0)
    /\ c.home.kind = "absent" => c.home.policy = "none" /\ c.home.block = "none"
    /\ c.services \in [postgres : {"up", "busy", "down"}, graph : {"up", "down"},
                       web : {"up", "down"}, docker : {"ok", "no_daemon", "missing"}]
    /\ \A l \in Layer :
         /\ c.layers[l]["context_limits"] \in Shape
         /\ c.layers[l]["task_board"] \in Shape
    /\ c.postgres_answers \in {"ok", "auth_failed", "missing_database"}
    /\ c.clients \subseteq AIClient
    /\ \A t \in Terminal : \A i \in DOMAIN c.todo[t] :
         LET job == c.todo[t][i] IN
         job.run \in {"install", "install-skills"} => job.all \/ job.client \in AIClient
    /\ DOMAIN c.config = File
    /\ \A f \in File : c.config[f] = Nothing \/ c.config[f] \in Seq(Line)
    /\ WellNamed(c.config["codex"])
    /\ c.claude \in [market : {"none", "ours", "foreign"}, root : VersionOrNone,
                    plugin : VersionOrNone, enabled : BOOLEAN,
                    user : {"none", "old", "ours"}, project : BOOLEAN]
    /\ c.world \in [main : Version, pypi : VersionOrNone, tool : Version]
    /\ c.compose \in [file : VersionOrNone \cup {Edited}, link : BOOLEAN,
                      recorded : VersionOrNone]
    /\ DOMAIN c.skills = Skill
    /\ \/ c.stamp = NoStamp
       \/ /\ c.stamp.etag \in Version
          /\ \A s \in Shipped[c.stamp.etag] : c.stamp.hashes[s] = c.stamp.etag

machine == <<shell, clients, updates, containers, configs, report, ui>>

Init ==
  /\ ShellInit
  /\ InstallInit
  /\ UpdateInit
  /\ ServicesInit
  /\ ConfigInit
  /\ ReportInit
  /\ LauncherInit

---------------------------------------------------------------------------
\* What the launcher confirmed is run by the same program: entrypoints/launcher.
launched_update(t) ==
  /\ Runs(t, "launched_update") /\ Updates(t, FALSE)
  /\ ui' = [ui EXCEPT ![t] = NoUi]

Installing(t) ==
  InstallStep(t) /\ UNCHANGED <<updates, containers, configs, report, ui>>

Updating(t) ==
  UpdateStep(t) /\ UNCHANGED <<containers, configs, report, ui>>

Serving(t) ==
  ServiceStep(t) /\ UNCHANGED <<configs, report, ui>>

Configuring(t) ==
  ConfigStep(t) /\ UNCHANGED <<clients, updates, containers, report, ui>>

Reporting(t) ==
  ReportStep(t) /\ UNCHANGED <<clients, updates, containers, configs, ui>>

Launching(t) ==
  /\ LauncherStep(t) \/ launched_update(t)
  /\ UNCHANGED <<clients, updates, containers, configs, report>>

\* A command goes one step on.
Step(t) ==
  \/ Installing(t)
  \/ Updating(t)
  \/ Serving(t)
  \/ Configuring(t)
  \/ Reporting(t)
  \/ Launching(t)

Killed(t) ==
  /\ Kill(t)
  /\ InstallKilled(t) /\ UNCHANGED <<world, mine, files, homes>>
  /\ UpdateKilled(t)
  /\ ServicesKilled(t)
  /\ ConfigKilled(t)
  /\ ReportKilled(t)
  /\ LauncherKilled(t)

\* The people, and the other programs.
Others ==
  \/ People /\ UNCHANGED <<updates, containers, configs, report, ui>>
  \/ EditCompose /\ UNCHANGED <<containers, configs, report, ui>>
  \/ Crowd /\ UNCHANGED <<configs, report, ui>>
  \/ EditHome /\ UNCHANGED <<clients, updates, containers, report, ui>>

\* Everybody is done.
Idle == Quiet /\ UNCHANGED machine

Next ==
  \/ \E t \in Terminal : Step(t) \/ Killed(t)
  \/ Others
  \/ Idle

Spec == Init /\ [][Next]_machine

---------------------------------------------------------------------------
TypeOK ==
  /\ ShellOK
  /\ InstallOK
  /\ UpdateOK
  /\ ServicesOK
  /\ ConfigOK
  /\ LauncherOK

(* What a command tells is true: where a setting comes from (config show), *)
(* that a file was left because its user changed it (update), that a store *)
(* should be started (check), and that all clients are installed (install).*)
ToldIsTrue ==
  EverySourceIsTrue /\ PreservedMeansEdited /\ AdviceMeansDown /\ CleanInstallIsWhole

(* What a person has decided stays in force, whatever runs beside it: what *)
(* another command of his writes to the home file, his Compose file, the   *)
(* settings that config migrate moves, and that the launcher runs what he  *)
(* confirmed and nothing else.                                             *)
DecisionsStand ==
  /\ CommandsKeepEachOther /\ UserComposeIsKept
  /\ MigrationChangesNothing /\ LauncherRunsWhatItShows
=============================================================================
