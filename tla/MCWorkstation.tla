---------------------------- MODULE MCWorkstation ----------------------------
(***************************************************************************)
(* The machines, the commands and the troubles that are checked.  Each set *)
(* below is about one part of the workstation.                             *)
(***************************************************************************)
EXTENDS Workstation

CONSTANTS a, b

S == {"s1", "s2", "s3"}
Ship == <<{"s1", "s2"}, {"s2", "s3"}>>
Had == [s \in S |-> IF s = "s3" THEN "changed" ELSE "owned"]

NoHome == [ino |-> 0, kind |-> "absent", policy |-> "none", block |-> "none"]
Home(kind, policy, block) == [ino |-> 1, kind |-> kind, policy |-> policy, block |-> block]
ForAll(kind, policy, block) == [kind |-> kind, policy |-> policy, block |-> block]
Says(limits, board) == [context_limits |-> limits, task_board |-> board]
Nowhere == Says("unset", "unset")

One(jobs) == (a :> jobs) @@ (b :> << >>)
Two(one, other) == (a :> one) @@ (b :> other)

Base ==
  [world |-> [main |-> 1, pypi |-> 1, tool |-> 1],
   config |-> [f \in File |-> Nothing], skills |-> [s \in S |-> None],
   stamp |-> NoStamp,
   codex |-> [root |-> None, cache |-> None, legacy |-> TRUE, lists |-> "source"],
   claude |-> [market |-> "none", root |-> None, plugin |-> None,
               enabled |-> FALSE, user |-> "none", project |-> FALSE],
   clients |-> {"cursor", "kimi", "codex", "claude-code"},
   mode |-> "uv_tool", compose |-> [file |-> None, link |-> FALSE, recorded |-> None],
   services |-> [postgres |-> "up", graph |-> "up", web |-> "up", docker |-> "ok"],
   local |-> TRUE, postgres_answers |-> "ok",
   home |-> NoHome, base |-> ForAll("regular", "none", "none"), committed |-> "none",
   layers |-> [l \in Layer |-> Nowhere],
   todo |-> One(<< >>), trouble |-> {}]

---------------------------------------------------------------------------
(* Installers. *)

Install(c, no_skills) ==
  [run |-> "install", all |-> FALSE, client |-> c, no_skills |-> no_skills]
InstallAll(no_skills) ==
  [run |-> "install", all |-> TRUE, client |-> "none", no_skills |-> no_skills]
InstallSkills(c) == [run |-> "install-skills", all |-> FALSE, client |-> c]

Trouble ==
  {"kill", "program", "disk", "offline", "move", "edit", "edit_skill", "merge",
   "release"}

Codex(raw, lists, jobs, trouble) ==
  [Base EXCEPT
     !.config["codex"] = raw,
     !.codex.root = IF "market" \in ToSet(raw) THEN 1 ELSE None,
     !.codex.cache = IF "plugin" \in ToSet(raw) THEN 1 ELSE None,
     !.codex.lists = lists, !.todo = One(jobs), !.trouble = trouble]

CodexFiles ==
  {Nothing, <<"key", "table", "key">>,
   <<"key", "entry", "entry_key", "entry_env", "entry_key", "table", "key",
     "market", "plugin">>,
   <<"table", "opens", "quoted", "closes", "entry", "entry_key">>,
   <<"entry_array">>, <<"inline">>, <<"broken">>, <<"table", "foreign">>}

CodexCases ==
  {Codex(raw, "source", <<Install("codex", FALSE), Install("codex", FALSE)>>, Trouble)
     : raw \in CodexFiles}
  \cup {Codex(<<"key">>, lists, <<Install("codex", FALSE)>>, Trouble)
          : lists \in Generation}
  \cup {Codex(<<"table", "key", "market", "plugin">>, "full",
              <<InstallSkills("codex")>>, {"move", "move_back"}),
        Codex(<<"key">>, "source", <<Install("codex", FALSE)>>, {"move", "move_back"})}

Torn(c, f) ==
  [Base EXCEPT !.config[f] = <<"key">>, !.trouble = {"torn"},
               !.todo = One(<<Install(c, c = "claude-code")>>)]

ClientCases ==
  {[Base EXCEPT !.trouble = Trouble, !.todo = One(<<InstallAll(FALSE)>>),
                !.config["cursor"] = <<"key">>]}
  \cup {[Base EXCEPT !.trouble = Trouble, !.config["kimi"] = <<"key", "entry">>,
                     !.todo = One(<<InstallSkills("kimi"), Install("kimi", FALSE)>>)]}
  \cup {[Base EXCEPT !.trouble = Trouble, !.todo = One(<<InstallAll(TRUE)>>),
                     !.clients = {"claude-code", "codex"}, !.claude.user = entry,
                     !.claude.project = hidden, !.config["settings"] = raw]
          : entry \in {"none", "old", "ours"}, hidden \in BOOLEAN,
            raw \in {<<"key">>, <<"rule">>, <<"broken">>}}
  \cup {Torn("cursor", "cursor"), Torn("claude-code", "settings"), Torn("codex", "codex")}

---------------------------------------------------------------------------
(* Updates. *)

Update(upgrade_tool) == [run |-> "update", upgrade_tool |-> upgrade_tool]

Updated(mode, file, jobs, trouble) ==
  [Base EXCEPT !.mode = mode, !.compose = file, !.todo = jobs,
               !.trouble = trouble, !.clients = {"kimi"}]

ComposeFiles ==
  [file : {None, 1}, link : {FALSE}, recorded : {None, 1}]
  \cup {[file |-> Edited, link |-> FALSE, recorded |-> 1],
        [file |-> 1, link |-> TRUE, recorded |-> None]}

UpdateCases ==
  {Updated("editable", file, Two(<<Update(FALSE)>>, <<Update(FALSE)>>),
           {"edit_compose", "kill", "disk"}) : file \in ComposeFiles}
  \cup {[Updated("uv_tool", [file |-> 1, link |-> FALSE, recorded |-> 1],
                 Two(<<Update(FALSE)>>, <<Update(FALSE)>>), {"edit_compose", "disk"})
           EXCEPT !.world.main = 2, !.clients = {}]}
  \cup {Updated(mode, [file |-> None, link |-> FALSE, recorded |-> None],
                One(<<Update(mode = "uvx"), Update(FALSE)>>),
                {"merge", "release", "offline", "program", "edit_compose", "no_uv"})
          : mode \in Modes}

---------------------------------------------------------------------------
(* Services. *)

Run(name) == [run |-> name]

ServiceCases ==
  {[Base EXCEPT !.services = [postgres |-> postgres, graph |-> graph,
                              web |-> "down", docker |-> docker],
                !.compose.file = file, !.local = here, !.postgres_answers = answers,
                !.todo = Two(<<Run("check")>>, <<Run("start"), Run("stop")>>),
                !.trouble = {"crowd", "kill"}]
     : postgres \in {"up", "down"}, graph \in {"up", "down"},
       docker \in {"ok", "no_daemon"}, file \in {None, 1}, here \in BOOLEAN,
       answers \in {"ok", "auth_failed"}}

---------------------------------------------------------------------------
(* The configuration of a repository. *)

InitRepo == [run |-> "init", block |-> "chosen"]

HomeCases ==
  {[Base EXCEPT !.home = own, !.base = all, !.committed = committed,
                !.todo = jobs, !.trouble = {"kill", "edit_home", "offline"}]
     : own \in {NoHome, Home("regular", "mine", "none"),
                 Home("regular", "none", "mine")},
       all \in {ForAll("regular", "none", "none"), ForAll("regular", "mine", "mine")},
       committed \in {"committed", "credential"},
       jobs \in {Two(<<InitRepo>>, <<Run("config migrate"), Run("config show")>>),
                 Two(<<Run("config migrate")>>, <<Run("config migrate")>>)}}
  \cup {[Base EXCEPT !.home = own, !.base = all, !.committed = "committed",
                     !.todo = One(<<Run("config migrate"), InitRepo>>)]
          : own \in {Home("symlink", "none", "none"), Home("malformed", "none", "none"),
                      Home("regular", "mine", "bad"), NoHome},
            all \in {ForAll("regular", "invalid", "none"),
                      ForAll("malformed", "none", "none")}}

\* A layer does not take a section away before another fills it again.
Limits == {"unset", "scalar", "x", "xy"}
ReportCases ==
  {[Base EXCEPT !.layers = ("home:review" :> Says(l1, b1)) @@
                           (".review.yml" :> Says(l2, b2)) @@
                           ("home:repo" :> Says(l3, b3)),
                !.todo = One(<<Run("config report")>>), !.trouble = {"offline"}]
     : l1 \in Limits, l2 \in Limits, l3 \in Limits \cup {"empty"},
       b1 \in {"unset", "xy"}, b2 \in {"unset", "x"}, b3 \in {"unset", "x"}}

LauncherCases ==
  {[Base EXCEPT !.mode = "editable", !.clients = {},
                !.todo = One(<<Run("launcher")>>), !.trouble = {"kill"}]}

AllCases ==
  CodexCases \cup ClientCases \cup UpdateCases \cup ServiceCases \cup HomeCases
    \cup ReportCases \cup LauncherCases
=============================================================================
