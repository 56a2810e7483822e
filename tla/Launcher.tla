------------------------------ MODULE Launcher ------------------------------
(***************************************************************************)
(* reviewer without arguments: a palette of commands, a form, a preview,   *)
(* and the check for updates, which a thread makes while its user goes on  *)
(* (reviewer/launcher/controller.py, app.py, entrypoints/launcher.py).     *)
(*                                                                         *)
(* Two commands stand for all: one with a form, of one field, and the one  *)
(* that checks for updates.  A key is a step; what may be typed is one of  *)
(* a few texts.  Widgets, focus and the masking of secrets are left out.   *)
(***************************************************************************)
EXTENDS Commands

CONSTANT MaxKeys    \* BOUND: keys pressed in one launcher

VARIABLE ui         \* the launcher at each terminal

Screen == {"palette", "details", "preview", "update_result"}
Entry == {"command", "check_update"}
Typed == {"nothing", "good", "bad"}
Answer == {"none", "found", "unknown", "failed"}

NoUi ==
  [screen |-> "palette", found |-> Entry, selected |-> "command",
   value |-> "nothing", prepared |-> "none", answer |-> "none",
   checking |-> FALSE, visible |-> FALSE, keys |-> 0, argv |-> "none"]

LauncherInit == ui = [t \in Terminal |-> NoUi]

LauncherOK ==
  \A t \in Terminal :
    /\ ui[t].screen \in Screen /\ ui[t].selected \in Entry
    /\ ui[t].value \in Typed /\ ui[t].answer \in Answer
    /\ ui[t].keys \in 0..MaxKeys

\* The tokens of the code: a check that runs is the active one, since another
\* is started only when it is over, and it is either visible or not.
Active(t) == ui[t].checking

Press(t, r) ==
  /\ Runs(t, "launcher") /\ ui[t].keys < MaxKeys
  /\ ui' = [ui EXCEPT ![t] = [Over(r, ui[t]) EXCEPT !.keys = @ + 1]]
  /\ UNCHANGED shell

On(t, screen) == ui[t].screen = screen

---------------------------------------------------------------------------
launcher(t) ==
  /\ Starts(t, "launcher") /\ Go(t, "launcher")
  /\ UNCHANGED ui

\* The catalogue is searched: all of it, one of the two, or neither.
set_query(t) ==
  /\ On(t, "palette")
  /\ \E found \in SUBSET Entry :
       Press(t, [found |-> found, selected |->
                   IF "command" \in found \/ found = {} THEN "command"
                   ELSE "check_update"])

move(t) ==
  /\ On(t, "palette") /\ ui[t].found # {}
  /\ \E e \in ui[t].found : e # ui[t].selected /\ Press(t, [selected |-> e])

open_selected(t) ==
  /\ On(t, "palette") /\ ui[t].found # {}
  /\ Press(t, [screen |-> "details", value |-> "nothing", prepared |-> "none"])

set_value(t) ==
  /\ On(t, "details") /\ ui[t].selected = "command"
  /\ \E v \in Typed \ {ui[t].value} : Press(t, [value |-> v])

\* _validate, then the command line that will be shown and run.
open_preview(t) ==
  /\ On(t, "details") /\ ui[t].selected = "command"
  /\ IF ui[t].value # "good" THEN Press(t, [screen |-> "details"])
     ELSE Press(t, [screen |-> "preview", prepared |-> ui[t].value])

\* Asking again, while a check runs or when one has answered, starts none.
_start_update_check(t) ==
  /\ On(t, "details") /\ ui[t].selected = "check_update"
  /\ IF ui[t].answer # "none" THEN Press(t, [screen |-> "update_result"])
     ELSE Press(t, [screen |-> "update_result", checking |-> TRUE, visible |-> TRUE])

\* The thread answers, at any time; the screen changes only if it waits.
_finish_update_check(t) ==
  /\ Runs(t, "launcher") /\ Active(t)
  /\ \E answer \in Answer \ {"none"} :
       ui' = [ui EXCEPT ![t].answer = answer, ![t].checking = FALSE,
                        ![t].visible = FALSE,
                        ![t].screen = IF ui[t].visible THEN "update_result" ELSE @]
  /\ UNCHANGED shell

_can_run_update(t) == ~ui[t].checking /\ ui[t].answer # "none"

back(t) ==
  \/ On(t, "preview") /\ Press(t, [screen |-> "details"])
  \/ On(t, "details") /\ Press(t, [screen |-> "palette", prepared |-> "none"])
  \/ /\ On(t, "update_result")
     /\ Press(t, [screen |-> "details", visible |-> FALSE, answer |->
                    IF ui[t].answer \in {"failed", "unknown"} THEN "none"
                    ELSE ui[t].answer])

\* What is typed ends in the command line it has built, or in none.
Leaves(t, argv, how) ==
  /\ ui' = [ui EXCEPT ![t] = [NoUi EXCEPT !.argv = argv]]
  /\ how

\* Enter on the preview, or on the answer; the command then runs.
confirm(t) ==
  /\ Runs(t, "launcher")
  /\ \/ /\ On(t, "preview") /\ ui[t].prepared # "none"
        /\ Leaves(t, ui[t].prepared, Go(t, "launched"))
     \/ /\ On(t, "update_result") /\ _can_run_update(t)
        /\ Leaves(t, "update", Go(t, "launched_update"))

\* Escape on the palette, or Ctrl-C; when no key is left, that is what is done.
cancel(t) ==
  /\ Runs(t, "launcher")
  /\ On(t, "palette") \/ ui[t].keys = MaxKeys
  /\ Leaves(t, "none", Ends(t, "ok"))

\* The command with the form is any other.
launched(t) ==
  /\ Runs(t, "launched") /\ Ends(t, "ok")
  /\ ui' = [ui EXCEPT ![t] = NoUi]

LauncherStep(t) ==
  \/ launcher(t)
  \/ set_query(t)
  \/ move(t)
  \/ open_selected(t)
  \/ set_value(t)
  \/ open_preview(t)
  \/ _start_update_check(t)
  \/ _finish_update_check(t)
  \/ back(t)
  \/ confirm(t)
  \/ cancel(t)
  \/ launched(t)

\* The thread is a daemon, and goes with its process.
LauncherKilled(t) == ui' = [ui EXCEPT ![t] = NoUi]

---------------------------------------------------------------------------
(* Only what is on the screen is run, and only when it was confirmed there:*)
(* a command as its form stands now, or an update whose answer is shown.   *)
(* A late answer, a form left half-way and changed, or a second check move *)
(* nobody to another screen.                                               *)
LauncherRunsWhatItShows ==
  [][\A t \in Terminal :
       /\ ui'[t].argv # "none" /\ ui[t].argv = "none" =>
            \/ On(t, "preview") /\ ui'[t].argv = ui[t].value /\ ui[t].value = "good"
            \/ On(t, "update_result") /\ ui'[t].argv = "update" /\ ~ui[t].checking
       /\ ui[t].checking /\ ~ui'[t].checking /\ at'[t] = "launcher" =>
            ui'[t].screen = ui[t].screen]_ui
=============================================================================
