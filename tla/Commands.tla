------------------------------ MODULE Commands ------------------------------
(***************************************************************************)
(* The terminals of a workstation and the commands typed into them.  What  *)
(* a command does is in the modules that extend this one: here is only how *)
(* it starts, ends and dies (reviewer/entrypoints/cli.py, and the shell,   *)
(* which is external).                                                     *)
(*                                                                         *)
(* A case says what the machine looks like, who types what, and what may   *)
(* go wrong; the initial state picks one.  A command is a sequence of      *)
(* steps; at[t] names the next one.  Every step either reads or writes one *)
(* file, or runs one program.                                              *)
(***************************************************************************)
EXTENDS Integers, Sequences, FiniteSets

CONSTANTS
  Terminal,     \* who types
  Cases,        \* the machines, the commands and the troubles
  MaxTrouble    \* BOUND: how much goes wrong, or is done by people, in all

VARIABLES
  case,    \* the case this behaviour is of
  todo,    \* what is still to be typed
  at,      \* the next step of the command that runs, or "prompt"
  caller,  \* who waits for it: the shell, or a step of another command
  told,    \* how the last command ended; "advised": it only said what to run
  spent    \* the troubles there were

shell == <<case, todo, at, caller, told, spent>>

ASSUME CommandsAssumption ==
  /\ IsFiniteSet(Terminal) /\ MaxTrouble \in Nat
  /\ \A c \in Cases :
       /\ DOMAIN c.todo = Terminal
       /\ \A t \in Terminal :
            c.todo[t] \in Seq({c.todo[t][i] : i \in DOMAIN c.todo[t]})

ShellInit ==
  /\ case \in Cases
  /\ todo = case.todo
  /\ at = [t \in Terminal |-> "prompt"]
  /\ caller = [t \in Terminal |-> "shell"]
  /\ told = [t \in Terminal |-> "nothing"]
  /\ spent = << >>

ShellOK ==
  /\ \A t \in Terminal : \E n \in 0..Len(case.todo[t]) :
       todo[t] = SubSeq(case.todo[t], n + 1, Len(case.todo[t]))
  /\ \A t \in Terminal : at[t] = "prompt" => caller[t] = "shell"
  /\ told \in [Terminal -> {"nothing", "ok", "error", "killed", "advised"}]
  /\ Len(spent) <= MaxTrouble
  /\ \A i \in 1..Len(spent) : spent[i] \in case.trouble

---------------------------------------------------------------------------
\* The registers of a command, those of r set anew.
Over(r, old) == [k \in DOMAIN old |-> IF k \in DOMAIN r THEN r[k] ELSE old[k]]

Job(t) == Head(todo[t])

\* t's next step is p.
Runs(t, p) == at[t] = p

\* The command goes on with p, which may depend on what was read.
Go(t, p) ==
  at' = [at EXCEPT ![t] = p] /\ UNCHANGED <<case, todo, caller, told, spent>>

\* One command calls another, and goes on with its step back when that ends.
Calls(t, p, back) ==
  /\ at' = [at EXCEPT ![t] = p]
  /\ caller' = [caller EXCEPT ![t] = back]
  /\ UNCHANGED <<case, todo, told, spent>>

\* A command of the wanted kind is typed.
Starts(t, run) == at[t] = "prompt" /\ todo[t] # << >> /\ Job(t).run = run

\* The command is over; how says what its caller sees.
Ends(t, how) ==
  /\ told' = [told EXCEPT ![t] = how]
  /\ IF caller[t] = "shell"
     THEN /\ at' = [at EXCEPT ![t] = "prompt"]
          /\ todo' = [todo EXCEPT ![t] = Tail(todo[t])]
          /\ UNCHANGED <<case, caller, spent>>
     ELSE /\ at' = [at EXCEPT ![t] = caller[t]]
          /\ caller' = [caller EXCEPT ![t] = "shell"]
          /\ UNCHANGED <<case, todo, spent>>

\* Trouble of this kind may still come, and comes.
May(kind) == kind \in case.trouble /\ Len(spent) < MaxTrouble
Spend(kind) == spent' = Append(spent, kind)

\* Trouble in the middle of a step of t, which goes on with p.
GoBadly(t, kind, p) ==
  /\ May(kind) /\ Spend(kind)
  /\ at' = [at EXCEPT ![t] = p]
  /\ UNCHANGED <<case, todo, caller, told>>

\* Trouble that nobody's command has part in.
Happens(kind) == May(kind) /\ Spend(kind) /\ UNCHANGED <<case, todo, at, caller, told>>

\* Ctrl-C, or the machine goes down: the command ends where it is, and what
\* it called with it.
Kill(t) ==
  /\ at[t] # "prompt" /\ May("kill") /\ Spend("kill")
  /\ at' = [at EXCEPT ![t] = "prompt"]
  /\ told' = [told EXCEPT ![t] = "killed"]
  /\ todo' = [todo EXCEPT ![t] = Tail(todo[t])]
  /\ caller' = [caller EXCEPT ![t] = "shell"]
  /\ UNCHANGED case

Quiet == \A t \in Terminal : at[t] = "prompt" /\ todo[t] = << >>
=============================================================================
