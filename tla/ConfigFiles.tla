----------------------------- MODULE ConfigFiles -----------------------------
(***************************************************************************)
(* The configuration files of the AI clients, and what the installer makes *)
(* of them (reviewer/install.py: build_plan, and the surgery on the TOML   *)
(* file of Codex).                                                         *)
(*                                                                         *)
(* A file is a sequence of lines; a line is named for what it is to the    *)
(* installer.  A JSON file is one too, with an entry of a section as a     *)
(* line: json.loads and json.dumps keep the keys and their order.          *)
(***************************************************************************)
EXTENDS Integers, Sequences, FiniteSets, SequencesExt

Nothing == <<"absent">>         \* the file is not there
Text(raw) == IF raw = Nothing THEN << >> ELSE raw

Line ==
  {"key",          \* a line of the user, under the header above it
   "note",         \* another one, written while the system runs
   "table",        \* a header of the user
   "opens",        \* a line that opens a long string or an array
   "quoted",       \* inside of it: text that reads like our header
   "closes",       \* the line that closes it
   "entry",        \* [mcp_servers.reviewer]; in JSON, an entry of that name
   "entry_key",    \* a line under it, as an earlier installer wrote it
   "entry_env",    \* [mcp_servers.reviewer.env]
   "entry_array",  \* [[mcp_servers.reviewer]]
   "inline",       \* mcp_servers = {reviewer = ...}
   "ours",         \* the whole entry as the installer writes it now
   "market",       \* [marketplaces.rag-reviewer] from the canonical source
   "foreign",      \* the same from another source
   "plugin",       \* the plugin, selected and enabled
   "rule",         \* mcp__reviewer__* in permissions.allow
   "broken"}       \* something that is no TOML or JSON

\* The lines at the places in S, in their order.
Those(lines, S) ==
  [n \in 1..Cardinality(S) |->
     lines[CHOOSE i \in S : Cardinality({j \in S : j <= i}) = n]]

---------------------------------------------------------------------------
(* TOML. *)

\* Lines that look like a header of a table: _toml_table_header.
LooksLikeHeader ==
  {"table", "quoted", "entry", "entry_env", "entry_array", "ours", "market",
   "foreign", "plugin"}

\* Seeded fault: strings and arrays of several lines are not followed.
_toml_lex_state_blind(line, open) == FALSE

\* Whether a string or an array is open after the line.
_toml_lex_state(line, open) ==
  (open \/ line = "opens") /\ line # "closes"

\* The lines that are headers.
_toml_table_headers(lines) ==
  LET open[i \in 1..Len(lines) + 1] ==
        IF i = 1 THEN FALSE ELSE _toml_lex_state(lines[i - 1], open[i - 1])
  IN {i \in 1..Len(lines) : lines[i] \in LooksLikeHeader /\ ~open[i]}

_is_reviewer_path(line) ==
  line \in {"entry", "entry_env", "entry_array", "ours", "quoted"}

\* TOML has no second table of the same name.
Parses(lines) ==
  /\ "broken" \notin ToSet(lines)
  /\ \A i, j \in 1..Len(lines) :
       i # j /\ lines[i] \in {"entry", "ours", "inline"}
             /\ lines[j] \in {"entry", "ours", "inline"} => FALSE

\* The old entry goes, with every line up to the next header; the new one takes
\* the place of the first line that went.
_replace_codex_reviewer_tables(raw) ==
  LET headers == _toml_table_headers(raw)
      own == {h \in headers : _is_reviewer_path(raw[h])}
      gone == {i \in 1..Len(raw) :
                 \E h \in own : h <= i /\ \A k \in h + 1..i : k \notin headers}
      output(part) == Those(raw, part \ gone)
      first == CHOOSE i \in own : \A j \in own : i <= j
      content ==
        IF own = {} THEN Append(raw, "ours")
        ELSE output(1..first - 1) \o <<"ours">> \o output(first..Len(raw))
  IN IF \/ ~Parses(raw) \/ \E h \in own : raw[h] = "entry_array"
        \/ "inline" \in ToSet(raw)
        \/ ~Parses(content)
     THEN [ok |-> FALSE] ELSE [ok |-> TRUE, content |-> content]

---------------------------------------------------------------------------
(* JSON, and the plans. *)

\* The entry is set in its section: in place, or at the end.
JsonWith(raw, line, old) ==
  IF "broken" \in ToSet(raw) THEN [ok |-> FALSE]
  ELSE [ok |-> TRUE, content |->
         IF \E i \in 1..Len(raw) : raw[i] \in old
         THEN [i \in 1..Len(raw) |-> IF raw[i] \in old THEN line ELSE raw[i]]
         ELSE Append(raw, line)]

\* What a client's file becomes.
build_plan(client, raw) ==
  IF client = "codex" THEN _replace_codex_reviewer_tables(Text(raw))
  ELSE JsonWith(Text(raw), "ours", {"entry", "ours"})

build_allowlist_plan(raw) == JsonWith(Text(raw), "rule", {"rule"})

\* The entry that is there is the one that the installer would write.
_verify_mcp_config(raw) ==
  LET plan == build_plan("codex", raw)
  IN raw # Nothing /\ plan.ok /\ "ours" \in ToSet(raw)

---------------------------------------------------------------------------
(* What TOML says is the user's: every line whose table is not ours.  This *)
(* is the reference for the surgery above, and is not in the code.         *)

\* A string or an array is open where line i begins.
Deep(lines, i) ==
  \E j \in 1..i - 1 :
    lines[j] = "opens" /\ \A k \in j + 1..i - 1 : lines[k] # "closes"

Header(lines, i) == lines[i] \in LooksLikeHeader /\ ~Deep(lines, i)

\* Line i stands under a header of ours.
Ours(lines, i) ==
  \E h \in 1..i :
    /\ Header(lines, h) /\ \A k \in h + 1..i : ~Header(lines, k)
    /\ lines[h] \in {"entry", "entry_env", "ours"}

UserLines(client, raw) ==
  LET lines == Text(raw)
      Written == {"ours", "entry", "rule", "market", "plugin"}
      Mine(i) == lines[i] \notin Written /\ (client = "codex" => ~Ours(lines, i))
  IN Those(lines, {i \in 1..Len(lines) : Mine(i)})

\* A file whose lines are what they are named for: what reads like our header
\* is inside of a string, the plugin is not, and every string is closed.
WellNamed(raw) ==
  LET lines == Text(raw) IN
  /\ ~Deep(lines, Len(lines) + 1)
  /\ \A i \in 1..Len(lines) :
       /\ lines[i] = "quoted" => Deep(lines, i)
       /\ lines[i] = "plugin" => ~Deep(lines, i)
=============================================================================
