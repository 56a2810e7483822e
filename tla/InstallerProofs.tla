--------------------------- MODULE InstallerProofs ---------------------------
(***************************************************************************)
(* Proofs about what installers leave of the files and the skills that a   *)
(* user had, for any machines, commands, terminals, failures and kills.    *)
(*                                                                         *)
(* The argument for ConfigIsRecoverable.  Every text that the installer    *)
(* makes of a file holds the lines of its user (TomlKeeps, JsonKeeps, and  *)
(* NoteKeeps for what the user adds).  So the files hold them, and what an *)
(* installer has in hand does: the plan that it is to write, and the text  *)
(* that it would put back; a file it is about to write is in its .bak      *)
(* (KeptInv).  A write that tears leaves the .bak, and nobody writes after *)
(* it (Ruined).                                                            *)
(*                                                                         *)
(* The argument for CodexKeepsItsSkills.  Skills are moved only where the  *)
(* plugin is chosen and there.  From then on it is in the file, and in     *)
(* whatever an installer may write or put back over it (Skilled), or else  *)
(* the way back of a move has failed (Exempt); an installer for one client *)
(* that has moved skills writes no file that could tear (Spared).          *)
(***************************************************************************)
EXTENDS WorkstationProofs

-----------------------------------------------------------------------------
(* What a file holds of its user.                                          *)

\* A file with a line is there.
LEMMA ThereIs ==
  ASSUME NEW s, NEW x \in ToSet(s), x # "absent"
  PROVE  Text(s) = s
<1>1. ToSet(Nothing) = {"absent"}
  BY OneLined DEF Nothing
<1>2. s # Nothing
  BY <1>1
<1> QED
  BY <1>2 DEF Text

\* What is open at a line, and which table it stands in, is said before it.
LEMMA SameBefore ==
  ASSUME NEW n \in Nat, NEW a, NEW b, \A j \in 1..n : a[j] = b[j]
  PROVE  /\ \A i \in 1..n + 1 : Deep(a, i) <=> Deep(b, i)
         /\ \A i \in 1..n : Ours(a, i) <=> Ours(b, i)
<1>1. ASSUME NEW i \in 1..n + 1, NEW j \in 1..i - 1 PROVE j \in 1..n
  OBVIOUS
<1>2. ASSUME NEW i \in 1..n + 1 PROVE Deep(a, i) <=> Deep(b, i)
  <2>1. \A j \in 1..i - 1 : a[j] = b[j]
    BY <1>1
  <2>2. \A j \in 1..i - 1 : \A k \in j + 1..i - 1 : k \in 1..i - 1
    OBVIOUS
  <2> QED
    BY <2>1, <2>2 DEF Deep
<1>3. ASSUME NEW i \in 1..n PROVE Header(a, i) <=> Header(b, i)
  <2>1. Deep(a, i) <=> Deep(b, i)
    BY <1>2
  <2> QED
    BY <2>1 DEF Header
<1>4. ASSUME NEW i \in 1..n PROVE Ours(a, i) <=> Ours(b, i)
  <2>1. \A h \in 1..i : h \in 1..n /\ \A k \in h + 1..i : k \in 1..n
    OBVIOUS
  <2>2. \A h \in 1..i : a[h] = b[h] /\ (Header(a, h) <=> Header(b, h))
    BY <1>3, <2>1
  <2>3. \A h \in 1..i : \A k \in h + 1..i : Header(a, k) <=> Header(b, k)
    BY <1>3, <2>1
  <2> QED
    BY <2>2, <2>3 DEF Ours
<1> QED
  BY <1>2, <1>4

\* Files with the same lines of the user at the same places.
LEMMA SameMine ==
  ASSUME NEW c, NEW a, NEW b, Lined(a), Lined(b), Mine(c, a) = Mine(c, b),
         \A i \in Mine(c, a) : a[i] = b[i]
  PROVE  Those(a, Mine(c, a)) = Those(b, Mine(c, b))
<1> DEFINE S == Mine(c, a)
           self == [i \in S |-> i]
           n == Len(a)
<1>1. n \in Nat /\ S \subseteq 1..n
  BY LengthLined DEF Mine
<1> HIDE DEF S
<1>2. Copies(self, a, S, b, S)
  <2>1. \A i \in S : a[i] = b[i]
    BY DEF S
  <2> QED
    BY <2>1 DEF Copies
<1> HIDE DEF n, self
<1>3. Those(a, S) = Those(b, S)
  <2>1. Numbered(S)
    BY <1>1 DEF Numbered
  <2> QED
    BY <1>2, <2>1, SameThose
<1> QED
  BY <1>3 DEF S

\* The file of a client, with these lines of its user.
Holding(f, raw, text) ==
  Lined(raw) /\ (f = "codex" => WellNamed(raw)) /\ UserLines(f, raw) = text

LEMMA HoldingIs ==
  ASSUME NEW f, NEW raw, Lined(raw), Text(raw) = raw, f = "codex" => WellNamed(raw)
  PROVE  Holding(f, raw, Those(raw, Mine(f, raw)))
BY MineAre DEF Holding

LEMMA HoldingText ==
  ASSUME NEW f, NEW raw, NEW text, Holding(f, raw, text)
  PROVE  /\ Lined(Text(raw)) /\ Text(Text(raw)) = Text(raw)
         /\ f = "codex" => WellNamed(Text(raw))
         /\ text = Those(Text(raw), Mine(f, Text(raw)))
<1>1. Lined(Text(raw)) /\ text = Those(Text(raw), Mine(f, Text(raw)))
  BY TextLined, MineAre DEF Holding
<1>2. Text(Text(raw)) = Text(raw)
  <2>1. << >> # Nothing
    <3>1. Len(<< >>) = 0 /\ Len(Nothing) = 1
      BY DEF Nothing
    <3> QED
      BY <3>1
  <2> QED
    BY <2>1 DEF Text
<1>3. f = "codex" => WellNamed(Text(raw))
  BY <1>2 DEF Holding, WellNamed
<1> QED
  BY <1>1, <1>2, <1>3

\* An entry that is set in a JSON file.
LEMMA JsonKeeps ==
  ASSUME NEW f, f # "codex", NEW raw, Lined(raw), Text(raw) = raw,
         NEW line \in {"ours", "rule"}, NEW old, old \subseteq {"entry", "ours", "rule"},
         JsonWith(raw, line, old).ok
  PROVE  Holding(f, JsonWith(raw, line, old).content, Those(raw, Mine(f, raw)))
<1> DEFINE set == [i \in 1..Len(raw) |-> IF raw[i] \in old THEN line ELSE raw[i]]
           n == Len(raw)
           new == JsonWith(raw, line, old).content
<1>1. Lined(new) /\ line \in ToSet(new)
  BY JsonAdds
<1>2. Text(new) = new
  BY <1>1, ThereIs
<1>3. n \in Nat /\ DOMAIN raw = 1..n /\ raw \in Seq(ToSet(raw))
  BY LengthLined DEF Lined
<1>4. new = (IF \E i \in 1..n : raw[i] \in old THEN set ELSE Append(raw, line))
  BY DEF JsonWith
<1> HIDE DEF new
<1>5. Mine(f, new) = Mine(f, raw) /\ \A i \in Mine(f, raw) : new[i] = raw[i]
  <2>1. CASE \E i \in 1..n : raw[i] \in old
    <3>1. new = set
      BY <1>4, <2>1
    <3>2. DOMAIN new = 1..n /\ Len(new) \in Nat /\ DOMAIN new = 1..Len(new)
      BY <1>1, <3>1, LengthLined
    <3>3. Len(new) = n
      BY <1>3, <3>2
    <3>4. \A i \in 1..n : new[i] = raw[i] \/ (raw[i] \in old /\ new[i] = line)
      BY <3>1
    <3> HIDE DEF n
    <3> QED
      BY <3>3, <3>4 DEF Mine, n
  <2>2. CASE ~\E i \in 1..n : raw[i] \in old
    <3>1. /\ Len(new) = n + 1 /\ new[n + 1] = line /\ \A i \in 1..n : new[i] = raw[i]
      <4>1. new = Append(raw, line)
        BY <1>4, <2>2
      <4> QED
        BY <1>3, <4>1
    <3>2. \A i \in 1..n + 1 : i \in 1..n \/ i = n + 1
      BY <1>3
    <3>3. \A i \in 1..n : i \in 1..n + 1
      BY <1>3
    <3> HIDE DEF n
    <3> QED
      BY <3>1, <3>2, <3>3 DEF Mine, n
  <2> QED
    BY <2>1, <2>2
<1>6. Those(new, Mine(f, new)) = Those(raw, Mine(f, raw))
  BY <1>1, <1>5, SameMine
<1>7. Holding(f, new, Those(new, Mine(f, new)))
  BY <1>1, <1>2, HoldingIs
<1> QED
  BY <1>6, <1>7 DEF new

\* A line more, of those that are not the user's.
LEMMA MoreKeeps ==
  ASSUME NEW raw, Lined(raw), Text(raw) = raw, WellNamed(raw),
         NEW line \in {"market", "plugin"}
  PROVE  Holding("codex", Append(raw, line), Those(raw, Mine("codex", raw)))
<1> DEFINE n == Len(raw)
           new == Append(raw, line)
<1>1. Lined(new) /\ line \in ToSet(new)
  BY AppendLined
<1>2. Text(new) = new
  BY <1>1, ThereIs
<1>3. n \in Nat /\ DOMAIN raw = 1..n /\ raw \in Seq(ToSet(raw))
  BY LengthLined DEF Lined
<1>4. /\ Len(new) = n + 1 /\ new[n + 1] = line /\ \A i \in 1..n : new[i] = raw[i]
  BY <1>3
<1> HIDE DEF n, new
<1>5. /\ \A i \in 1..n + 1 : Deep(new, i) <=> Deep(raw, i)
      /\ \A i \in 1..n : Ours(new, i) <=> Ours(raw, i)
  BY <1>3, <1>4, SameBefore
<1>6. \A i \in 1..n + 1 : i \in 1..n \/ i = n + 1
  BY <1>3
<1>7. \A i \in 1..n : i \in 1..n + 1
  BY <1>3
<1>8. Mine("codex", new) = Mine("codex", raw) /\ \A i \in Mine("codex", raw) : new[i] = raw[i]
  <2>1. \A i \in 1..n : i \in Mine("codex", new) <=> i \in Mine("codex", raw)
    BY <1>4, <1>5, <1>7 DEF Mine, n
  <2>2. n + 1 \notin Mine("codex", new)
    BY <1>4 DEF Mine
  <2>3. Mine("codex", raw) \subseteq 1..n /\ Mine("codex", new) \subseteq 1..n + 1
    BY <1>4 DEF Mine, n
  <2> QED
    BY <1>4, <1>6, <2>1, <2>2, <2>3
<1>9. Those(new, Mine("codex", new)) = Those(raw, Mine("codex", raw))
  BY <1>1, <1>8, SameMine
<1>10. /\ ~Deep(raw, n + 1)
       /\ \A i \in 1..n : /\ raw[i] = "quoted" => Deep(raw, i)
                          /\ raw[i] = "plugin" => ~Deep(raw, i)
  BY DEF WellNamed, n
<1>11. WellNamed(new)
  <2>1. ~Deep(new, n + 1)
    BY <1>3, <1>5, <1>10
  <2>2. ~Deep(new, (n + 1) + 1)
    <3>1. (n + 1) + 1 \in Nat \ {0, 1} /\ ((n + 1) + 1) - 1 = n + 1
      BY <1>3
    <3>2. PICK i : i = (n + 1) + 1
      OBVIOUS
    <3>3. Deep(new, i) <=> /\ Deep(new, i - 1) \/ new[i - 1] = "opens"
                           /\ new[i - 1] # "closes"
      BY <3>1, <3>2, DeepStep
    <3> QED
      BY <1>4, <2>1, <3>1, <3>2, <3>3
  <2>3. \A i \in 1..n + 1 : /\ new[i] = "quoted" => Deep(new, i)
                            /\ new[i] = "plugin" => ~Deep(new, i)
    BY <1>4, <1>5, <1>6, <1>10, <2>1
  <2> QED
    BY <1>2, <1>4, <2>2, <2>3 DEF WellNamed
<1>12. Holding("codex", new, Those(new, Mine("codex", new)))
  BY <1>1, <1>2, <1>11, HoldingIs
<1> QED
  BY <1>9, <1>12 DEF new

-----------------------------------------------------------------------------
\* The plugin is chosen.
Chosen(raw) == "plugin" \in ToSet(Text(raw))

LEMMA TomlKeeps ==
  ASSUME NEW raw, Lined(raw), Text(raw) = raw, WellNamed(raw),
         _replace_codex_reviewer_tables(raw).ok
  PROVE  /\ Holding("codex", _replace_codex_reviewer_tables(raw).content,
                    Those(raw, Mine("codex", raw)))
         /\ Chosen(_replace_codex_reviewer_tables(raw).content) <=> Chosen(raw)
<1> DEFINE content == _replace_codex_reviewer_tables(raw).content
<1>1. Lined(content) /\ "ours" \in ToSet(content)
  BY TomlAdds
<1>2. Text(content) = content
  BY <1>1, ThereIs
<1>3. /\ \E src, o, first : /\ IsCut(Len(raw), Left(raw), first, raw, content, src, o)
                            /\ First(raw, first)
      /\ \A h \in 1..Len(raw) :
           Header(raw, h) /\ _is_reviewer_path(raw[h]) => raw[h] # "entry_array"
  BY TomlCuts
<1> HIDE DEF content
<1>4. PICK src, o, first : CutOf(raw, content, src, o, first)
  <2>1. ~Deep(raw, Len(raw) + 1)
    BY DEF WellNamed
  <2> QED
    BY <1>3, <2>1 DEF CutOf
<1>5. Those(content, Mine("codex", content)) = Those(raw, Mine("codex", raw))
  BY <1>3, <1>4, CutUser
<1>6. WellNamed(content) /\ ("plugin" \in ToSet(raw) <=> "plugin" \in ToSet(content))
  BY <1>2, <1>4, CutNamed
<1>7. Holding("codex", content, Those(content, Mine("codex", content)))
  BY <1>1, <1>2, <1>6, HoldingIs
<1>8. Chosen(content) <=> Chosen(raw)
  BY <1>2, <1>6 DEF Chosen
<1> QED
  BY <1>5, <1>7, <1>8 DEF content

LEMMA PlanKeeps ==
  ASSUME NEW f, NEW raw, NEW text, Holding(f, raw, text), build_plan(f, raw).ok
  PROVE  /\ Holding(f, build_plan(f, raw).content, text)
         /\ f = "codex" => (Chosen(build_plan(f, raw).content) <=> Chosen(raw))
<1> DEFINE lines == Text(raw)
<1>1. /\ Lined(lines) /\ Text(lines) = lines /\ (f = "codex" => WellNamed(lines))
      /\ text = Those(lines, Mine(f, lines))
  BY HoldingText
<1>2. Chosen(lines) <=> Chosen(raw)
  BY <1>1 DEF Chosen
<1>3. CASE f = "codex"
  <2>1. build_plan(f, raw) = _replace_codex_reviewer_tables(lines)
    BY <1>3 DEF build_plan
  <2> HIDE DEF lines
  <2> QED
    BY <1>1, <1>2, <1>3, <2>1, TomlKeeps
<1>4. CASE f # "codex"
  <2>1. build_plan(f, raw) = JsonWith(lines, "ours", {"entry", "ours"})
    BY <1>4 DEF build_plan
  <2>2. PICK old : old = {"entry", "ours"}
    OBVIOUS
  <2>3. old \subseteq {"entry", "ours", "rule"} /\ JsonWith(lines, "ours", old).ok
    BY <2>1, <2>2
  <2> HIDE DEF lines
  <2>4. Holding(f, JsonWith(lines, "ours", old).content, Those(lines, Mine(f, lines)))
    BY <1>1, <1>4, <2>3, JsonKeeps
  <2> QED
    BY <1>1, <1>4, <2>1, <2>2, <2>4
<1> QED
  BY <1>3, <1>4

LEMMA RuleKeeps ==
  ASSUME NEW raw, NEW text, Holding("settings", raw, text), build_allowlist_plan(raw).ok
  PROVE  Holding("settings", build_allowlist_plan(raw).content, text)
<1> DEFINE lines == Text(raw)
<1>1. /\ Lined(lines) /\ Text(lines) = lines
      /\ text = Those(lines, Mine("settings", lines))
  BY HoldingText
<1>2. build_allowlist_plan(raw) = JsonWith(lines, "rule", {"rule"})
  BY DEF build_allowlist_plan
<1> HIDE DEF lines
<1>3. PICK old : old = {"rule"}
  OBVIOUS
<1>4. old \subseteq {"entry", "ours", "rule"} /\ JsonWith(lines, "rule", old).ok
  BY <1>2, <1>3
<1>5. Holding("settings", JsonWith(lines, "rule", old).content, Those(lines, Mine("settings", lines)))
  BY <1>1, <1>4, JsonKeeps
<1> QED
  BY <1>1, <1>2, <1>3, <1>5

LEMMA LineKeeps ==
  ASSUME NEW raw, NEW text, Holding("codex", raw, text), NEW line \in {"market", "plugin"}
  PROVE  /\ Holding("codex", Append1(raw, line), text)
         /\ Chosen(raw) => Chosen(Append1(raw, line))
         /\ line = "plugin" => Chosen(Append1(raw, line))
<1> DEFINE lines == Text(raw)
<1>1. /\ Lined(lines) /\ Text(lines) = lines /\ WellNamed(lines)
      /\ text = Those(lines, Mine("codex", lines))
  BY HoldingText
<1>2. Append1(raw, line) = IF line \in ToSet(lines) THEN raw ELSE Append(lines, line)
  BY DEF Append1
<1>3. Chosen(raw) <=> "plugin" \in ToSet(lines)
  BY DEF Chosen
<1> HIDE DEF lines
<1>4. CASE line \in ToSet(lines)
  BY <1>2, <1>3, <1>4
<1>5. CASE line \notin ToSet(lines)
  <2>1. Holding("codex", Append(lines, line), text)
    BY <1>1, MoreKeeps
  <2>2. line \in ToSet(Append(lines, line)) /\ ToSet(lines) \subseteq ToSet(Append(lines, line))
    BY <1>1, AppendLined
  <2>3. Text(Append(lines, line)) = Append(lines, line)
    BY <2>2, ThereIs
  <2> QED
    BY <1>2, <1>3, <1>5, <2>1, <2>2, <2>3 DEF Chosen
<1> QED
  BY <1>4, <1>5

\* There is nothing of the user in a file with nothing.
LEMMA NothingKept == \A f : UserLines(f, << >>) = << >>
<1> SUFFICES ASSUME NEW f PROVE UserLines(f, << >>) = << >>
  OBVIOUS
<1>0. Len(<< >>) = 0 /\ 1..0 = {}
  OBVIOUS
<1>1. Text(<< >>) = << >>
  <2>1. Len(Nothing) = 1
    BY DEF Nothing
  <2>2. << >> # Nothing
    BY <1>0, <2>1
  <2> QED
    BY <2>2 DEF Text
<1>2. Mine(f, << >>) = {}
  BY <1>0 DEF Mine
<1>3. UserLines(f, << >>) = Those(<< >>, {})
  BY <1>1, <1>2, MineAre
<1>4. {} \subseteq 1..0 /\ 0 \in Nat
  OBVIOUS
<1>5. Lined(Those(<< >>, {})) /\ Len(Those(<< >>, {})) = Cardinality({})
  BY <1>4, ThoseAre
<1>6. Cardinality({}) = 0
  BY FS_EmptySet
<1>7. \A S : \A s \in Seq(S) : Len(s) = 0 => s = << >>
  OBVIOUS
<1> QED
  BY <1>3, <1>5, <1>6, <1>7 DEF Lined

-----------------------------------------------------------------------------
(* A note before all other lines.                                          *)

LEMMA ThoseAll ==
  ASSUME NEW s, Lined(s)
  PROVE  Those(s, 1..Len(s)) = s
<1> DEFINE n == Len(s)
           r == Those(s, 1..n)
<1>1. n \in Nat /\ DOMAIN s = 1..n /\ s = [k \in 1..n |-> s[k]]
  BY LengthLined DEF Lined
<1>2. ASSUME NEW i \in 1..n PROVE Place(1..n, i) = i
  <2>1. {j \in 1..n : j <= i} = 1..i
    BY <1>1
  <2>2. i \in Nat
    OBVIOUS
  <2>3. Cardinality(1..i) = i
    BY <2>2, FS_Interval
  <2> QED
    BY <2>1, <2>3 DEF Place
<1>3. Cardinality(1..n) = n
  <2> HIDE DEF n
  <2> QED
    BY <1>1, FS_Interval
<1>4. \A i \in 1..n : r[Place(1..n, i)] = s[i]
  <2>1. 1..n \subseteq 1..n
    OBVIOUS
  <2> QED
    BY <1>1, <2>1, ThoseAt
<1>5. r = [k \in 1..n |-> r[k]]
  BY <1>3 DEF Those
<1>6. \A i \in 1..n : r[i] = s[i]
  BY <1>2, <1>4
<1> QED
  BY <1>1, <1>5, <1>6

Shifted(lines, new) ==
  /\ Len(lines) \in Nat /\ Len(new) = Len(lines) + 1 /\ new[1] = "note"
  /\ \A i \in 1..Len(lines) : new[i + 1] = lines[i]

LEMMA ShiftDeep ==
  ASSUME NEW lines, NEW new, Shifted(lines, new), NEW i \in 1..Len(lines) + 1
  PROVE  Deep(new, i + 1) <=> Deep(lines, i)
<1> DEFINE n == Len(lines)
<1>0. /\ n \in Nat /\ new[1] = "note" /\ \A j \in 1..n : new[j + 1] = lines[j]
  BY DEF Shifted
<1> HIDE DEF n
<1>i. i \in 1..n + 1
  BY DEF n
<1>1. ASSUME Deep(new, i + 1) PROVE Deep(lines, i)
  <2>1. PICK j \in 1..(i + 1) - 1 :
          new[j] = "opens" /\ \A k \in j + 1..(i + 1) - 1 : new[k] # "closes"
    BY <1>1 DEF Deep
  <2>2. j # 1
    BY <1>0, <2>1
  <2>3. PICK l : l = j - 1
    OBVIOUS
  <2>4. l \in 1..i - 1 /\ l \in 1..n /\ j = l + 1
    BY <1>0, <1>i, <2>1, <2>2, <2>3
  <2>5. lines[l] = "opens"
    BY <1>0, <2>1, <2>4
  <2>6. ASSUME NEW k \in l + 1..i - 1 PROVE lines[k] # "closes"
    <3>1. k \in 1..n /\ k + 1 \in j + 1..(i + 1) - 1
      BY <1>0, <1>i, <2>4
    <3> QED
      BY <1>0, <2>1, <3>1
  <2> QED
    BY <2>4, <2>5, <2>6 DEF Deep
<1>2. ASSUME Deep(lines, i) PROVE Deep(new, i + 1)
  <2>1. PICK j \in 1..i - 1 :
          lines[j] = "opens" /\ \A k \in j + 1..i - 1 : lines[k] # "closes"
    BY <1>2 DEF Deep
  <2>2. PICK l : l = j + 1
    OBVIOUS
  <2>3. l \in 1..(i + 1) - 1 /\ j \in 1..n
    BY <1>0, <1>i, <2>1, <2>2
  <2>4. new[l] = "opens"
    BY <1>0, <2>1, <2>2, <2>3
  <2>5. ASSUME NEW k \in l + 1..(i + 1) - 1 PROVE new[k] # "closes"
    <3>1. PICK q : q = k - 1
      OBVIOUS
    <3>2. q \in 1..n /\ q \in j + 1..i - 1 /\ k = q + 1
      BY <1>0, <1>i, <2>2, <2>3, <3>1
    <3> QED
      BY <1>0, <2>1, <3>2
  <2> QED
    BY <2>3, <2>4, <2>5 DEF Deep
<1> QED
  BY <1>1, <1>2

LEMMA ShiftOurs ==
  ASSUME NEW lines, NEW new, Shifted(lines, new)
  PROVE  /\ ~Ours(new, 1)
         /\ \A i \in 1..Len(lines) : Ours(new, i + 1) <=> Ours(lines, i)
<1> DEFINE n == Len(lines)
<1>0. /\ n \in Nat /\ new[1] = "note" /\ \A j \in 1..n : new[j + 1] = lines[j]
  BY DEF Shifted
<1>1. ASSUME NEW i \in 1..n PROVE Header(new, i + 1) <=> Header(lines, i)
  <2>1. Deep(new, i + 1) <=> Deep(lines, i)
    <3>1. i \in 1..Len(lines) + 1
      BY <1>0
    <3> QED
      BY <3>1, ShiftDeep
  <2> QED
    BY <1>0, <2>1 DEF Header
<1> HIDE DEF n
<1>2. ~Header(new, 1)
  BY <1>0 DEF Header, LooksLikeHeader
<1>3. ~Ours(new, 1)
  BY <1>2 DEF Ours
<1>4. ASSUME NEW i \in 1..n, Ours(new, i + 1) PROVE Ours(lines, i)
  <2>1. PICK h \in 1..i + 1 : /\ Header(new, h) /\ \A k \in h + 1..i + 1 : ~Header(new, k)
                              /\ new[h] \in {"entry", "entry_env", "ours"}
    BY <1>4 DEF Ours
  <2>2. h # 1
    BY <1>2, <2>1
  <2>3. PICK l : l = h - 1
    OBVIOUS
  <2>4. l \in 1..i /\ l \in 1..n /\ h = l + 1
    BY <1>0, <2>1, <2>2, <2>3
  <2>5. Header(lines, l) /\ lines[l] \in {"entry", "entry_env", "ours"}
    BY <1>0, <1>1, <2>1, <2>4
  <2>6. ASSUME NEW k \in l + 1..i PROVE ~Header(lines, k)
    <3>1. k \in 1..n /\ k + 1 \in h + 1..i + 1
      BY <1>0, <2>4
    <3> QED
      BY <1>1, <2>1, <3>1
  <2> QED
    BY <2>4, <2>5, <2>6 DEF Ours
<1>5. ASSUME NEW i \in 1..n, Ours(lines, i) PROVE Ours(new, i + 1)
  <2>1. PICK h \in 1..i : /\ Header(lines, h) /\ \A k \in h + 1..i : ~Header(lines, k)
                          /\ lines[h] \in {"entry", "entry_env", "ours"}
    BY <1>5 DEF Ours
  <2>2. PICK l : l = h + 1
    OBVIOUS
  <2>3. l \in 1..i + 1 /\ h \in 1..n
    BY <1>0, <2>2
  <2>4. Header(new, l) /\ new[l] \in {"entry", "entry_env", "ours"}
    BY <1>0, <1>1, <2>1, <2>2, <2>3
  <2>5. ASSUME NEW k \in l + 1..i + 1 PROVE ~Header(new, k)
    <3>1. PICK q : q = k - 1
      OBVIOUS
    <3>2. q \in 1..n /\ q \in h + 1..i /\ k = q + 1
      BY <1>0, <2>2, <3>1
    <3> QED
      BY <1>1, <2>1, <3>2
  <2> QED
    BY <2>3, <2>4, <2>5 DEF Ours
<1> QED
  BY <1>3, <1>4, <1>5 DEF n

LEMMA NoteKeeps ==
  ASSUME NEW f, NEW raw, NEW text, Holding(f, raw, text)
  PROVE  /\ Holding(f, <<"note">> \o Text(raw), <<"note">> \o text)
         /\ Chosen(raw) => Chosen(<<"note">> \o Text(raw))
<1> DEFINE lines == Text(raw)
           new == <<"note">> \o lines
           n == Len(lines)
           S == Mine(f, lines)
           T == Mine(f, new)
           q == <<"note">> \o text
           take == [i \in T |-> IF i = 1 THEN 1 ELSE Place(S, i - 1) + 1]
<1>1. /\ Lined(lines) /\ Text(lines) = lines /\ (f = "codex" => WellNamed(lines))
      /\ text = Those(lines, S)
  BY HoldingText
<1>2. n \in Nat /\ S \subseteq 1..n /\ lines \in Seq(ToSet(lines))
  BY <1>1, LengthLined DEF Mine, Lined
<1>3. Lined(text) /\ Len(text) = Cardinality(S) /\ Cardinality(S) \in Nat
  <2> HIDE DEF S, lines
  <2> QED
    BY <1>1, <1>2, ThoseAre, Places
<1> DEFINE N == Cardinality(S)
<1>4. /\ \A i \in S : Place(S, i) \in 1..N /\ text[Place(S, i)] = lines[i]
      /\ \A i, j \in S : i < j => Place(S, i) < Place(S, j)
      /\ \A k \in 1..N : \E i \in S : Place(S, i) = k
  <2> HIDE DEF S, lines, n
  <2>1. \A x : \A i \in S : Those(x, S)[Place(S, i)] = x[i]
    BY <1>2, ThoseAt
  <2>2. \A i \in S : text[Place(S, i)] = lines[i]
    BY <1>1, <2>1
  <2> QED
    BY <1>2, <2>2, Places
<1> HIDE DEF lines
\* A note before a sequence.
<1>5. ASSUME NEW s, Lined(s)
      PROVE  LET r == <<"note">> \o s IN
             /\ Lined(r) /\ Len(r) = Len(s) + 1 /\ r[1] = "note"
             /\ \A i \in 1..Len(s) : r[i + 1] = s[i]
             /\ {"note"} \cup ToSet(s) \subseteq ToSet(r)
  <2>1. Lined(<<"note">>) /\ ToSet(<<"note">>) = {"note"} /\ Len(<<"note">>) = 1
    BY OneLined
  <2>2. Lined(<<"note">> \o s) /\ {"note"} \cup ToSet(s) \subseteq ToSet(<<"note">> \o s)
    BY <1>5, <2>1, ConcatLined
  <2>3. s \in Seq({"note"} \cup ToSet(s)) /\ <<"note">> \in Seq({"note"} \cup ToSet(s))
    BY <1>5 DEF Lined
  <2>4. \A Z : \A x \in Seq(Z) :
          /\ Len(<<"note">> \o x) = Len(x) + 1 /\ (<<"note">> \o x)[1] = "note"
          /\ \A i \in 1..Len(x) : (<<"note">> \o x)[i + 1] = x[i]
    OBVIOUS
  <2> QED
    BY <2>2, <2>3, <2>4
<1>6. /\ Lined(new) /\ Len(new) = n + 1 /\ new[1] = "note"
      /\ \A i \in 1..n : new[i + 1] = lines[i]
      /\ {"note"} \cup ToSet(lines) \subseteq ToSet(new)
  BY <1>1, <1>5
<1>7. /\ Lined(q) /\ Len(q) = N + 1 /\ q[1] = "note"
      /\ \A i \in 1..N : q[i + 1] = text[i]
  BY <1>3, <1>5
<1> HIDE DEF new, q, N
<1>8. Text(new) = new
  BY <1>6, ThereIs
<1>9. Shifted(lines, new)
  BY <1>2, <1>6 DEF Shifted
<1>10. /\ ~Ours(new, 1)
       /\ \A i \in 1..n : Ours(new, i + 1) <=> Ours(lines, i)
       /\ \A i \in 1..n + 1 : Deep(new, i + 1) <=> Deep(lines, i)
  BY <1>9, ShiftOurs, ShiftDeep
<1>11. /\ 1 \in T /\ T \subseteq 1..n + 1
       /\ \A i \in 1..n : i + 1 \in T <=> i \in S
  <2>1. 1 \in 1..n + 1 /\ \A i \in 1..n : i + 1 \in 1..n + 1
    BY <1>2
  <2> QED
    BY <1>6, <1>10, <2>1 DEF Mine
<1>12. \A k \in 1..n + 1 : k = 1 \/ (k - 1 \in 1..n /\ (k - 1) + 1 = k)
  BY <1>2
<1> HIDE DEF n, S, T
<1>13. \A k \in T : k = 1 \/ (k - 1 \in S /\ (k - 1) + 1 = k /\ k - 1 \in 1..n)
  BY <1>11, <1>12
<1>14. Copies(take, new, T, q, 1..N + 1)
  <2>0. N \in Nat /\ n \in Nat
    BY <1>2, <1>3 DEF N
  <2>1. \A k \in T : take[k] \in 1..N + 1
    <3>1. \A i \in S : Place(S, i) + 1 \in 1..N + 1
      BY <1>4, <2>0
    <3> QED
      BY <1>13, <2>0, <3>1
  <2>2. ASSUME NEW p \in 1..N + 1 PROVE \E k \in T : take[k] = p
    <3>1. CASE p = 1
      BY <1>11, <3>1
    <3>2. CASE p # 1
      <4>1. PICK x : x = p - 1
        OBVIOUS
      <4>2. x \in 1..N /\ p = x + 1
        BY <2>0, <3>2, <4>1
      <4>3. PICK i \in S : Place(S, i) = x
        BY <1>4, <4>2
      <4>4. i \in 1..n
        BY <1>2
      <4>5. i + 1 \in T /\ i + 1 # 1 /\ (i + 1) - 1 = i
        BY <1>11, <2>0, <4>4
      <4>6. take[i + 1] = Place(S, i) + 1
        BY <4>5
      <4> QED
        BY <4>2, <4>3, <4>5, <4>6
    <3> QED
      BY <3>1, <3>2
  <2>3. ASSUME NEW k \in T, NEW l \in T, k < l PROVE take[k] < take[l]
    <3>0. k \in 1..n + 1 /\ l \in 1..n + 1
      BY <1>11
    <3>1. l # 1 /\ l - 1 \in S
      BY <1>13, <2>0, <2>3, <3>0
    <3>2. take[l] = Place(S, l - 1) + 1 /\ Place(S, l - 1) \in 1..N
      BY <1>4, <3>1
    <3>3. CASE k = 1
      BY <2>0, <3>2, <3>3
    <3>4. CASE k # 1
      <4>1. k - 1 \in S /\ take[k] = Place(S, k - 1) + 1
        BY <1>13, <3>4
      <4>2. k - 1 < l - 1
        BY <2>0, <2>3, <3>0
      <4>3. PICK i, j : i = k - 1 /\ j = l - 1
        OBVIOUS
      <4>4. Place(S, i) < Place(S, j) /\ Place(S, i) \in 1..N /\ Place(S, j) \in 1..N
        BY <1>4, <3>1, <4>1, <4>2, <4>3
      <4> HIDE DEF take
      <4> QED
        BY <2>0, <3>2, <4>1, <4>3, <4>4
    <3> QED
      BY <3>3, <3>4
  <2>4. ASSUME NEW k \in T PROVE new[k] = q[take[k]]
    <3>1. CASE k = 1
      BY <1>6, <1>7, <3>1
    <3>2. CASE k # 1
      <4>1. PICK i : i = k - 1
        OBVIOUS
      <4>2. i \in S /\ i \in 1..n /\ k = i + 1
        BY <1>13, <3>2, <4>1
      <4>3. new[k] = lines[i]
        BY <1>6, <4>2
      <4>4. take[k] = Place(S, i) + 1
        BY <3>2, <4>1
      <4>5. q[Place(S, i) + 1] = lines[i]
        BY <1>4, <1>7, <4>2
      <4> QED
        BY <4>3, <4>4, <4>5
    <3> QED
      BY <3>1, <3>2
  <2>5. take = [k \in T |-> take[k]]
    OBVIOUS
  <2> HIDE DEF take
  <2> QED
    BY <2>1, <2>2, <2>3, <2>4, <2>5 DEF Copies
<1>15. Those(new, T) = q
  <2>1. Those(new, T) = Those(q, 1..N + 1)
    <3>1. n + 1 \in Nat /\ N + 1 \in Nat
      BY <1>2, <1>3 DEF N
    <3>2. PICK U : U = 1..N + 1
      OBVIOUS
    <3>3. Numbered(T) /\ Numbered(U)
      BY <1>11, <3>1, <3>2 DEF Numbered
    <3> HIDE DEF take
    <3>4. Copies(take, new, T, q, U)
      BY <1>14, <3>2
    <3>5. Those(new, T) = Those(q, U)
      BY <3>3, <3>4, SameThose
    <3> QED
      BY <3>2, <3>5
  <2>2. Those(q, 1..N + 1) = q
    BY <1>7, ThoseAll
  <2> QED
    BY <2>1, <2>2
<1>16. f = "codex" => WellNamed(new)
  <2> SUFFICES ASSUME f = "codex" PROVE WellNamed(new)
    OBVIOUS
  <2>1. /\ ~Deep(lines, n + 1)
        /\ \A i \in 1..n : /\ lines[i] = "quoted" => Deep(lines, i)
                           /\ lines[i] = "plugin" => ~Deep(lines, i)
    BY <1>1 DEF WellNamed, n
  <2>2. ~Deep(new, (n + 1) + 1)
    <3>1. n + 1 \in 1..n + 1
      BY <1>2
    <3> QED
      BY <1>10, <2>1, <3>1
  <2>3. ASSUME NEW k \in 1..n + 1
        PROVE  (new[k] = "quoted" => Deep(new, k)) /\ (new[k] = "plugin" => ~Deep(new, k))
    <3>1. CASE k = 1
      BY <1>6, <3>1
    <3>2. CASE k # 1
      <4>1. PICK i : i = k - 1
        OBVIOUS
      <4>2. i \in 1..n /\ k = i + 1 /\ i \in 1..n + 1
        BY <1>2, <3>2, <4>1
      <4>3. new[k] = lines[i] /\ (Deep(new, k) <=> Deep(lines, i))
        BY <1>6, <1>10, <4>2
      <4> QED
        BY <2>1, <4>2, <4>3
    <3> QED
      BY <3>1, <3>2
  <2> QED
    BY <1>6, <1>8, <2>2, <2>3 DEF WellNamed
<1>17. Holding(f, new, Those(new, Mine(f, new)))
  BY <1>6, <1>8, <1>16, HoldingIs
<1>18. Chosen(raw) => Chosen(new)
  BY <1>6, <1>8 DEF Chosen, lines
<1> QED
  BY <1>15, <1>17, <1>18 DEF T, new, q, lines

-----------------------------------------------------------------------------
(* What the user wrote is to be had.                                       *)

\* t has planned what becomes of f.
Plans(t, f) ==
  \/ at[t] \in {"plain_backup", "plain_write"} /\ f = Client(t)
  \/ at[t] \in {"allow_backup", "allow_write"} /\ f = "settings"
  \/ at[t] \in {"codex_backup", "codex_write"} /\ f = "codex"
PlanPc ==
  {"plain_backup", "plain_write", "allow_backup", "allow_write", "codex_backup",
   "codex_write"}
WritePc == {"plain_write", "allow_write", "codex_write"}

\* It may still put back what it found.
RestorePc ==
  {"codex_market", "codex_verify", "codex_mcp", "codex_backup", "codex_write",
   "codex_add", "codex_post", "codex_migrate", "codex_unmove", "codex_restore"}

Backed(f) == mine[f] = << >> \/ UserLines(f, bak[f]) = mine[f]

\* What it has in hand holds the lines of the user, as the files do.
Recalls(t) ==
  /\ at[t] \in InstallPc => inst[t].pkg # None
  /\ at[t] \in RestorePc => Holding("codex", inst[t].snapshot, mine["codex"])
  /\ \A f \in File : Plans(t, f) =>
       /\ Holding(f, inst[t].plan, mine[f])
       /\ at[t] \in WritePc => Backed(f)

Whole ==
  /\ world.tool # None
  /\ DOMAIN config = File /\ DOMAIN bak = File /\ DOMAIN mine = File
  /\ \A f \in File : Holding(f, config[f], mine[f])

\* Nobody writes again.
NobodyWrites ==
  /\ "edit" \notin case.trouble
  /\ \A t \in Terminal :
       Bystander(case, t) \/ (at[t] = "prompt" /\ todo[t] = << >>)

\* The machine has gone down in a write.
Ruined == "torn" \in case.trouble /\ ConfigIsRecoverable /\ NobodyWrites

\* A machine that goes down in the middle of a write has one command to run,
\* and nobody edits the rest of that file.
OneTear ==
  \A c \in Cases : "torn" \in c.trouble =>
    /\ "edit" \notin c.trouble
    /\ \E t \in Terminal : /\ Len(c.todo[t]) <= 1
                           /\ \A u \in Terminal \ {t} : Bystander(c, u)

KeptInv ==
  /\ Registered
  /\ (Whole /\ \A t \in Terminal : Recalls(t)) \/ Ruined

-----------------------------------------------------------------------------
LEMMA InstallSame ==
  ASSUME NEW t \in Terminal, InstallStep(t)
  PROVE  world' = world /\ mine' = mine
<1>1. CASE PlainStep(t)
  BY <1>1 DEF PlainStep, install, install_skills, install_client, native_fails, give_up,
     plain_plan, plain_backup, plain_write, TornWrite, _ensure_skills, extract_skills,
     ExtractFails, stamp_skills_dir
<1>2. CASE CodexStep(t)
  BY <1>2 DEF CodexStep, codex_read, _snapshot_config, codex_market, codex_verify, codex_mcp,
     codex_backup, codex_write, codex_add, codex_post, migrate_legacy_skills,
     migration_undone, _restore_configs, CodexProgramFails, CodexProgramLacks, clients
<1>3. CASE ClaudeStep(t)
  BY <1>3 DEF ClaudeStep, claude_read, claude_market, claude_update, claude_plugin,
     claude_mcp_get, claude_mcp_remove, claude_mcp_add, _apply_claude_allowlist,
     allow_backup, allow_write, clients
<1> QED
  BY <1>1, <1>2, <1>3 DEF InstallStep

\* A backup is made of what is there.
BacksUp(t) ==
  \/ bak' = bak
  \/ \E f : bak' = [bak EXCEPT ![f] = config[f]]

LEMMA InstallBacksUp ==
  ASSUME NEW t \in Terminal, InstallStep(t)
  PROVE  BacksUp(t)
<1>0. ASSUME NEW f, NEW then, NEW done, Backup(t, f, then, done) PROVE BacksUp(t)
  BY <1>0 DEF Backup, BacksUp
<1>1. CASE PlainStep(t)
  <2>1. CASE plain_backup(t)
    BY <1>0, <2>1 DEF plain_backup
  <2>2. CASE ~plain_backup(t)
    BY <1>1, <2>2 DEF PlainStep, install, install_skills, install_client, native_fails, give_up,
       plain_plan, plain_write, TornWrite, _ensure_skills, extract_skills,
       ExtractFails, stamp_skills_dir, files, BacksUp
  <2> QED
    BY <2>1, <2>2
<1>2. CASE CodexStep(t)
  <2>1. CASE codex_backup(t)
    BY <1>0, <2>1 DEF codex_backup
  <2>2. CASE ~codex_backup(t)
    BY <1>2, <2>2 DEF CodexStep, codex_read, _snapshot_config, codex_market, codex_verify,
       codex_mcp, codex_write, codex_add, codex_post, migrate_legacy_skills, BacksUp,
       migration_undone, _restore_configs, CodexProgramFails, CodexProgramLacks, clients, files
  <2> QED
    BY <2>1, <2>2
<1>3. CASE ClaudeStep(t)
  <2>1. CASE allow_backup(t)
    BY <1>0, <2>1 DEF allow_backup, BacksUp
  <2>2. CASE ~allow_backup(t)
    BY <1>3, <2>2 DEF ClaudeStep, claude_read, claude_market, claude_update, claude_plugin,
       claude_mcp_get, claude_mcp_remove, claude_mcp_add, _apply_claude_allowlist,
       allow_write, clients, files, BacksUp
  <2> QED
    BY <2>1, <2>2
<1> QED
  BY <1>1, <1>2, <1>3 DEF InstallStep

\* A file that gets a text with the lines of its user has them.
LEMMA OneWritten ==
  ASSUME Whole, NEW f, NEW s, config' = [config EXCEPT ![f] = s],
         f \in File => Holding(f, s, mine[f])
  PROVE  DOMAIN config' = File /\ \A g \in File : Holding(g, config'[g], mine[g])
<1>1. DOMAIN config' = File
  BY DEF Whole
<1>2. ASSUME NEW g \in File PROVE Holding(g, config'[g], mine[g])
  <2>1. CASE g = f
    BY <2>1 DEF Whole
  <2>2. CASE g # f
    BY <2>2 DEF Whole
  <2> QED
    BY <2>1, <2>2
<1> QED
  BY <1>1, <1>2

LEMMA InstallKeeps ==
  ASSUME Whole, NEW t \in Terminal, Recalls(t), InstallStep(t), ~TornWrite(t)
  PROVE  DOMAIN config' = File /\ \A g \in File : Holding(g, config'[g], mine[g])
<1>1. ASSUME config' = config
      PROVE  DOMAIN config' = File /\ \A g \in File : Holding(g, config'[g], mine[g])
  BY <1>1 DEF Whole
<1>2. \A f \in File : Plans(t, f) => Holding(f, inst[t].plan, mine[f])
  BY DEF Recalls
<1>3. CASE PlainStep(t)
  <2>1. CASE plain_write(t)
    <3>1. config' = [config EXCEPT ![Client(t)] = inst[t].plan] /\ at[t] = "plain_write"
      BY <2>1 DEF plain_write, Write, Runs
    <3>2. Client(t) \in File => Holding(Client(t), inst[t].plan, mine[Client(t)])
      BY <1>2, <3>1 DEF Plans
    <3> QED
      BY <3>1, <3>2, OneWritten
  <2>2. CASE ~plain_write(t)
    BY <1>1, <1>3, <2>2 DEF PlainStep, install, install_skills, install_client, native_fails,
       give_up, plain_plan, plain_backup, _ensure_skills, extract_skills,
       ExtractFails, stamp_skills_dir, files
  <2> QED
    BY <2>1, <2>2
<1>4. CASE CodexStep(t)
  <2>0. Holding("codex", config["codex"], mine["codex"]) /\ "codex" \in File
    BY DEF Whole, File
  <2>1. ASSUME NEW line \in {"market", "plugin"},
               config' = [config EXCEPT !["codex"] = Append1(@, line)]
        PROVE  DOMAIN config' = File /\ \A g \in File : Holding(g, config'[g], mine[g])
    <3>1. PICK s : s = Append1(config["codex"], line)
      OBVIOUS
    <3>2. Holding("codex", s, mine["codex"])
      BY <2>0, <3>1, LineKeeps
    <3>3. config' = [config EXCEPT !["codex"] = s]
      BY <2>1, <3>1
    <3> QED
      BY <3>2, <3>3, OneWritten
  <2>2. CASE codex_market(t)
    BY <1>1, <2>1, <2>2 DEF codex_market
  <2>3. CASE codex_write(t)
    <3>1. config' = [config EXCEPT !["codex"] = inst[t].plan] /\ at[t] = "codex_write"
      BY <2>3 DEF codex_write, Write, Runs
    <3>2. Holding("codex", inst[t].plan, mine["codex"])
      BY <1>2, <2>0, <3>1 DEF Plans
    <3> QED
      BY <3>1, <3>2, OneWritten
  <2>4. CASE codex_add(t)
    BY <2>1, <2>4 DEF codex_add
  <2>5. CASE _restore_configs(t)
    <3>1. config' = [config EXCEPT !["codex"] = inst[t].snapshot] /\ at[t] = "codex_restore"
      BY <2>5 DEF _restore_configs, Runs
    <3>2. Holding("codex", inst[t].snapshot, mine["codex"])
      BY <3>1 DEF Recalls, RestorePc
    <3> QED
      BY <3>1, <3>2, OneWritten
  <2>6. CASE ~codex_market(t) /\ ~codex_write(t) /\ ~codex_add(t) /\ ~_restore_configs(t)
    BY <1>1, <1>4, <2>6 DEF CodexStep, codex_read, _snapshot_config, codex_verify, codex_mcp,
       codex_backup, codex_post, migrate_legacy_skills, migration_undone,
       CodexProgramFails, CodexProgramLacks, files, clients
  <2> QED
    BY <2>2, <2>3, <2>4, <2>5, <2>6
<1>5. CASE ClaudeStep(t)
  <2>1. CASE allow_write(t)
    <3>1. config' = [config EXCEPT !["settings"] = inst[t].plan] /\ at[t] = "allow_write"
      BY <2>1 DEF allow_write, Runs
    <3>2. Holding("settings", inst[t].plan, mine["settings"])
      BY <1>2, <3>1 DEF Plans, File
    <3> QED
      BY <3>1, <3>2, OneWritten
  <2>2. CASE ~allow_write(t)
    BY <1>1, <1>5, <2>2 DEF ClaudeStep, claude_read, claude_market, claude_update,
       claude_plugin, claude_mcp_get, claude_mcp_remove, claude_mcp_add,
       _apply_claude_allowlist, allow_backup, files, clients
  <2> QED
    BY <2>1, <2>2
<1> QED
  BY <1>3, <1>4, <1>5 DEF InstallStep

\* An installer starts with the version that runs, for one client or for all.
Begins(t) ==
  /\ at[t] = "prompt" /\ inst'[t].pkg = world.tool
  /\ Job(t).all \/ \E c : inst'[t].targets = <<c>>

\* It goes on with that version, and with the clients that are left.
Follows(t) ==
  /\ inst'[t].pkg = inst[t].pkg
  /\ \/ inst'[t].targets = inst[t].targets
     \/ inst'[t].targets = Tail(inst[t].targets) /\ at[t] \notin {"client", "give_up"}

LEMMA InstallPacked ==
  ASSUME Shelled, Registered, NEW t \in Terminal, InstallStep(t)
  PROVE  at'[t] \in InstallPc => Begins(t) \/ (at[t] \in InstallPc /\ Follows(t))
<1> SUFFICES ASSUME at'[t] \in InstallPc
             PROVE  Begins(t) \/ (at[t] \in InstallPc /\ Follows(t))
  OBVIOUS
<1>0. /\ DOMAIN inst = Terminal /\ DOMAIN inst[t] = InstallRegister
      /\ {"pkg", "targets"} \subseteq InstallRegister
  BY DEF Registered, InstallRegister
<1>1. CASE install(t) \/ install_skills(t)
  <2>1. {"pkg", "targets"} \subseteq DOMAIN NoInstall
    BY DEF NoInstall
  <2>2. CASE install(t)
    <3>1. PICK targets, all, bare :
            /\ inst' = [inst EXCEPT ![t] = [NoInstall EXCEPT !.targets = targets,
                         !.all = all, !.no_skills = bare, !.pkg = world.tool]]
            /\ Job(t).all \/ \E c : targets = <<c>>
      BY <2>2 DEF install
    <3>2. inst'[t].pkg = world.tool /\ inst'[t].targets = targets
      BY <1>0, <2>1, <3>1
    <3> QED
      BY <2>2, <3>1, <3>2 DEF Begins, install, Starts
  <2>3. CASE install_skills(t)
    <3>1. PICK targets :
            /\ inst' = [inst EXCEPT ![t] = [NoInstall EXCEPT !.targets = targets,
                         !.skills_only = TRUE, !.pkg = world.tool]]
            /\ Job(t).all \/ \E c : targets = <<c>>
      BY <2>3 DEF install_skills
    <3>2. inst'[t].pkg = world.tool /\ inst'[t].targets = targets
      BY <1>0, <2>1, <3>1
    <3> QED
      BY <2>3, <3>1, <3>2 DEF Begins, install_skills, Starts
  <2> QED
    BY <1>1, <2>2, <2>3
<1>2. CASE ~install(t) /\ ~install_skills(t)
  <2>1. at[t] \in InstallPc
    BY <1>2 DEF InstallStep, PlainStep, CodexStep, ClaudeStep, InstallPc, Runs,
     install_client, native_fails, give_up,
     plain_plan, plain_backup, plain_write, TornWrite, _ensure_skills, extract_skills,
     ExtractFails, stamp_skills_dir, codex_read, _snapshot_config, codex_market,
     codex_verify, codex_mcp, codex_backup, codex_write, codex_add, codex_post,
     migrate_legacy_skills, migration_undone, _restore_configs, CodexProgramFails,
     CodexProgramLacks, claude_read, claude_market, claude_update, claude_plugin,
     claude_mcp_get, claude_mcp_remove, claude_mcp_add, _apply_claude_allowlist,
     allow_backup, allow_write
  <2>2. ASSUME inst' = inst PROVE Follows(t)
    BY <2>2 DEF Follows
  <2>3. ASSUME NEW r, Set(t, r), {"pkg", "targets"} \cap DOMAIN r = {} PROVE Follows(t)
    BY <1>0, <2>3 DEF Set, Over, Follows
  <2>4. ASSUME NEW how, Finish(t, how) PROVE FALSE
    <3>1. at'[t] \in {"prompt", "update_after"}
      BY <2>4 DEF Finish, Ends, Shelled
    <3> QED
      BY <3>1 DEF InstallPc
  <2>5. ASSUME NextClient(t), at[t] \notin {"client", "give_up"} PROVE Follows(t)
    <3>1. Set(t, [targets |-> Tail(inst[t].targets)])
      BY <2>5 DEF NextClient, Rest
    <3> QED
      BY <1>0, <2>5, <3>1 DEF Set, Over, Follows
  <2>6. Follows(t)
    <3>1. CASE PlainStep(t)
      <4>1. CASE TornWrite(t)
        BY <4>1 DEF TornWrite, Shelled, InstallPc
      <4>2. CASE install_client(t)
        BY <2>2, <2>4, <4>2 DEF install_client
      <4>3. CASE native_fails(t)
        <5>1. Set(t, [targets |-> Tail(inst[t].targets), errors |-> TRUE]) /\ at[t] = "native_fails"
          BY <2>4, <4>3 DEF native_fails, Rest, Runs
        <5> QED
          BY <1>0, <5>1 DEF Set, Over, Follows
      <4>4. CASE give_up(t)
        BY <2>4, <4>4 DEF give_up
      <4>5. CASE plain_plan(t)
        BY <2>3, <2>4, <4>5 DEF plain_plan
      <4>6. CASE plain_backup(t) \/ plain_write(t)
        BY <2>2, <4>6 DEF plain_backup, plain_write
      <4>7. CASE _ensure_skills(t)
        <5>0. at[t] = "skills"
          BY <4>7 DEF _ensure_skills, Runs
        <5>1. ASSUME NEW r, r = [targets |-> Tail(inst[t].targets), offline |-> TRUE], Set(t, r)
              PROVE  Follows(t)
          BY <1>0, <5>0, <5>1 DEF Set, Over, Follows
        <5>2. ASSUME NEW tar, NEW left, Set(t, [tar |-> tar, left |-> left]) PROVE Follows(t)
          BY <2>3, <5>2
        <5> QED
          BY <2>2, <2>5, <4>7, <5>0, <5>1, <5>2 DEF _ensure_skills, Rest
      <4>8. CASE extract_skills(t)
        <5>1. ASSUME NEW s, Set(t, [left |-> inst[t].left \ {s}])
              PROVE  Follows(t)
          BY <2>3, <5>1
        <5> QED
          BY ONLY <2>2, <4>8, <5>1 DEF extract_skills
      <4>9. CASE ExtractFails(t)
        <5>1. at[t] = "extract" /\ (inst' = inst \/ Set(t, [targets |-> Tail(inst[t].targets)]))
          BY <4>9 DEF ExtractFails, Rest, Runs
        <5> QED
          BY <1>0, <2>2, <5>1 DEF Set, Over, Follows
      <4>10. CASE stamp_skills_dir(t)
        BY <2>5, <4>10 DEF stamp_skills_dir, Runs
      <4> QED
        BY <1>2, <3>1, <4>1, <4>2, <4>3, <4>4, <4>5, <4>6, <4>7, <4>8, <4>9, <4>10 DEF PlainStep
    <3>2. CASE CodexStep(t)
      <4>1. CASE codex_read(t)
        BY <2>2, <2>3, <4>1 DEF codex_read
      <4>2. CASE _snapshot_config(t)
        BY <2>3, <4>2 DEF _snapshot_config
      <4>3. CASE codex_market(t) \/ codex_backup(t) \/ codex_write(t) \/ codex_add(t)
                 \/ _restore_configs(t)
        BY <2>2, <4>3 DEF codex_market, codex_backup, codex_write, codex_add, _restore_configs
      <4>4. CASE codex_verify(t)
        BY <2>2, <2>3, <4>4 DEF codex_verify
      <4>5. CASE codex_mcp(t)
        BY <2>2, <2>3, <4>5 DEF codex_mcp
      <4>6. CASE codex_post(t)
        BY <2>2, <2>3, <4>6 DEF codex_post
      <4>7. CASE migrate_legacy_skills(t)
        <5>1. ASSUME NEW s, Set(t, [left |-> inst[t].left \ {s},
                                    moved |-> inst[t].moved \cup {s}])
              PROVE  Follows(t)
          BY <2>3, <5>1
        <5> QED
          BY ONLY <2>2, <2>5, <4>7, <5>1 DEF migrate_legacy_skills, Runs
      <4>8. CASE migration_undone(t)
        <5>1. ASSUME NEW s, Set(t, [moved |-> inst[t].moved \ {s}])
              PROVE  Follows(t)
          BY <2>3, <5>1
        <5> QED
          BY ONLY <2>2, <2>5, <4>8, <5>1 DEF migration_undone, Runs
      <4>9. CASE CodexProgramFails(t) \/ CodexProgramLacks(t)
        BY <2>2, <4>9 DEF CodexProgramFails, CodexProgramLacks, clients
      <4> QED
        BY <3>2, <4>1, <4>2, <4>3, <4>4, <4>5, <4>6, <4>7, <4>8, <4>9 DEF CodexStep
    <3>3. CASE ClaudeStep(t)
      <4>1. CASE claude_read(t)
        BY <2>2, <2>3, <4>1 DEF claude_read
      <4>2. CASE \/ claude_market(t) \/ claude_update(t) \/ claude_plugin(t)
                 \/ claude_mcp_get(t) \/ claude_mcp_remove(t) \/ claude_mcp_add(t)
        BY <2>2, <4>2 DEF claude_market, claude_update, claude_plugin, claude_mcp_get,
           claude_mcp_remove, claude_mcp_add, clients
      <4>3. CASE _apply_claude_allowlist(t)
        BY <2>2, <2>3, <4>3 DEF _apply_claude_allowlist
      <4>4. CASE allow_backup(t)
        BY <2>2, <2>5, <4>4 DEF allow_backup, Runs
      <4>5. CASE allow_write(t)
        BY <2>5, <4>5 DEF allow_write, Runs
      <4> QED
        BY <3>3, <4>1, <4>2, <4>3, <4>4, <4>5 DEF ClaudeStep
    <3> QED
      BY <3>1, <3>2, <3>3 DEF InstallStep
  <2> QED
    BY <2>1, <2>6
<1> QED
  BY <1>1, <1>2

\* Where t has planned nothing, and would put nothing back.
LEMMA NothingPlanned ==
  ASSUME NEW t \in Terminal, at'[t] \notin PlanPc \cup RestorePc,
         at'[t] \in InstallPc => inst'[t].pkg # None
  PROVE  Recalls(t)'
BY DEF Recalls, Plans, PlanPc, RestorePc

\* Where t would put back what it found, and has planned nothing.
LEMMA StillRestores ==
  ASSUME NEW t \in Terminal, Recalls(t), mine' = mine, inst'[t].pkg # None,
         at[t] \in RestorePc, at'[t] \in RestorePc \ PlanPc,
         inst'[t].snapshot = inst[t].snapshot
  PROVE  Recalls(t)'
BY DEF Recalls, Plans, PlanPc, RestorePc

\* The backup is of what is there, or there is nothing.
LEMMA BackupIs ==
  ASSUME Whole, NEW t \in Terminal, NEW f \in File, NEW then, NEW done,
         Backup(t, f, then, done), mine' = mine, at'[t] # done \/ then = done
  PROVE  config[f] = inst[t].plan \/ Backed(f)'
<1> SUFFICES ASSUME config[f] # inst[t].plan PROVE Backed(f)'
  OBVIOUS
<1>1. DOMAIN bak = File /\ UserLines(f, config[f]) = mine[f]
  BY DEF Whole, Holding
<1>2. CASE config[f] = Nothing
  <2>1. mine[f] = << >>
    BY <1>1, <1>2, NothingKept DEF UserLines, Text
  <2> QED
    BY <2>1 DEF Backed
<1>3. CASE config[f] # Nothing
  <2>1. bak'[f] = config[f]
    BY <1>1, <1>3 DEF Backup
  <2> QED
    BY <1>1, <2>1 DEF Backed, UserLines
<1> QED
  BY <1>2, <1>3

LEMMA InstallRecalls ==
  ASSUME Shelled, Registered, Whole, NEW t \in Terminal, Recalls(t), InstallStep(t)
  PROVE  Recalls(t)'
<1>0. /\ DOMAIN inst = Terminal /\ DOMAIN inst[t] = InstallRegister
      /\ DOMAIN at = Terminal
      /\ {"plan", "snapshot", "targets", "pkg"} \subseteq InstallRegister
      /\ mine' = mine
  BY InstallSame DEF Registered, InstallRegister, Shelled
<1>1. at'[t] \in InstallPc => inst'[t].pkg # None
  <2>1. at[t] \in InstallPc => inst[t].pkg # None
    BY DEF Recalls
  <2>2. world.tool # None
    BY DEF Whole
  <2> QED
    BY <2>1, <2>2, InstallPacked DEF Begins, Follows
<1>2. ASSUME at'[t] \notin PlanPc \cup RestorePc PROVE Recalls(t)'
  BY <1>1, <1>2, NothingPlanned
<1>3. ASSUME NEW r, Set(t, r)
      PROVE  /\ "plan" \in DOMAIN r => inst'[t].plan = r["plan"]
             /\ "plan" \notin DOMAIN r => inst'[t].plan = inst[t].plan
             /\ "snapshot" \in DOMAIN r => inst'[t].snapshot = r["snapshot"]
             /\ "snapshot" \notin DOMAIN r => inst'[t].snapshot = inst[t].snapshot
             /\ "targets" \notin DOMAIN r => inst'[t].targets = inst[t].targets
  BY <1>0, <1>3 DEF Set, Over
<1>4. ASSUME at[t] \in RestorePc, at'[t] \in RestorePc \ PlanPc,
             inst'[t].snapshot = inst[t].snapshot
      PROVE  Recalls(t)'
  <2>1. RestorePc \subseteq InstallPc
    BY DEF RestorePc, InstallPc
  <2> QED
    BY <1>0, <1>1, <1>4, <2>1, StillRestores
<1>5. ASSUME NEW p, Go(t, p) PROVE at'[t] = p
  BY <1>0, <1>5 DEF Go
<1>6. ASSUME NEW p, NEW kind, GoBadly(t, kind, p) PROVE at'[t] = p
  BY <1>0, <1>6 DEF GoBadly
<1>7. ASSUME NEW how, Finish(t, how) PROVE Recalls(t)'
  <2>1. at'[t] \in {"prompt", "update_after"}
    BY <1>7 DEF Finish, Ends, Shelled
  <2> QED
    BY <1>2, <2>1 DEF PlanPc, RestorePc
<1>8. ASSUME NextClient(t) PROVE Recalls(t)'
  BY <1>2, <1>5, <1>8 DEF NextClient, PlanPc, RestorePc
<1>9. CASE PlainStep(t)
  <2>1. CASE install(t) \/ install_skills(t) \/ install_client(t)
    BY <1>2, <1>5, <1>7, <2>1 DEF install, install_skills, install_client, PlanPc, RestorePc
  <2>2. CASE native_fails(t) \/ give_up(t)
    BY <1>2, <1>5, <1>7, <2>2 DEF native_fails, give_up, PlanPc, RestorePc
  <2>3. CASE plain_plan(t)
    <3>1. CASE build_plan(Client(t), config[Client(t)]).ok
      <4>1. PICK s : s = build_plan(Client(t), config[Client(t)]).content
        OBVIOUS
      <4>2. Go(t, "plain_backup") /\ Set(t, [plan |-> s])
        BY <2>3, <3>1, <4>1 DEF plain_plan
      <4>3. at'[t] = "plain_backup" /\ inst'[t].plan = s /\ inst'[t].targets = inst[t].targets
        BY <1>3, <1>5, <4>2
      <4>4. Client(t)' = Client(t)
        BY <4>3 DEF Client
      <4>5. Client(t) \in File => Holding(Client(t), s, mine[Client(t)])
        BY <3>1, <4>1, PlanKeeps DEF Whole
      <4>6. \A f \in File : Plans(t, f)' => Holding(f, inst'[t].plan, mine[f])
        BY <4>3, <4>4, <4>5 DEF Plans
      <4>7. "plain_backup" \notin WritePc \cup RestorePc
        BY DEF WritePc, RestorePc
      <4> QED
        BY <1>0, <1>1, <4>3, <4>6, <4>7 DEF Recalls, Holding, UserLines
    <3>2. CASE ~build_plan(Client(t), config[Client(t)]).ok
      BY <1>7, <2>3, <3>2 DEF plain_plan
    <3> QED
      BY <3>1, <3>2
  <2>4. CASE plain_backup(t)
    <3>1. at[t] = "plain_backup" /\ Backup(t, Client(t), "plain_write", "skills") /\ inst' = inst
      BY <2>4 DEF plain_backup, Runs
    <3>2. CASE at'[t] = "skills"
      BY <1>2, <3>2 DEF PlanPc, RestorePc
    <3>3. CASE at'[t] # "skills"
      <4>1. at'[t] = "plain_write" /\ config[Client(t)] # inst[t].plan
        BY <1>5, <3>1, <3>3 DEF Backup
      <4>2. PICK c : c = Client(t)
        OBVIOUS
      <4>3. c \in File => Backed(c)'
        <5>1. config[c] # inst[t].plan /\ Backup(t, c, "plain_write", "skills")
          BY <3>1, <4>1, <4>2
        <5> QED
          BY <1>0, <3>3, <5>1, BackupIs
      <4>4. c \in File => Holding(c, inst[t].plan, mine[c])
        BY <3>1, <4>2 DEF Recalls, Plans
      <4>5. \A f \in File : Plans(t, f)' => f = c
        BY <3>1, <4>1, <4>2 DEF Plans, Client
      <4>6. "plain_write" \notin RestorePc
        BY DEF RestorePc
      <4> QED
        BY <1>0, <1>1, <3>1, <4>1, <4>3, <4>4, <4>5, <4>6 DEF Recalls, Holding, UserLines
    <3> QED
      BY <3>2, <3>3
  <2>5. CASE plain_write(t) \/ TornWrite(t)
    <3>1. at'[t] \in {"skills", "prompt"}
      BY <1>0, <1>5, <2>5 DEF plain_write, Write, TornWrite
    <3> QED
      BY <1>2, <3>1 DEF PlanPc, RestorePc
  <2>6. CASE _ensure_skills(t)
    <3>1. at'[t] \in {"client", "extract", "give_up"}
      BY <1>5, <1>6, <2>6 DEF _ensure_skills, NextClient
    <3> QED
      BY <1>2, <3>1 DEF PlanPc, RestorePc
  <2>7. CASE extract_skills(t)
    <3>1. at'[t] \in {"stamp", "extract"}
      BY <1>5, <2>7 DEF extract_skills
    <3> QED
      BY <1>2, <3>1 DEF PlanPc, RestorePc
  <2>8. CASE ExtractFails(t)
    <3>1. at'[t] \in {"give_up", "client"}
      BY <1>6, <2>8 DEF ExtractFails
    <3> QED
      BY <1>2, <3>1 DEF PlanPc, RestorePc
  <2>9. CASE stamp_skills_dir(t)
    BY <1>8, <2>9 DEF stamp_skills_dir
  <2> QED
    BY <1>9, <2>1, <2>2, <2>3, <2>4, <2>5, <2>6, <2>7, <2>8, <2>9 DEF PlainStep
<1>10. CASE CodexStep(t)
  <2>1. CASE codex_read(t) \/ _restore_configs(t) \/ CodexProgramLacks(t)
    <3>1. at'[t] \in {"codex_snapshot", "native_fails"}
      BY <1>5, <1>6, <2>1 DEF codex_read, _restore_configs, CodexProgramLacks
    <3> QED
      BY <1>2, <3>1 DEF PlanPc, RestorePc
  <2>2. CASE _snapshot_config(t)
    <3>1. /\ at'[t] = "codex_market" /\ inst'[t].snapshot = config["codex"]
          /\ "codex_market" \in RestorePc \ PlanPc
      BY <1>3, <1>5, <2>2 DEF _snapshot_config, RestorePc, PlanPc
    <3>2. Holding("codex", config["codex"], mine["codex"])
      BY DEF Whole, File
    <3>3. \A f : ~Plans(t, f)'
      BY <3>1 DEF Plans, PlanPc
    <3> QED
      BY <1>0, <1>1, <3>1, <3>2, <3>3 DEF Recalls, Holding, UserLines
  <2>3. CASE codex_market(t)
    <3>1. at[t] = "codex_market" /\ at'[t] \in {"codex_verify", "codex_restore"} /\ inst' = inst
      BY <1>5, <1>6, <2>3 DEF codex_market, Runs
    <3> QED
      BY <1>4, <3>1 DEF RestorePc, PlanPc
  <2>4. CASE codex_verify(t)
    <3>1. /\ at[t] = "codex_verify" /\ at'[t] \in {"codex_add", "codex_mcp", "codex_restore"}
          /\ inst'[t].snapshot = inst[t].snapshot
      BY <1>3, <1>5, <2>4 DEF codex_verify, Runs
    <3> QED
      BY <1>4, <3>1 DEF RestorePc, PlanPc
  <2>5. CASE codex_mcp(t)
    <3>1. CASE build_plan("codex", config["codex"]).ok
      <4>1. PICK s : s = build_plan("codex", config["codex"]).content
        OBVIOUS
      <4>2. at[t] = "codex_mcp" /\ Go(t, "codex_backup") /\ Set(t, [plan |-> s])
        BY <2>5, <3>1, <4>1 DEF codex_mcp, Runs
      <4>3. at'[t] = "codex_backup" /\ inst'[t].plan = s /\ inst'[t].snapshot = inst[t].snapshot
        BY <1>3, <1>5, <4>2
      <4>4. Holding("codex", s, mine["codex"])
        BY <3>1, <4>1, PlanKeeps DEF Whole, File
      <4>5. Holding("codex", inst[t].snapshot, mine["codex"])
        BY <4>2 DEF Recalls, RestorePc
      <4>6. \A f \in File : Plans(t, f)' => f = "codex"
        BY <4>3 DEF Plans
      <4>7. "codex_backup" \notin WritePc
        BY DEF WritePc
      <4> QED
        BY <1>0, <1>1, <4>3, <4>4, <4>5, <4>6, <4>7 DEF Recalls, Holding, UserLines
    <3>2. CASE ~build_plan("codex", config["codex"]).ok
      <4>1. at[t] = "codex_mcp" /\ at'[t] = "codex_restore" /\ inst' = inst
        BY <1>5, <2>5, <3>2 DEF codex_mcp, Runs
      <4> QED
        BY <1>4, <4>1 DEF RestorePc, PlanPc
    <3> QED
      BY <3>1, <3>2
  <2>6. CASE codex_backup(t)
    <3>1. at[t] = "codex_backup" /\ Backup(t, "codex", "codex_write", "codex_add") /\ inst' = inst
      BY <2>6 DEF codex_backup, Runs
    <3>2. CASE at'[t] = "codex_add"
      BY <1>4, <3>1, <3>2 DEF PlanPc, RestorePc
    <3>3. CASE at'[t] # "codex_add"
      <4>1. at'[t] = "codex_write" /\ config["codex"] # inst[t].plan
        BY <1>5, <3>1, <3>3 DEF Backup
      <4>2. Backed("codex")'
        BY <1>0, <3>1, <3>3, <4>1, BackupIs DEF File
      <4>3. Holding("codex", inst[t].plan, mine["codex"])
        BY <3>1 DEF Recalls, Plans, File
      <4>4. \A f \in File : Plans(t, f)' => f = "codex"
        BY <4>1 DEF Plans
      <4>5. Holding("codex", inst[t].snapshot, mine["codex"])
        BY <3>1 DEF Recalls, RestorePc
      <4> QED
        BY <1>0, <1>1, <3>1, <4>1, <4>2, <4>3, <4>4, <4>5 DEF Recalls, Holding, UserLines
    <3> QED
      BY <3>2, <3>3
  <2>7. CASE codex_write(t)
    <3>1. at[t] = "codex_write" /\ at'[t] = "codex_add" /\ inst' = inst
      BY <1>5, <2>7 DEF codex_write, Write, Runs
    <3> QED
      BY <1>4, <3>1 DEF RestorePc, PlanPc
  <2>8. CASE codex_add(t)
    <3>1. at[t] = "codex_add" /\ at'[t] \in {"codex_post", "codex_restore"} /\ inst' = inst
      BY <1>5, <1>6, <2>8 DEF codex_add, Runs
    <3> QED
      BY <1>4, <3>1 DEF RestorePc, PlanPc
  <2>9. CASE CodexProgramFails(t)
    <3>1. /\ at[t] \in {"codex_market", "codex_add"} /\ at'[t] = "codex_restore"
          /\ inst' = inst
      BY <1>6, <2>9 DEF CodexProgramFails, clients
    <3> QED
      BY <1>4, <3>1 DEF RestorePc, PlanPc
  <2>10. CASE codex_post(t)
    <3>1. /\ at[t] = "codex_post" /\ at'[t] \in {"codex_migrate", "codex_restore"}
          /\ inst'[t].snapshot = inst[t].snapshot
      BY <1>3, <1>5, <2>10 DEF codex_post, Runs
    <3> QED
      BY <1>4, <3>1 DEF RestorePc, PlanPc
  <2>11. CASE migrate_legacy_skills(t)
    <3>1. ASSUME NEW s, Set(t, [left |-> inst[t].left \ {s}, moved |-> inst[t].moved \cup {s}])
          PROVE  inst'[t].snapshot = inst[t].snapshot
      BY <1>3, <3>1
    <3>2. ASSUME inst' = inst PROVE inst'[t].snapshot = inst[t].snapshot
      BY <3>2
    <3>3. /\ at[t] = "codex_migrate"
          /\ \/ NextClient(t)
             \/ /\ at'[t] \in {"codex_migrate", "codex_unmove"}
                /\ inst'[t].snapshot = inst[t].snapshot
      BY ONLY <1>5, <1>6, <2>11, <3>1, <3>2 DEF migrate_legacy_skills, Runs
    <3> QED
      BY <1>4, <1>8, <3>3 DEF RestorePc, PlanPc
  <2>12. CASE migration_undone(t)
    <3>1. ASSUME NEW s, Set(t, [moved |-> inst[t].moved \ {s}])
          PROVE  inst'[t].snapshot = inst[t].snapshot
      BY <1>3, <3>1
    <3>2. ASSUME inst' = inst PROVE inst'[t].snapshot = inst[t].snapshot
      BY <3>2
    <3>3. /\ at[t] = "codex_unmove"
          /\ \/ NextClient(t)
             \/ /\ at'[t] \in {"codex_unmove", "codex_restore"}
                /\ inst'[t].snapshot = inst[t].snapshot
      BY ONLY <1>5, <1>6, <2>12, <3>1, <3>2 DEF migration_undone, Runs
    <3> QED
      BY <1>4, <1>8, <3>3 DEF RestorePc, PlanPc
  <2> QED
    BY <1>10, <2>1, <2>2, <2>3, <2>4, <2>5, <2>6, <2>7, <2>8, <2>9, <2>10, <2>11, <2>12
       DEF CodexStep
<1>11. CASE ClaudeStep(t)
  <2>1. CASE claude_read(t)
    BY <1>2, <1>5, <1>6, <2>1 DEF claude_read, PlanPc, RestorePc
  <2>2. CASE \/ claude_market(t) \/ claude_update(t) \/ claude_plugin(t)
             \/ claude_mcp_remove(t) \/ claude_mcp_add(t) \/ claude_mcp_get(t)
    <3>1. at'[t] \in {"native_fails", "claude_update", "claude_plugin", "allow_plan", "mcp_add",
                      "mcp_remove"}
      BY <1>5, <1>6, <2>2 DEF claude_market, claude_update, claude_plugin, claude_mcp_remove,
         claude_mcp_add, claude_mcp_get, Program
    <3> QED
      BY <1>2, <3>1 DEF PlanPc, RestorePc
  <2>3. CASE _apply_claude_allowlist(t)
    <3>1. CASE build_allowlist_plan(config["settings"]).ok
      <4>1. PICK s : s = build_allowlist_plan(config["settings"]).content
        OBVIOUS
      <4>2. Go(t, "allow_backup") /\ Set(t, [plan |-> s])
        BY <2>3, <3>1, <4>1 DEF _apply_claude_allowlist
      <4>3. at'[t] = "allow_backup" /\ inst'[t].plan = s
        BY <1>3, <1>5, <4>2
      <4>4. Holding("settings", s, mine["settings"])
        BY <3>1, <4>1, RuleKeeps DEF Whole, File
      <4>5. \A f \in File : Plans(t, f)' => f = "settings"
        BY <4>3 DEF Plans
      <4>6. "allow_backup" \notin WritePc \cup RestorePc
        BY DEF WritePc, RestorePc
      <4> QED
        BY <1>0, <1>1, <4>3, <4>4, <4>5, <4>6 DEF Recalls, Holding, UserLines
    <3>2. CASE ~build_allowlist_plan(config["settings"]).ok
      BY <1>2, <1>5, <2>3, <3>2 DEF _apply_claude_allowlist, PlanPc, RestorePc
    <3> QED
      BY <3>1, <3>2
  <2>4. CASE allow_backup(t)
    <3>1. CASE config["settings"] = inst[t].plan
      BY <1>8, <2>4, <3>1 DEF allow_backup
    <3>2. CASE config["settings"] # inst[t].plan
      <4>1. /\ at[t] = "allow_backup" /\ inst' = inst
            /\ Backup(t, "settings", "allow_write", "client")
        BY <2>4, <3>2 DEF allow_backup, Runs
      <4>2. at'[t] = "allow_write"
        BY <1>5, <3>2, <4>1 DEF Backup
      <4>3. Backed("settings")'
        BY <1>0, <3>2, <4>1, <4>2, BackupIs DEF File
      <4>4. Holding("settings", inst[t].plan, mine["settings"])
        BY <4>1 DEF Recalls, Plans, File
      <4>5. \A f \in File : Plans(t, f)' => f = "settings"
        BY <4>2 DEF Plans
      <4>6. "allow_write" \notin RestorePc
        BY DEF RestorePc
      <4> QED
        BY <1>0, <1>1, <4>1, <4>2, <4>3, <4>4, <4>5, <4>6 DEF Recalls, Holding, UserLines
    <3> QED
      BY <3>1, <3>2
  <2>5. CASE allow_write(t)
    BY <1>8, <2>5 DEF allow_write
  <2> QED
    BY <1>11, <2>1, <2>2, <2>3, <2>4, <2>5 DEF ClaudeStep
<1> QED
  BY <1>9, <1>10, <1>11 DEF InstallStep

\* What is not an installer writes to no file, and hands on the version that
\* runs.
LEMMA StepAside ==
  ASSUME MachineInv, JobInv, Registered, NEW t \in Terminal, Step(t) \/ Killed(t),
         ~InstallStep(t)
  PROVE  /\ UNCHANGED <<config, bak, saved, mine>>
         /\ world.tool # None => world'.tool # None
         /\ at'[t] \in InstallPc => /\ at[t] = "update_clients" /\ at'[t] = "client"
                                  /\ inst'[t].pkg = world.tool
<1>0. Shelled /\ ConfigInv /\ WorldSound /\ DOMAIN inst = Terminal
  BY DEF MachineInv, Registered
<1>1. ASSUME UNCHANGED clients, at'[t] \notin InstallPc
      PROVE  /\ UNCHANGED <<config, bak, saved, mine>>
             /\ world.tool # None => world'.tool # None
             /\ at'[t] \in InstallPc => /\ at[t] = "update_clients" /\ at'[t] = "client"
                                  /\ inst'[t].pkg = world.tool
  BY <1>1 DEF clients
<1>2. CASE Killed(t)
  <2>1. at'[t] = "prompt"
    BY <1>0, <1>2 DEF Killed, Kill, Shelled
  <2> QED
    BY <1>2, <2>1 DEF Killed, files, InstallPc
<1>3. CASE Updating(t)
  <2>0. at'[t] \in {"client"} \cup UpdatePc \cup Out
    BY <1>0, <1>3, UpdatePaths DEF Updating
  <2>1. CASE upgrade_uv_tool(t)
    <3>1. at'[t] \in {"fresh", "update_fails"}
      BY <1>0, <2>1 DEF upgrade_uv_tool, Go, GoBadly, Shelled
    <3>2. world' = world \/ world' = [world EXCEPT !.tool = IF world.pypi > @ THEN world.pypi ELSE @]
      BY <2>1 DEF upgrade_uv_tool
    <3>3. world.tool # None => world'.tool # None
      <4>1. world.tool \in VersionOrNone /\ world.pypi \in VersionOrNone /\ "tool" \in DOMAIN world
        BY <1>0 DEF WorldSound
      <4>2. VersionOrNone \subseteq Nat
        BY ShippedAssumption DEF VersionOrNone, Version, None
      <4> QED
        BY <3>2, <4>1, <4>2 DEF None
    <3> QED
      BY <2>1, <3>1, <3>3 DEF upgrade_uv_tool, InstallPc
  <2>2. CASE _refresh_update_artifacts(t)
    <3>1. UNCHANGED <<config, bak, saved, mine>> /\ world' = world
      BY <2>2 DEF _refresh_update_artifacts, files
    <3>2. CASE _has_detected_clients
      <4>1. PICK targets : inst' = [inst EXCEPT ![t] =
               [NoInstall EXCEPT !.targets = targets, !.all = TRUE, !.pkg = world.tool]]
        BY <2>2, <3>2 DEF _refresh_update_artifacts
      <4>2. "pkg" \in DOMAIN NoInstall
        BY DEF NoInstall
      <4>3. inst'[t].pkg = world.tool
        BY <1>0, <4>1, <4>2
      <4>4. at[t] = "update_clients" /\ at'[t] = "client"
        BY <1>0, <2>2, <3>2 DEF _refresh_update_artifacts, Calls, Runs, Shelled
      <4> QED
        BY <3>1, <4>3, <4>4
    <3>3. CASE ~_has_detected_clients
      <4>1. at'[t] = "update_done"
        BY <1>0, <2>2, <3>3 DEF _refresh_update_artifacts, Go, Shelled
      <4> QED
        BY <3>1, <4>1 DEF InstallPc
    <3> QED
      BY <3>2, <3>3
  <2>3. CASE ~upgrade_uv_tool(t) /\ ~_refresh_update_artifacts(t)
    <3>1. UNCHANGED clients
      BY <1>3, <2>3 DEF Updating, UpdateStep, update, check_latest,
         run_fresh_artifact_refresh, download_compose, _update_lock, sync_compose_file,
         compose_again, compose_replace, compose_create, _write_state, compose_error, NoResult,
     compose_unlock,
         update_after, update_done, update_fails, update_advises, UpdateEnds
    <3>2. at'[t] # "client"
      <4>1. Fit(t)
        BY DEF JobInv
      <4>2. at[t] = "update_after" => caller[t] = "shell"
        BY <4>1, PcSets DEF Fit
      <4> QED
        BY <1>0, <1>3, <2>3 DEF Updating, UpdateStep, update, Updates, check_latest,
         run_fresh_artifact_refresh, download_compose, _update_lock, sync_compose_file,
         compose_again, compose_replace, compose_create, _write_state, compose_error, NoResult,
     compose_unlock,
         update_after, update_done, update_fails, update_advises, UpdateEnds, Go, GoBadly, Ends, Shelled, Preserve
    <3> QED
      BY <1>1, <2>0, <3>1, <3>2, PcSets DEF InstallPc, UpdatePc, Out
  <2> QED
    BY <2>1, <2>2, <2>3
<1>4. CASE Serving(t)
  <2>1. UNCHANGED clients
    BY <1>4 DEF Serving, ServiceStep, start_services, stop_services, Composes, check,
       check_probe, check_graph, check_providers
  <2>2. at'[t] \notin InstallPc
    BY <1>0, <1>4, ServicePaths DEF Serving, Out, InstallPc
  <2> QED
    BY <1>1, <2>1, <2>2
<1>5. CASE Configuring(t)
  <2>1. at'[t] \in ConfigPc \cup Out /\ UNCHANGED clients
    BY <1>0, <1>5, ConfigPaths DEF Configuring
  <2> QED
    BY <1>1, <2>1 DEF ConfigPc, Out, InstallPc
<1>6. CASE Reporting(t)
  <2>1. at'[t] \notin InstallPc /\ UNCHANGED clients
    BY <1>0, <1>6, ReportPaths DEF Reporting, Out, InstallPc
  <2> QED
    BY <1>1, <2>1
<1>7. CASE Launching(t)
  <2>1. CASE launched_update(t)
    BY <1>0, <1>1, <1>7, <2>1 DEF Launching, launched_update, Updates, Runs, Go, Shelled, InstallPc
  <2>2. CASE LauncherStep(t)
    <3>1. at'[t] \notin InstallPc
      BY <1>0, <2>2, LauncherPaths DEF Out, InstallPc
    <3> QED
      BY <1>1, <1>7, <3>1 DEF Launching
  <2> QED
    BY <1>7, <2>1, <2>2 DEF Launching
<1> QED
  BY <1>2, <1>3, <1>4, <1>5, <1>6, <1>7 DEF Step, Installing

\* A terminal that installs nothing takes no step of an installer.
LEMMA BystanderSteps ==
  ASSUME Shelled, Queues, JobInv, NEW t \in Terminal, Walks(t), Bystander(case, t)
  PROVE  ~InstallStep(t) /\ ~UpdateStep(t)
<1> SUFFICES ASSUME InstallStep(t) \/ UpdateStep(t) PROVE FALSE
  OBVIOUS
<1>1. \/ at[t] \in InstallPc \cup UpdatePc
      \/ at[t] = "prompt" /\ Job(t).run \in Installers \cup Updaters
  BY InstallFrom, UpdateFrom DEF Installers, Updaters
<1>2. Fit(t)
  BY DEF JobInv
<1>3. Job(t).run \in Installers \cup Updaters
  BY <1>1, <1>2 DEF Fit
<1>4. todo[t] # << >>
  BY DEF Walks, Queues, Queued
<1> QED
  BY <1>3, <1>4, JobTyped DEF Bystander

\* What another terminal has in hand stays what it is.
LEMMA RecallsStill ==
  ASSUME Whole, NEW t \in Terminal, BacksUp(t), mine' = mine,
         NEW u \in Terminal, at'[u] = at[u], inst'[u] = inst[u], Recalls(u)
  PROVE  Recalls(u)'
<1>1. \A f \in File : Plans(u, f)' <=> Plans(u, f)
  BY DEF Plans, Client
<1>2. ASSUME NEW f \in File, Backed(f) PROVE Backed(f)'
  <2>1. bak'[f] = bak[f] \/ bak'[f] = config[f]
    BY DEF BacksUp, Whole
  <2>2. UserLines(f, config[f]) = mine[f]
    BY DEF Whole, Holding
  <2> QED
    BY <1>2, <2>1, <2>2 DEF Backed, UserLines
<1> QED
  BY <1>1, <1>2 DEF Recalls, Holding, UserLines

\* There is one command to run, and it is over.
LEMMA LastOfTorn ==
  ASSUME OneTear, Shelled, Queues, JobInv, NEW t \in Terminal, Walks(t),
         "torn" \in case.trouble, InstallStep(t) \/ at[t] \in InstallPc, at'[t] = "prompt"
  PROVE  todo'[t] = << >> /\ \A u \in Terminal \ {t} : Bystander(case, u)
<1>0. at[t] # "prompt" \/ todo[t] # << >>
  BY DEF Walks
<1>1. todo[t] # << >> /\ todo'[t] = Tail(todo[t])
  BY <1>0 DEF Walks, Queues, Queued
<1>2. PICK w \in Terminal : /\ Len(case.todo[w]) <= 1
                            /\ \A u \in Terminal \ {w} : Bystander(case, u)
  BY DEF OneTear, Shelled
<1>3. w = t
  <2>1. CASE InstallStep(t)
    BY <1>2, <2>1, BystanderSteps
  <2>2. CASE at[t] \in InstallPc
    <3>1. Job(t).run \in Installers \cup Updaters
      BY <2>2 DEF JobInv, Fit
    <3>2. ~Bystander(case, t)
      BY <1>1, <3>1, JobTyped DEF Bystander
    <3> QED
      BY <1>2, <3>2
  <2> QED
    BY <2>1, <2>2
<1>4. /\ Len(todo[t]) \in 1..Len(case.todo[t]) /\ Len(Tail(todo[t])) = Len(todo[t]) - 1
      /\ Len(case.todo[t]) \in Nat
  BY <1>1, JobAt
<1>5. Len(Tail(todo[t])) = 0
  <2>1. \A l \in Nat : \A k \in 1..l : l <= 1 => k - 1 = 0
    OBVIOUS
  <2>2. Len(todo[t]) - 1 = 0
    BY ONLY <1>2, <1>3, <1>4, <2>1
  <2> QED
    BY <1>4, <2>2
<1>6. PICK n \in 0..Len(case.todo[t]) :
        todo[t] = SubSeq(case.todo[t], n + 1, Len(case.todo[t]))
  BY DEF Queues, Queued
<1>7. PICK S : todo[t] \in Seq(S)
  <2>1. todo[t] \in Seq({case.todo[t][i] : i \in DOMAIN case.todo[t]})
    BY <1>6, JobsListed
  <2> QED
    BY <2>1
<1>8. \A s \in Seq(S) : Len(s) = 0 => s = << >>
  OBVIOUS
<1>9. Tail(todo[t]) \in Seq(S)
  BY <1>1, <1>7
<1>10. Tail(todo[t]) = << >>
  BY ONLY <1>5, <1>8, <1>9
<1> QED
  BY <1>1, <1>2, <1>3, <1>10

\* The machine goes down in a write: what was there is in the backup.
LEMMA TornRuins ==
  ASSUME OneTear, MachineInv, Queues, JobInv, Whole, NEW t \in Terminal, Recalls(t),
         TornWrite(t), Walks(t)
  PROVE  Ruined'
<1>0. /\ Shelled /\ case' = case /\ mine' = mine /\ bak' = bak /\ saved' = saved
      /\ "torn" \in case.trouble /\ case \in Cases
      /\ at[t] \in WritePc
      /\ at'[t] = "prompt" /\ todo'[t] = Tail(todo[t])
      /\ \A u \in Terminal \ {t} : at'[u] = at[u] /\ todo'[u] = todo[u]
  BY DEF MachineInv, TornWrite, May, Shelled, WritePc, Walks
<1>1. PICK f : config' = [config EXCEPT ![f] = << >>] /\ (f \in File => Plans(t, f))
  <2> DEFINE f == IF at[t] = "plain_write" THEN Client(t)
                  ELSE IF at[t] = "allow_write" THEN "settings" ELSE "codex"
  <2>1. config' = [config EXCEPT ![f] = << >>]
    BY DEF TornWrite
  <2>2. Plans(t, f)
    BY <1>0 DEF Plans, WritePc
  <2> QED
    BY <2>1, <2>2
<1>2. ASSUME NEW g \in File
      PROVE  \E c \in {config'[g], bak'[g]} \cup (IF g = "codex" THEN saved' ELSE {}) :
               UserLines(g, c) = mine'[g]
  <2>1. CASE g = f
    <3>1. mine[g] = << >> \/ UserLines(g, bak[g]) = mine[g]
      BY <1>0, <1>1, <2>1 DEF Recalls, Backed
    <3>2. config'[g] = << >>
      BY <1>1, <2>1 DEF Whole
    <3> QED
      BY <1>0, <3>1, <3>2, NothingKept
  <2>2. CASE g # f
    <3>1. config'[g] = config[g] /\ UserLines(g, config[g]) = mine[g]
      BY <1>1, <2>2 DEF Whole, Holding
    <3> QED
      BY <1>0, <3>1
  <2> QED
    BY <2>1, <2>2
<1>3. ConfigIsRecoverable'
  BY <1>2 DEF ConfigIsRecoverable, UserLines
<1>4. todo'[t] = << >> /\ \A u \in Terminal \ {t} : Bystander(case, u)
  <2>1. InstallStep(t)
    BY DEF InstallStep, PlainStep
  <2> QED
    BY <1>0, <2>1, LastOfTorn
<1>7. \A u \in Terminal :
        Bystander(case', u) \/ (at'[u] = "prompt" /\ todo'[u] = << >>)
  BY <1>0, <1>4 DEF Bystander
<1>8. "edit" \notin case.trouble
  BY <1>0 DEF OneTear
<1> QED
  BY <1>0, <1>3, <1>7, <1>8 DEF Ruined, NobodyWrites, Bystander

\* Nobody writes, and nobody goes a step.
LEMMA KeptStill ==
  ASSUME KeptInv, UNCHANGED <<config, bak, saved, mine, inst, case, at, todo>>,
         world'.tool = world.tool
  PROVE  KeptInv'
<1>1. Registered'
  BY DEF KeptInv, Registered
<1>2. CASE Ruined
  BY <1>1, <1>2 DEF KeptInv, Ruined, NobodyWrites, ConfigIsRecoverable, UserLines, Bystander
<1>3. CASE Whole /\ \A t \in Terminal : Recalls(t)
  <2>1. Whole'
    BY <1>3 DEF Whole, Holding, UserLines
  <2>2. \A t \in Terminal : Recalls(t)'
    BY <1>3, RecallsStill DEF BacksUp
  <2> QED
    BY <1>1, <2>1, <2>2 DEF KeptInv
<1> QED
  BY <1>2, <1>3 DEF KeptInv

\* A user edits what no installer is busy with.
LEMMA EditKeeps ==
  ASSUME KeptInv, NEW f \in File, Edit(f)
  PROVE  KeptInv'
<1>0. /\ config' = [config EXCEPT ![f] = <<"note">> \o Text(config[f])]
      /\ mine' = [mine EXCEPT ![f] = <<"note">> \o mine[f]]
      /\ bak' = bak /\ world' = world /\ inst' = inst /\ at' = at
      /\ "edit" \in case.trouble /\ Typing
  BY DEF Edit, Happens, May
<1>1. Registered' /\ Registered
  BY <1>0 DEF KeptInv, Registered
<1>2. Whole /\ \A t \in Terminal : Recalls(t)
  BY <1>0 DEF KeptInv, Ruined, NobodyWrites
<1>3. ASSUME NEW t \in Terminal PROVE Recalls(t)'
  <2>1. inst[t].pkg = None
    BY <1>0 DEF Typing, NoInstall
  <2>2. at'[t] \notin InstallPc
    BY <1>0, <1>2, <2>1 DEF Recalls
  <2>3. PlanPc \cup RestorePc \subseteq InstallPc
    BY DEF PlanPc, RestorePc, InstallPc
  <2> QED
    BY <2>2, <2>3, NothingPlanned
<1>4. Whole'
  <2>1. PICK new : new = <<"note">> \o Text(config[f])
    OBVIOUS
  <2>2. PICK text : text = <<"note">> \o mine[f]
    OBVIOUS
  <2>3. Holding(f, new, text)
    BY <1>2, <2>1, <2>2, NoteKeeps DEF Whole
  <2>4. ASSUME NEW g \in File PROVE Holding(g, config'[g], mine'[g])
    <3>1. CASE g = f
      <4>1. config'[g] = new /\ mine'[g] = text
        BY <1>0, <1>2, <2>1, <2>2, <3>1 DEF Whole
      <4> QED
        BY <2>3, <3>1, <4>1
    <3>2. CASE g # f
      <4>1. config'[g] = config[g] /\ mine'[g] = mine[g]
        BY <1>0, <3>2
      <4> QED
        BY <1>2, <4>1 DEF Whole
    <3> QED
      BY <3>1, <3>2
  <2>5. \A g \in File : Holding(g, config[g], mine[g])'
    BY <2>4 DEF Holding, UserLines
  <2> QED
    BY <1>0, <1>2, <2>5 DEF Whole
<1> QED
  BY <1>1, <1>3, <1>4 DEF KeptInv

LEMMA KeptSteps ==
  ASSUME OneTear, MachineInv, Queues, JobInv, KeptInv, [Next]_machine
  PROVE  KeptInv'
<1>0. Shelled /\ WorldSound
  BY DEF MachineInv
<1>1. CASE UNCHANGED machine \/ (Others /\ ~People)
  <2>1. UNCHANGED clients /\ case' = case /\ at' = at /\ todo' = todo
    BY <1>1 DEF machine, shell, Others, EditCompose, Crowd, EditHome, Happens
  <2> QED
    BY <2>1, KeptStill DEF clients
<1>2. CASE Others /\ People
  <2>1. CASE \E f \in File : Edit(f)
    BY <2>1, EditKeeps
  <2>2. CASE ~\E f \in File : Edit(f)
    <3>1. /\ UNCHANGED <<config, bak, saved, mine, inst, case, at, todo>>
          /\ world'.tool = world.tool
      BY <1>0, <1>2, <2>2 DEF People, EditSkill, Merge, Release, Happens, files, WorldSound
    <3> QED
      BY <3>1, KeptStill
  <2> QED
    BY <2>1, <2>2
<1>3. ASSUME NEW t \in Terminal, Step(t) \/ Killed(t)
      PROVE  KeptInv'
  <2>0. Registered /\ Walks(t)
    BY <1>3, StepWalks DEF KeptInv
  <2>1. Registered' /\ \A u \in Terminal \ {t} : inst'[u] = inst[u]
    BY <1>3, <2>0, StepLoads
  <2>2. CASE Ruined
    <3>1. Bystander(case, t)
      BY <2>0, <2>2 DEF Ruined, NobodyWrites, Walks
    <3>2. ~InstallStep(t)
      BY <1>0, <2>0, <3>1, BystanderSteps
    <3>3. UNCHANGED <<config, bak, saved, mine>>
      BY <1>3, <2>0, <3>2, StepAside
    <3>4. ConfigIsRecoverable'
      BY <2>2, <3>3 DEF Ruined, ConfigIsRecoverable, UserLines
    <3>5. ASSUME NEW u \in Terminal
          PROVE  Bystander(case, u)' \/ (at'[u] = "prompt" /\ todo'[u] = << >>)
      BY <2>0, <2>2, <3>1 DEF Ruined, NobodyWrites, Walks, Bystander
    <3> QED
      BY <2>0, <2>1, <2>2, <3>4, <3>5 DEF KeptInv, Ruined, NobodyWrites, Walks
  <2>3. CASE Whole /\ \A u \in Terminal : Recalls(u)
    <3>1. CASE TornWrite(t)
      BY <2>0, <2>1, <2>3, <3>1, TornRuins DEF KeptInv
    <3>2. CASE ~TornWrite(t)
      <4>1. Whole' /\ Recalls(t)' /\ mine' = mine /\ BacksUp(t)
        <5>1. CASE InstallStep(t)
          <6>1. /\ DOMAIN config' = File /\ \A g \in File : Holding(g, config'[g], mine[g])
                /\ world' = world /\ mine' = mine /\ BacksUp(t) /\ Recalls(t)'
            BY <1>0, <2>0, <2>3, <3>2, <5>1, InstallKeeps, InstallSame, InstallBacksUp,
               InstallRecalls
          <6>2. DOMAIN bak' = File
            BY <2>3, <6>1 DEF BacksUp, Whole
          <6> QED
            BY <2>3, <6>1, <6>2 DEF Whole, Holding, UserLines
        <5>2. CASE ~InstallStep(t)
          <6>1. /\ UNCHANGED <<config, bak, saved, mine>>
                /\ world.tool # None => world'.tool # None
                /\ at'[t] \in InstallPc => at'[t] = "client" /\ inst'[t].pkg = world.tool
            BY <1>3, <2>0, <5>2, StepAside
          <6>2. Whole'
            BY <2>3, <6>1 DEF Whole, Holding, UserLines
          <6>3. at'[t] \notin PlanPc \cup RestorePc
            <7>1. PlanPc \cup RestorePc \subseteq InstallPc \ {"client"}
              BY DEF PlanPc, RestorePc, InstallPc
            <7> QED
              BY <6>1, <7>1
          <6>4. Recalls(t)'
            BY <2>3, <6>1, <6>3, NothingPlanned DEF Whole
          <6> QED
            BY <6>1, <6>2, <6>4 DEF BacksUp
        <5> QED
          BY <5>1, <5>2
      <4>2. ASSUME NEW u \in Terminal \ {t} PROVE Recalls(u)'
        <5>1. at'[u] = at[u] /\ inst'[u] = inst[u]
          BY <2>0, <2>1 DEF Walks
        <5> QED
          BY <2>3, <4>1, <5>1, RecallsStill
      <4> QED
        BY <2>1, <4>1, <4>2 DEF KeptInv
    <3> QED
      BY <3>1, <3>2
  <2> QED
    BY <2>2, <2>3 DEF KeptInv
<1> QED
  BY <1>1, <1>2, <1>3 DEF Next, Idle

LEMMA KeptStart ==
  ASSUME Init
  PROVE  KeptInv
<1>1. /\ case \in Cases /\ at = [t \in Terminal |-> "prompt"]
      /\ inst = [t \in Terminal |-> NoInstall] /\ config = case.config
      /\ world = case.world /\ bak = [f \in File |-> Nothing]
      /\ mine = [f \in File |-> UserLines(f, case.config[f])]
  BY DEF Init, ShellInit, InstallInit
<1>2. Registered
  BY <1>1 DEF Registered, NoInstall, InstallRegister
<1>3. Whole
  <2>1. /\ DOMAIN config = File /\ \A f \in File : config[f] = Nothing \/ config[f] \in Seq(Line)
        /\ WellNamed(config["codex"]) /\ world.tool \in Version
    BY <1>1, MachinesAssumption
  <2>2. \A f \in File : Lined(config[f])
    BY <2>1, NothingLined, SeqLined
  <2>3. world.tool # None
    BY <2>1, ShippedAssumption DEF Version, None
  <2> QED
    BY <1>1, <2>1, <2>2, <2>3 DEF Whole, Holding
<1>4. \A t \in Terminal : Recalls(t)
  BY <1>1 DEF Recalls, Plans, InstallPc, RestorePc
<1> QED
  BY <1>2, <1>3, <1>4 DEF KeptInv

LEMMA KeptShown == KeptInv => ConfigIsRecoverable
<1> SUFFICES ASSUME KeptInv, ~Ruined PROVE ConfigIsRecoverable
  BY DEF Ruined
<1>1. \A f \in File : UserLines(f, config[f]) = mine[f]
  BY DEF KeptInv, Whole, Holding
<1> QED
  BY <1>1 DEF ConfigIsRecoverable

-----------------------------------------------------------------------------
\* What the user wrote in the configuration file of a client is to be had from
\* the file, its .bak or the backup that was made for Codex, at every moment,
\* whoever installs at the same time, fails, puts back or is killed.
THEOREM UserTextKept == OneTear => (Spec => []ConfigIsRecoverable)
<1> SUFFICES ASSUME OneTear PROVE Spec => []ConfigIsRecoverable
  OBVIOUS
<1> DEFINE Inv == MachineInv /\ AdviceInv /\ JobInv /\ KeptInv
<1>1. Init => Inv
  BY MachineStart, AdviceStart, JobStart, KeptStart
<1>2. Inv /\ [Next]_machine => Inv'
  <2> SUFFICES ASSUME Inv, [Next]_machine PROVE Inv'
    OBVIOUS
  <2>1. Queues
    BY DEF AdviceInv
  <2> QED
    BY <2>1, MachineSteps, AdviceSteps, JobSteps, KeptSteps
<1>3. Inv => ConfigIsRecoverable
  BY KeptShown
<1> QED
  BY <1>1, <1>2, <1>3, PTL DEF Spec

-----------------------------------------------------------------------------
(* The skills that Codex had.                                              *)

\* A trouble that was stays.
Spends == spent' = spent \/ \E kind : spent' = Append(spent, kind)

LEMMA StepSpends ==
  ASSUME NEW t \in Terminal, Step(t) \/ Killed(t)
  PROVE  Spends
<1>1. \A p : Go(t, p) => Spends
  BY DEF Go, Spends
<1>2. \A kind, p : GoBadly(t, kind, p) => Spends
  BY DEF GoBadly, Spend, Spends
<1>3. \A how : Ends(t, how) => Spends
  BY DEF Ends, Spends
<1>4. \A how : Finish(t, how) => Spends
  BY <1>3 DEF Finish
<1>5. NextClient(t) => Spends
  BY <1>1 DEF NextClient
<1>6. CASE PlainStep(t)
  BY <1>1, <1>2, <1>4, <1>5, <1>6 DEF PlainStep, install, install_skills, install_client,
     native_fails, give_up, plain_plan, plain_backup, Backup, plain_write, Write, TornWrite,
     Spend, Spends, _ensure_skills, extract_skills, ExtractFails, stamp_skills_dir
<1>7. CASE CodexStep(t)
  BY <1>1, <1>2, <1>5, <1>7 DEF CodexStep, codex_read, _snapshot_config, codex_market,
     codex_verify, codex_mcp, codex_backup, Backup, codex_write, Write, codex_add, codex_post,
     migrate_legacy_skills, migration_undone, _restore_configs, CodexProgramFails,
     CodexProgramLacks
<1>8. CASE ClaudeStep(t)
  BY <1>1, <1>2, <1>5, <1>8 DEF ClaudeStep, claude_read, claude_market, claude_update,
     claude_plugin, claude_mcp_get, claude_mcp_remove, claude_mcp_add, Program,
     _apply_claude_allowlist, allow_backup, Backup, allow_write, Write
<1>9. CASE UpdateStep(t)
  BY <1>1, <1>2, <1>3, <1>9 DEF UpdateStep, update, Updates, check_latest, upgrade_uv_tool,
     run_fresh_artifact_refresh, download_compose, _update_lock, sync_compose_file, Preserve,
     compose_again, compose_replace, compose_create, _write_state, compose_error, NoResult,
     compose_unlock,
     _refresh_update_artifacts, Calls, update_after, update_done, update_fails, update_advises, UpdateEnds,
     Spends
<1>10. CASE ServiceStep(t)
  BY <1>1, <1>2, <1>3, <1>10 DEF ServiceStep, start_services, stop_services, Composes, check,
     check_probe, check_graph, check_providers
<1>11. CASE ConfigStep(t)
  BY <1>1, <1>2, <1>3, <1>11 DEF ConfigStep, Leave, Fails, Done, Pends, Resolves, resolve_look,
     resolve_read, publish_repository_block, _publish_new_config, _read_locked_destination,
     _replace_destination, _append_repository_candidate, init, plan_repository_config,
     config_show, config_shown, config_migrate, migrate_repo_config, _read_destination_mapping,
     _existing_migration_result, migrate_publish, migrate_branches, migrate_repo_branches
<1>12. CASE ReportStep(t)
  BY <1>1, <1>2, <1>3, <1>12 DEF ReportStep, config_report, merge_base, merge_committed,
     merge_home, Merges, config_reported
<1>13. CASE LauncherStep(t) \/ launched_update(t)
  BY <1>1, <1>2, <1>3, <1>13 DEF LauncherStep, launcher, set_query, move, open_selected,
     set_value, open_preview, _start_update_check, _finish_update_check, back, confirm, cancel,
     launched, Press, On, shell, Leaves, Active, launched_update, Updates, Spends
<1>14. CASE Killed(t)
  BY <1>14 DEF Killed, Kill, Spend, Spends
<1> QED
  BY <1>6, <1>7, <1>8, <1>9, <1>10, <1>11, <1>12, <1>13, <1>14
     DEF Step, Installing, InstallStep, Updating, Serving, Configuring, Reporting, Launching

\* A skill of an earlier installer is in the backup.
Moved == \E s \in Skill : codex.legacy[s] = "backup"

\* The machine had the plugin when all began.
HadPlugin == Chosen(case.config["codex"])

\* The way back has failed on a machine that had none.
Exempt == "move_back" \in ToSet(spent) /\ ~HadPlugin

RootPc == {"codex_verify", "codex_mcp", "codex_backup", "codex_write", "codex_add"}
MovePc == {"codex_migrate", "codex_unmove"}

\* The plugin that was chosen stays so, and what was moved is in it.
FileSafe ==
  /\ HadPlugin => Chosen(config["codex"])
  /\ Moved => codex.cache # None /\ (Chosen(config["codex"]) \/ Exempt)

\* What an installer has in hand will not change that.
Skilled(t) ==
  /\ at[t] \in RestorePc /\ HadPlugin => Chosen(inst[t].snapshot)
  /\ at[t] \in RestorePc \ MovePc /\ Moved => Chosen(inst[t].snapshot) \/ Exempt
  /\ at[t] \in RootPc => codex.root # None
  /\ at[t] \in MovePc => Plugin(config["codex"]) # None
  /\ Plans(t, "codex") /\ Chosen(config["codex"]) => Chosen(inst[t].plan)

LEMMA ExemptStays ==
  ASSUME Lined(spent), Spends, case' = case
  PROVE  Lined(spent)' /\ HadPlugin' = HadPlugin /\ (Exempt => Exempt')
<1>1. HadPlugin' = HadPlugin
  BY DEF HadPlugin
<1>2. CASE spent' = spent
  BY <1>1, <1>2 DEF Exempt, Lined
<1>3. ASSUME NEW kind, spent' = Append(spent, kind)
      PROVE  Lined(spent') /\ ToSet(spent) \subseteq ToSet(spent')
  BY <1>3, AppendLined
<1> QED
  BY <1>1, <1>2, <1>3 DEF Spends, Exempt, Lined

LEMMA PluginStays ==
  ASSUME Shelled, WorldSound, Registered, EntryKnown, Whole, Lined(spent), Spends,
         NEW t \in Terminal, Walks(t), Local(t), Recalls(t), FileSafe, Skilled(t),
         InstallStep(t), ~TornWrite(t)
  PROVE  FileSafe' /\ Skilled(t)'
<1>0. /\ DOMAIN inst = Terminal /\ DOMAIN inst[t] = InstallRegister
      /\ DOMAIN at = Terminal /\ DOMAIN config = File /\ "codex" \in File
      /\ {"plan", "snapshot", "targets", "expected"} \subseteq InstallRegister
      /\ DOMAIN codex = {"root", "cache", "legacy"}
      /\ case' = case
  BY DEF Registered, InstallRegister, Shelled, Whole, File, EntryKnown, Walks
<1>1. (Exempt => Exempt') /\ HadPlugin' = HadPlugin
  BY <1>0, ExemptStays
<1>2. ASSUME NEW r, Set(t, r)
      PROVE  /\ "plan" \in DOMAIN r => inst'[t].plan = r["plan"]
             /\ "plan" \notin DOMAIN r => inst'[t].plan = inst[t].plan
             /\ "snapshot" \in DOMAIN r => inst'[t].snapshot = r["snapshot"]
             /\ "snapshot" \notin DOMAIN r => inst'[t].snapshot = inst[t].snapshot
             /\ "targets" \notin DOMAIN r => inst'[t].targets = inst[t].targets
  BY <1>0, <1>2 DEF Set, Over
<1>3. ASSUME NEW p, Go(t, p) PROVE at'[t] = p
  BY <1>0, <1>3 DEF Go
<1>4. ASSUME NEW p, NEW kind, GoBadly(t, kind, p) PROVE at'[t] = p
  BY <1>0, <1>4 DEF GoBadly
<1>5. ASSUME at'[t] \notin PlanPc \cup RestorePc PROVE Skilled(t)'
  BY <1>5 DEF Skilled, Plans, PlanPc, RestorePc, RootPc, MovePc
<1>6. ASSUME NEW how, Finish(t, how) PROVE Skilled(t)'
  <2>1. at'[t] \in {"prompt", "update_after"}
    BY <1>6 DEF Finish, Ends, Shelled
  <2> QED
    BY <1>5, <2>1 DEF PlanPc, RestorePc
<1>7. ASSUME NextClient(t) PROVE Skilled(t)'
  BY <1>3, <1>5, <1>7 DEF NextClient, PlanPc, RestorePc
\* Neither the file nor the program changes.
<1>8. ASSUME config'["codex"] = config["codex"], codex' = codex PROVE FileSafe'
  BY <1>1, <1>8 DEF FileSafe, Moved
\* The file changes.
<1>9. ASSUME NEW s, config' = [config EXCEPT !["codex"] = s], codex' = codex,
             HadPlugin => Chosen(s), Moved => Chosen(s) \/ Exempt
      PROVE  FileSafe'
  <2>1. config'["codex"] = s
    BY <1>0, <1>9
  <2> QED
    BY <1>1, <1>9, <2>1 DEF FileSafe, Moved
\* What was there would still be put back.
<1>10. ASSUME at[t] \in RestorePc \ MovePc, at'[t] \in RestorePc \ (MovePc \cup PlanPc),
              inst'[t].snapshot = inst[t].snapshot, codex'.legacy = codex.legacy,
              at'[t] \in RootPc => codex'.root # None
       PROVE  Skilled(t)'
  <2>1. Moved' => Moved
    BY <1>10 DEF Moved
  <2>2. ~Plans(t, "codex")'
    BY <1>10 DEF Plans, PlanPc
  <2> QED
    BY <1>1, <1>10, <2>1, <2>2 DEF Skilled
<1>11. CASE PlainStep(t)
  <2>0. codex' = codex
    BY <1>11 DEF PlainStep, install, install_skills, install_client, native_fails, give_up,
       plain_plan, plain_backup, plain_write, TornWrite, _ensure_skills, extract_skills,
       ExtractFails, stamp_skills_dir, homes
  <2>1. CASE plain_plan(t)
    <3>1. config' = config /\ FileSafe'
      BY <1>8, <2>0, <2>1 DEF plain_plan, files
    <3>2. CASE build_plan(Client(t), config[Client(t)]).ok
      <4>1. PICK s : s = build_plan(Client(t), config[Client(t)]).content
        OBVIOUS
      <4>2. Go(t, "plain_backup") /\ Set(t, [plan |-> s])
        BY <2>1, <3>2, <4>1 DEF plain_plan
      <4>3. at'[t] = "plain_backup" /\ inst'[t].plan = s /\ inst'[t].targets = inst[t].targets
        BY <1>2, <1>3, <4>2
      <4>4. Client(t)' = Client(t)
        BY <4>3 DEF Client
      <4>5. Client(t) = "codex" => (Chosen(s) <=> Chosen(config["codex"]))
        BY <1>0, <3>2, <4>1, PlanKeeps DEF Whole
      <4>6. Plans(t, "codex")' /\ Chosen(config["codex"])' => Chosen(inst[t].plan)'
        BY <3>1, <4>3, <4>4, <4>5 DEF Plans, Chosen
      <4>7. "plain_backup" \notin RestorePc \cup RootPc \cup MovePc
        BY DEF RestorePc, RootPc, MovePc
      <4> QED
        BY <3>1, <4>3, <4>6, <4>7 DEF Skilled
    <3>3. CASE ~build_plan(Client(t), config[Client(t)]).ok
      BY <1>6, <2>1, <3>1, <3>3 DEF plain_plan
    <3> QED
      BY <3>2, <3>3
  <2>2. CASE plain_backup(t)
    <3>1. /\ at[t] = "plain_backup" /\ Backup(t, Client(t), "plain_write", "skills")
          /\ inst' = inst /\ config' = config /\ FileSafe'
      BY <1>8, <2>0, <2>2 DEF plain_backup, Runs
    <3>2. at'[t] \in {"plain_write", "skills"}
      BY <1>3, <3>1 DEF Backup
    <3>3. Plans(t, "codex")' => Plans(t, "codex")
      BY <3>1, <3>2 DEF Plans, Client
    <3>4. {"plain_write", "skills"} \cap (RestorePc \cup RootPc \cup MovePc) = {}
      BY DEF RestorePc, RootPc, MovePc
    <3> QED
      BY <3>1, <3>2, <3>3, <3>4 DEF Skilled, Chosen
  <2>3. CASE plain_write(t)
    <3>1. /\ at[t] = "plain_write" /\ at'[t] = "skills"
          /\ config' = [config EXCEPT ![Client(t)] = inst[t].plan]
      BY <1>3, <2>3 DEF plain_write, Write, Runs
    <3>2. Skilled(t)'
      BY <1>5, <3>1 DEF PlanPc, RestorePc
    <3>3. CASE Client(t) = "codex"
      <4>1. Chosen(config["codex"]) => Chosen(inst[t].plan)
        BY <3>1, <3>3 DEF Skilled, Plans
      <4> QED
        BY <1>9, <2>0, <3>1, <3>2, <3>3, <4>1 DEF FileSafe
    <3>4. CASE Client(t) # "codex"
      BY <1>0, <1>8, <2>0, <3>1, <3>2, <3>4
    <3> QED
      BY <3>3, <3>4
  <2>4. CASE ~plain_plan(t) /\ ~plain_backup(t) /\ ~plain_write(t)
    <3>1. config' = config
      BY <1>11, <2>4 DEF PlainStep, install, install_skills, install_client, native_fails,
         give_up, _ensure_skills, extract_skills, ExtractFails, stamp_skills_dir, files
    <3>2. Skilled(t)' \/ at'[t] \in {"client", "extract", "stamp", "give_up", "mcp_get", "claude_read",
                    "codex_read", "skills", "plain_plan"}
      <4>1. ASSUME NextClient(t) PROVE at'[t] = "client"
        BY <1>3, <4>1 DEF NextClient
      <4> QED
      BY <1>3, <1>4, <1>6, <4>1, <1>11, <2>4 DEF PlainStep, install, install_skills, install_client, native_fails,
         give_up, _ensure_skills, extract_skills, ExtractFails, stamp_skills_dir
    <3> QED
      BY <1>5, <1>8, <2>0, <3>1, <3>2 DEF PlanPc, RestorePc
  <2> QED
    BY <2>1, <2>2, <2>3, <2>4
<1>12. CASE ClaudeStep(t)
  <2>1. codex' = codex /\ config'["codex"] = config["codex"]
    BY <1>0, <1>12 DEF ClaudeStep, claude_read, claude_market, claude_update, claude_plugin,
       claude_mcp_get, claude_mcp_remove, claude_mcp_add, _apply_claude_allowlist,
       allow_backup, allow_write, Write, homes, clients, files
  <2>2. at'[t] \notin RestorePc /\ ~Plans(t, "codex")'
    <3>1. ASSUME NextClient(t) PROVE at'[t] = "client"
      BY <1>3, <3>1 DEF NextClient
    <3>2. at'[t] \in {"client", "native_fails", "claude_read", "claude_market", "claude_update",
                      "claude_plugin", "mcp_get", "mcp_remove", "mcp_add", "allow_plan",
                      "allow_backup", "allow_write"}
      BY <1>3, <1>4, <3>1, <1>12 DEF ClaudeStep, claude_read, claude_market, claude_update,
         claude_plugin, claude_mcp_get, claude_mcp_remove, claude_mcp_add, Program,
         _apply_claude_allowlist, allow_backup, Backup, allow_write, Write
    <3> QED
      BY <3>2 DEF RestorePc, Plans
  <2>3. RootPc \cup MovePc \subseteq RestorePc
    BY DEF RestorePc, RootPc, MovePc
  <2> QED
    BY <1>8, <2>1, <2>2, <2>3 DEF Skilled
<1>13. CASE CodexStep(t)
  <2>1. CASE codex_read(t) \/ CodexProgramLacks(t)
    <3>1. config' = config /\ codex' = codex /\ at'[t] \in {"codex_snapshot", "native_fails"}
      BY <1>3, <1>4, <2>1 DEF codex_read, CodexProgramLacks, files, homes, clients
    <3> QED
      BY <1>5, <1>8, <3>1 DEF PlanPc, RestorePc
  <2>2. CASE _snapshot_config(t)
    <3>1. /\ at'[t] = "codex_market" /\ inst'[t].snapshot = config["codex"]
          /\ config' = config /\ codex' = codex
      BY <1>2, <1>3, <2>2 DEF _snapshot_config, homes
    <3>2. /\ at'[t] \in RestorePc /\ at'[t] \notin RootPc \cup MovePc
          /\ ~Plans(t, "codex")'
      BY <3>1 DEF RestorePc, RootPc, MovePc, Plans
    <3>3. FileSafe'
      BY <1>8, <3>1
    <3>4. Chosen(inst[t].snapshot)' = Chosen(config["codex"])
      BY <3>1 DEF Chosen
    <3>5. Moved' = Moved
      BY <3>1 DEF Moved
    <3> QED
      BY <1>1, <3>1, <3>2, <3>3, <3>4, <3>5 DEF Skilled, FileSafe
  <2>3. CASE codex_market(t)
    <3>1. /\ at[t] = "codex_market" /\ at'[t] \in {"codex_verify", "codex_restore"}
          /\ inst' = inst /\ codex' = [codex EXCEPT !.root = world.main]
          /\ config' = config \/ config' = [config EXCEPT !["codex"] = Append1(config["codex"], "market")]
      BY <1>3, <1>4, <2>3 DEF codex_market, Runs
    <3>2. codex'.root # None /\ codex'.cache = codex.cache /\ codex'.legacy = codex.legacy
      BY <1>0, <3>1, ShippedAssumption DEF WorldSound, Version, None
    <3>3. Chosen(config["codex"]) => Chosen(config["codex"])'
      <4>1. Holding("codex", config["codex"], mine["codex"])
        BY <1>0 DEF Whole
      <4>2. PICK s : s = Append1(config["codex"], "market")
        OBVIOUS
      <4>3. Chosen(config["codex"]) => Chosen(s)
        BY <4>1, <4>2, LineKeeps
      <4>4. config'["codex"] \in {config["codex"], s}
        BY <1>0, <3>1, <4>2
      <4> QED
        BY <4>3, <4>4 DEF Chosen
    <3>4. FileSafe'
      BY <1>1, <3>2, <3>3 DEF FileSafe, Moved
    <3> QED
      BY <1>10, <3>1, <3>2, <3>4 DEF RestorePc, MovePc, PlanPc
  <2>4. CASE codex_verify(t)
    <3>1. /\ at[t] = "codex_verify" /\ at'[t] \in {"codex_add", "codex_mcp", "codex_restore"}
          /\ inst'[t].snapshot = inst[t].snapshot /\ config' = config /\ codex' = codex
      BY <1>2, <1>3, <2>4 DEF codex_verify, Runs, files, homes
    <3>2. codex.root # None
      BY <3>1 DEF Skilled, RootPc
    <3> QED
      BY <1>8, <1>10, <3>1, <3>2 DEF RestorePc, MovePc, PlanPc
  <2>5. CASE codex_mcp(t)
    <3>0. at[t] = "codex_mcp" /\ config' = config /\ codex' = codex /\ codex.root # None
      BY <2>5 DEF codex_mcp, Runs, files, homes, Skilled, RootPc
    <3>1. CASE build_plan("codex", config["codex"]).ok
      <4>1. PICK s : s = build_plan("codex", config["codex"]).content
        OBVIOUS
      <4>2. Go(t, "codex_backup") /\ Set(t, [plan |-> s])
        BY <2>5, <3>1, <4>1 DEF codex_mcp
      <4>3. at'[t] = "codex_backup" /\ inst'[t].plan = s /\ inst'[t].snapshot = inst[t].snapshot
        BY <1>2, <1>3, <4>2
      <4>4. Chosen(s) <=> Chosen(config["codex"])
        BY <1>0, <3>1, <4>1, PlanKeeps DEF Whole
      <4>5. Chosen(config["codex"])' => Chosen(inst[t].plan)'
        BY <3>0, <4>3, <4>4 DEF Chosen
      <4>6. Moved' = Moved /\ codex'.root # None
        BY <3>0 DEF Moved
      <4>7. /\ {"codex_mcp", "codex_backup"} \subseteq RestorePc \ MovePc
        BY DEF RestorePc, MovePc
      <4>8. Chosen(inst[t].snapshot)' = Chosen(inst[t].snapshot)
        BY <4>3 DEF Chosen
      <4>9. FileSafe'
        BY <1>8, <3>0
      <4> QED
        BY <1>1, <3>0, <4>3, <4>5, <4>6, <4>7, <4>8, <4>9 DEF Skilled
    <3>2. CASE ~build_plan("codex", config["codex"]).ok
      <4>1. at'[t] = "codex_restore" /\ inst' = inst
        BY <1>3, <2>5, <3>2 DEF codex_mcp
      <4> QED
        BY <1>8, <1>10, <3>0, <4>1 DEF RestorePc, MovePc, PlanPc
    <3> QED
      BY <3>1, <3>2
  <2>6. CASE codex_backup(t)
    <3>1. /\ at[t] = "codex_backup" /\ at'[t] \in {"codex_write", "codex_add"}
          /\ inst' = inst /\ config' = config /\ codex' = codex
      BY <1>3, <2>6 DEF codex_backup, Backup, Runs, homes
    <3>2. codex.root # None
      BY <3>1 DEF Skilled, RootPc
    <3>3. CASE at'[t] = "codex_add"
      BY <1>8, <1>10, <3>1, <3>2, <3>3 DEF RestorePc, MovePc, PlanPc
    <3>4. CASE at'[t] = "codex_write"
      <4>1. Chosen(config["codex"])' => Chosen(inst[t].plan)'
        BY <3>1 DEF Skilled, Plans, Chosen
      <4>2. Moved' = Moved /\ codex'.root # None
        BY <3>1, <3>2 DEF Moved
      <4>3. /\ {"codex_write", "codex_backup"} \subseteq RestorePc \ MovePc
        BY DEF RestorePc, MovePc
      <4>4. Chosen(inst[t].snapshot)' = Chosen(inst[t].snapshot)
        BY <3>1 DEF Chosen
      <4>5. FileSafe'
        BY <1>8, <3>1
      <4> QED
        BY <1>1, <3>1, <3>4, <4>1, <4>2, <4>3, <4>4, <4>5 DEF Skilled
    <3> QED
      BY <3>1, <3>3, <3>4
  <2>7. CASE codex_write(t)
    <3>1. /\ at[t] = "codex_write" /\ at'[t] = "codex_add" /\ inst' = inst /\ codex' = codex
          /\ config' = [config EXCEPT !["codex"] = inst[t].plan] /\ codex.root # None
      BY <1>3, <2>7 DEF codex_write, Write, Runs, homes, Skilled, RootPc
    <3>2. Chosen(config["codex"]) => Chosen(inst[t].plan)
      BY <3>1 DEF Skilled, Plans
    <3>3. FileSafe'
      BY <1>9, <3>1, <3>2 DEF FileSafe
    <3> QED
      BY <1>10, <3>1, <3>3 DEF RestorePc, MovePc, PlanPc
  <2>8. CASE codex_add(t)
    <3>1. /\ at[t] = "codex_add" /\ at'[t] \in {"codex_post", "codex_restore"} /\ inst' = inst
          /\ codex' = [codex EXCEPT !.cache = codex.root] /\ codex.root # None
          /\ config' = [config EXCEPT !["codex"] = Append1(config["codex"], "plugin")]
      BY <1>3, <1>4, <2>8 DEF codex_add, Runs, Skilled, RootPc
    <3>2. codex'.cache # None /\ codex'.legacy = codex.legacy
      BY <1>0, <3>1
    <3>3. Chosen(config["codex"])'
      <4>1. Holding("codex", config["codex"], mine["codex"])
        BY <1>0 DEF Whole
      <4>2. PICK s : s = Append1(config["codex"], "plugin")
        OBVIOUS
      <4>3. Chosen(s)
        BY <4>1, <4>2, LineKeeps
      <4>4. config'["codex"] = s
        BY <1>0, <3>1, <4>2
      <4> QED
        BY <4>3, <4>4 DEF Chosen
    <3>4. FileSafe'
      BY <3>2, <3>3 DEF FileSafe
    <3> QED
      BY <1>10, <3>1, <3>2, <3>4 DEF RestorePc, MovePc, PlanPc, RootPc
  <2>9. CASE CodexProgramFails(t)
    <3>1. /\ at[t] \in {"codex_market", "codex_add"} /\ at'[t] = "codex_restore"
          /\ inst' = inst /\ config' = config /\ codex' = codex
      BY <1>4, <2>9 DEF CodexProgramFails, clients
    <3> QED
      BY <1>8, <1>10, <3>1 DEF RestorePc, MovePc, PlanPc, RootPc
  <2>10. CASE codex_post(t)
    <3>1. /\ at[t] = "codex_post" /\ at'[t] \in {"codex_migrate", "codex_restore"}
          /\ inst'[t].snapshot = inst[t].snapshot /\ config' = config /\ codex' = codex
      BY <1>2, <1>3, <2>10 DEF codex_post, Runs, files, homes
    <3>2. CASE at'[t] = "codex_restore"
      BY <1>8, <1>10, <3>1, <3>2 DEF RestorePc, MovePc, PlanPc, RootPc
    <3>3. CASE at'[t] = "codex_migrate"
      <4>1. Plugin(config["codex"]) = inst[t].expected
        BY <1>3, <2>10, <3>3 DEF codex_post, _verified_installed
      <4>2. inst[t].expected = inst[t].pkg /\ inst[t].pkg # None
        BY <3>1 DEF Local, Recalls, InstallPc
      <4>3. Plugin(config["codex"])' # None
        BY <3>1, <4>1, <4>2 DEF Plugin
      <4>4. /\ {"codex_post", "codex_migrate"} \subseteq RestorePc
            /\ "codex_migrate" \in MovePc /\ "codex_migrate" \notin RootPc \cup PlanPc
        BY DEF RestorePc, MovePc, RootPc, PlanPc
      <4>5. ~Plans(t, "codex")'
        BY <3>3 DEF Plans
      <4>6. Chosen(inst[t].snapshot)' = Chosen(inst[t].snapshot)
        BY <3>1 DEF Chosen
      <4>7. FileSafe'
        BY <1>8, <3>1
      <4> QED
        BY <1>1, <3>1, <3>3, <4>3, <4>4, <4>5, <4>6, <4>7 DEF Skilled
    <3> QED
      BY <3>1, <3>2, <3>3
  \* While skills are moved the plugin is there.
  <2>11. ASSUME at[t] \in MovePc, config' = config, codex'.cache = codex.cache
         PROVE  FileSafe' /\ Plugin(config["codex"])' # None
    <3>1. Plugin(config["codex"]) # None
      BY <2>11 DEF Skilled
    <3>2. codex.cache # None /\ Chosen(config["codex"])
      BY <3>1 DEF Plugin, Chosen
    <3>3. Chosen(config["codex"])'
      BY <2>11, <3>2 DEF Chosen
    <3> QED
      BY <2>11, <3>1, <3>2, <3>3 DEF FileSafe, Plugin
  <2>12. ASSUME at[t] \in MovePc, config' = config, codex'.cache = codex.cache,
                at'[t] \in MovePc, inst'[t].snapshot = inst[t].snapshot
         PROVE  FileSafe' /\ Skilled(t)'
    <3>1. MovePc \subseteq RestorePc /\ MovePc \cap (RootPc \cup PlanPc) = {}
      BY DEF MovePc, RestorePc, RootPc, PlanPc
    <3>2. ~Plans(t, "codex")'
      BY <2>12, <3>1 DEF Plans, PlanPc
    <3>3. Chosen(inst[t].snapshot)' = Chosen(inst[t].snapshot)
      BY <2>12 DEF Chosen
    <3> QED
      BY <1>1, <2>11, <2>12, <3>1, <3>2, <3>3 DEF Skilled
  <2>13. CASE migrate_legacy_skills(t)
    <3>0. at[t] = "codex_migrate" /\ at[t] \in MovePc /\ config' = config
      BY <2>13 DEF migrate_legacy_skills, Runs, MovePc, files
    <3>1. CASE inst[t].left = {}
      <4>1. NextClient(t) /\ codex' = codex
        BY <2>13, <3>1 DEF migrate_legacy_skills
      <4> QED
        BY <1>7, <1>8, <3>0, <4>1
    <3>2. ASSUME NEW s, codex' = [codex EXCEPT !.legacy[s] = "backup"],
                 Set(t, [left |-> inst[t].left \ {s}, moved |-> inst[t].moved \cup {s}]),
                 Go(t, "codex_migrate")
          PROVE  FileSafe' /\ Skilled(t)'
      <4>1. at'[t] \in MovePc /\ inst'[t].snapshot = inst[t].snapshot
        BY <1>2, <1>3, <3>2 DEF MovePc
      <4>2. codex'.cache = codex.cache
        BY <1>0, <3>2
      <4> QED
        BY <2>12, <3>0, <4>1, <4>2
    <3>3. CASE GoBadly(t, "move", "codex_unmove") /\ UNCHANGED <<inst, codex>>
      <4>1. at'[t] \in MovePc /\ inst'[t].snapshot = inst[t].snapshot /\ codex'.cache = codex.cache
        BY <1>4, <3>3 DEF MovePc
      <4> QED
        BY <2>12, <3>0, <4>1
    <3> QED
      BY <2>13, <3>1, <3>2, <3>3 DEF migrate_legacy_skills
  <2>14. CASE migration_undone(t)
    <3>0. at[t] = "codex_unmove" /\ at[t] \in MovePc /\ config' = config
      BY <2>14 DEF migration_undone, Runs, MovePc, files
    <3>1. CASE inst[t].moved = {}
      <4>1. NextClient(t) /\ codex' = codex
        BY <2>14, <3>1 DEF migration_undone
      <4> QED
        BY <1>7, <1>8, <3>0, <4>1
    <3>2. ASSUME NEW s, codex' = [codex EXCEPT !.legacy[s] = "owned"],
                 Set(t, [moved |-> inst[t].moved \ {s}]), Go(t, "codex_unmove")
          PROVE  FileSafe' /\ Skilled(t)'
      <4>1. at'[t] \in MovePc /\ inst'[t].snapshot = inst[t].snapshot
        BY <1>2, <1>3, <3>2 DEF MovePc
      <4>2. codex'.cache = codex.cache
        BY <1>0, <3>2
      <4> QED
        BY <2>12, <3>0, <4>1, <4>2
    <3>3. CASE GoBadly(t, "move_back", "codex_restore") /\ UNCHANGED <<inst, codex>>
      <4>1. /\ at'[t] = "codex_restore" /\ inst'[t].snapshot = inst[t].snapshot
            /\ spent' = Append(spent, "move_back") /\ codex' = codex
        BY <1>4, <3>3 DEF GoBadly, Spend
      <4>2. "move_back" \in ToSet(spent')
        BY <4>1, AppendLined
      <4>3. HadPlugin => Chosen(inst[t].snapshot)
        BY <3>0 DEF Skilled, RestorePc
      <4>4. Exempt' \/ Chosen(inst[t].snapshot)
        BY <1>1, <4>2, <4>3 DEF Exempt
      <4>5. /\ "codex_restore" \in RestorePc /\ "codex_restore" \notin MovePc \cup RootPc
            /\ ~Plans(t, "codex")'
        BY <4>1 DEF RestorePc, MovePc, RootPc, Plans
      <4>6. Chosen(inst[t].snapshot)' = Chosen(inst[t].snapshot)
        BY <4>1 DEF Chosen
      <4>7. FileSafe'
        BY <1>8, <3>0, <4>1
      <4> QED
        BY <1>1, <4>1, <4>3, <4>4, <4>5, <4>6, <4>7 DEF Skilled
    <3> QED
      BY <2>14, <3>1, <3>2, <3>3 DEF migration_undone
  <2>15. CASE _restore_configs(t)
    <3>1. /\ at[t] = "codex_restore" /\ at'[t] = "native_fails" /\ codex' = codex
          /\ config' = [config EXCEPT !["codex"] = inst[t].snapshot]
      BY <1>3, <2>15 DEF _restore_configs, Runs, homes
    <3>2. /\ HadPlugin => Chosen(inst[t].snapshot)
          /\ Moved => Chosen(inst[t].snapshot) \/ Exempt
      BY <3>1 DEF Skilled, RestorePc, MovePc
    <3>3. FileSafe'
      BY <1>9, <3>1, <3>2
    <3> QED
      BY <1>5, <3>1, <3>3 DEF PlanPc, RestorePc
  <2> QED
    BY <1>13, <2>1, <2>2, <2>3, <2>4, <2>5, <2>6, <2>7, <2>8, <2>9, <2>10, <2>13, <2>14, <2>15
       DEF CodexStep
<1> QED
  BY <1>11, <1>12, <1>13 DEF InstallStep

\* Where the machine may go down in a write, no update runs, and an installer
\* is for one client.
SmallTear ==
  \A c \in Cases : "torn" \in c.trouble =>
    \A t \in Terminal : \A i \in DOMAIN c.todo[t] :
      c.todo[t][i].run \in Installers \cup Updaters =>
        c.todo[t][i].run \in Installers /\ ~c.todo[t][i].all

Short(t) == "torn" \in case.trouble /\ at[t] \in InstallPc => Len(inst[t].targets) <= 1

EndPc == {"codex_migrate", "codex_unmove", "codex_restore", "native_fails"}

\* t writes no file any more.
Spared(t) ==
  \/ Bystander(case, t)
  \/ at[t] = "prompt" /\ todo[t] = << >>
  \/ at[t] \in EndPc
  \/ at[t] = "client" /\ inst[t].targets = << >>

\* Only the move touches what an earlier installer left.
LEMMA LegacyStays ==
  ASSUME EntryKnown, NEW t \in Terminal, InstallStep(t), at[t] \notin MovePc
  PROVE  codex'.legacy = codex.legacy
<1>1. CASE PlainStep(t)
  BY <1>1 DEF PlainStep, install, install_skills, install_client, native_fails, give_up,
     plain_plan, plain_backup, plain_write, TornWrite, _ensure_skills, extract_skills,
     ExtractFails, stamp_skills_dir, homes
<1>2. CASE CodexStep(t)
  <2>1. ~migrate_legacy_skills(t) /\ ~migration_undone(t)
    BY DEF migrate_legacy_skills, migration_undone, Runs, MovePc
  <2>2. codex' = codex \/ \E v : \/ codex' = [codex EXCEPT !.root = v]
                                 \/ codex' = [codex EXCEPT !.cache = v]
    BY <1>2, <2>1 DEF CodexStep, codex_read, _snapshot_config, codex_market, codex_verify,
       codex_mcp, codex_backup, codex_write, codex_add, codex_post, _restore_configs,
       CodexProgramFails, CodexProgramLacks, homes, clients
  <2> QED
    BY <2>2 DEF EntryKnown
<1>3. CASE ClaudeStep(t)
  BY <1>3 DEF ClaudeStep, claude_read, claude_market, claude_update, claude_plugin,
     claude_mcp_get, claude_mcp_remove, claude_mcp_add, _apply_claude_allowlist,
     allow_backup, allow_write, homes, clients
<1> QED
  BY <1>1, <1>2, <1>3 DEF InstallStep

\* From there a command goes to its end.
LEMMA EndGoes ==
  ASSUME Shelled, Registered, NEW t \in Terminal, InstallStep(t),
         at[t] \in EndPc \/ (at[t] = "client" /\ inst[t].targets = << >>)
  PROVE  \/ at'[t] \in EndPc \cup {"prompt", "update_after"}
         \/ /\ at[t] # "client" /\ at'[t] = "client"
            /\ inst'[t].targets = Tail(inst[t].targets)
<1>0. /\ DOMAIN inst = Terminal /\ DOMAIN inst[t] = InstallRegister
      /\ DOMAIN at = Terminal /\ {"targets", "errors"} \subseteq InstallRegister
  BY DEF Registered, InstallRegister, Shelled
<1>1. ASSUME NEW how, Finish(t, how) PROVE at'[t] \in {"prompt", "update_after"}
  BY <1>1 DEF Finish, Ends, Shelled
<1>2. ASSUME NextClient(t) PROVE at'[t] = "client" /\ inst'[t].targets = Tail(inst[t].targets)
  BY <1>0, <1>2 DEF NextClient, Go, Set, Over, Rest
<1>3. \/ install_client(t) \/ native_fails(t) \/ migrate_legacy_skills(t)
      \/ migration_undone(t) \/ _restore_configs(t)
  BY DEF InstallStep, PlainStep, CodexStep, ClaudeStep, Runs, Starts, EndPc,
     install, install_skills, give_up,
     plain_plan, plain_backup, plain_write, TornWrite, _ensure_skills, extract_skills,
     ExtractFails, stamp_skills_dir, codex_read, _snapshot_config, codex_market,
     codex_verify, codex_mcp, codex_backup, codex_write, codex_add, codex_post,
     CodexProgramFails, CodexProgramLacks, claude_read, claude_market, claude_update,
     claude_plugin, claude_mcp_get, claude_mcp_remove, claude_mcp_add,
     _apply_claude_allowlist, allow_backup, allow_write
<1>4. CASE install_client(t)
  <2>1. inst[t].targets = << >>
    BY <1>4 DEF install_client, Runs, EndPc
  <2> QED
    BY <1>1, <1>4, <2>1 DEF install_client
<1>5. CASE native_fails(t)
  <2>1. CASE inst[t].all
    <3>1. at[t] = "native_fails" /\ at'[t] = "client"
      BY <1>0, <1>5, <2>1 DEF native_fails, Runs, Go
    <3>2. Set(t, [targets |-> Tail(inst[t].targets), errors |-> TRUE])
      BY <1>5, <2>1 DEF native_fails, Rest
    <3>3. inst'[t].targets = Tail(inst[t].targets)
      BY <1>0, <3>2 DEF Set, Over
    <3> QED
      BY <3>1, <3>3
  <2>2. CASE ~inst[t].all
    BY <1>1, <1>5, <2>2 DEF native_fails
  <2> QED
    BY <2>1, <2>2
<1>6. CASE migrate_legacy_skills(t)
  <2>1. at[t] = "codex_migrate" /\ (NextClient(t) \/ at'[t] \in {"codex_migrate", "codex_unmove"})
    BY <1>0, <1>6 DEF migrate_legacy_skills, Runs, Go, GoBadly
  <2> QED
    BY <1>2, <2>1 DEF EndPc
<1>7. CASE migration_undone(t)
  <2>1. at[t] = "codex_unmove" /\ (NextClient(t) \/ at'[t] \in {"codex_unmove", "codex_restore"})
    BY <1>0, <1>7 DEF migration_undone, Runs, Go, GoBadly
  <2> QED
    BY <1>2, <2>1 DEF EndPc
<1>8. CASE _restore_configs(t)
  BY <1>0, <1>8 DEF _restore_configs, Go, EndPc
<1> QED
  BY <1>3, <1>4, <1>5, <1>6, <1>7, <1>8

LEMMA TearSpares ==
  ASSUME OneTear, SmallTear, MachineInv, Queues, JobInv, JobInv', Registered, AllLined,
         EntryKnown, NEW t \in Terminal, Bound(t), Short(t), Step(t) \/ Killed(t),
         "torn" \in case.trouble, Moved => Spared(t), ~TornWrite(t)
  PROVE  Short(t)' /\ (Moved' => Spared(t)')
<1>0. Walks(t) /\ Shelled /\ case' = case
  BY StepWalks DEF MachineInv, Walks
<1>1. ASSUME todo[t] # << >>, Job(t).run \in Installers \cup Updaters
      PROVE  Job(t).run \in Installers /\ ~Job(t).all
  <2>1. PICK i \in DOMAIN case.todo[t] : Job(t) = case.todo[t][i]
    BY <1>0, <1>1, JobTyped
  <2>2. case \in Cases
    BY <1>0 DEF Shelled
  <2> QED
    BY <1>1, <2>1, <2>2 DEF SmallTear
<1>2. todo[t] # << >>
  BY <1>0 DEF Walks, Queues, Queued
<1>3. Installers \cap Updaters = {}
  BY DEF Installers, Updaters
\* An installer ends at the prompt, and nothing is left to run.
<1>4. ASSUME at[t] \in InstallPc \/ InstallStep(t), at'[t] \notin InstallPc
      PROVE  at'[t] = "prompt" /\ todo'[t] = << >>
  <2>1. Job(t).run \in Installers
    <3>1. at[t] \in InstallPc \/ Job(t).run \in Installers
      BY <1>4, InstallFrom DEF Installers
    <3> QED
      BY <1>1, <1>2, <3>1 DEF JobInv, Fit
  <2>2. at'[t] = "prompt"
    <3>1. CASE todo'[t] = todo[t]
      <4>1. Job(t)' = Job(t)
        BY <3>1 DEF Job
      <4>2. Fit(t)'
        BY DEF JobInv
      <4> QED
        BY <1>3, <1>4, <2>1, <4>1, <4>2 DEF Fit, Installers, Updaters
    <3>2. CASE todo'[t] # todo[t]
      BY <1>0, <3>2 DEF Walks
    <3> QED
      BY <3>1, <3>2
  <2> QED
    BY <1>0, <1>4, <2>2, LastOfTorn
<1>5. CASE ~InstallStep(t)
  <2>1. at'[t] \notin InstallPc
    <3> SUFFICES ASSUME at'[t] \in InstallPc PROVE FALSE
      OBVIOUS
    <3>1. at[t] = "update_clients"
      BY <1>5, StepAside
    <3>2. Job(t).run \in Updaters
      BY <3>1, PcSets DEF JobInv, Fit
    <3> QED
      BY <1>1, <1>2, <1>3, <3>2
  <2>2. Moved' = Moved
    BY <1>5, StepOutside DEF Moved
  <2>3. ASSUME Spared(t) PROVE Spared(t)'
    <3>1. CASE Bystander(case, t)
      BY <1>0, <3>1 DEF Spared, Bystander
    <3>2. CASE at[t] \in InstallPc
      BY <1>4, <2>1, <3>2 DEF Spared
    <3> QED
      BY <1>2, <2>3, <3>1, <3>2 DEF Spared, EndPc, InstallPc
  <2> QED
    BY <2>1, <2>2, <2>3 DEF Short
<1>6. CASE InstallStep(t)
  <2>1. ~Bystander(case, t)
    BY <1>0, <1>6, BystanderSteps
  <2>2. ASSUME at[t] \in InstallPc
        PROVE  /\ Len(inst[t].targets) <= 1 /\ inst[t].targets \in Seq(AIClient)
               /\ at[t] \notin {"client", "give_up"} =>
                    inst[t].targets # << >> /\ Tail(inst[t].targets) = << >>
    <3>1. Len(inst[t].targets) <= 1 /\ inst[t].targets \in Seq(AIClient)
      BY <2>2 DEF Short, Bound
    <3>2. \A s \in Seq(AIClient) : Len(s) <= 1 /\ s # << >> => Tail(s) = << >>
      OBVIOUS
    <3> QED
      BY <2>2, <3>1, <3>2 DEF Bound
  <2>3. Short(t)'
    <3> SUFFICES ASSUME at'[t] \in InstallPc PROVE Len(inst'[t].targets) <= 1
      BY DEF Short
    <3>1. Begins(t) \/ (at[t] \in InstallPc /\ Follows(t))
      BY <1>0, <1>6, InstallPacked
    <3>2. CASE Begins(t)
      <4>1. ~Job(t).all
        <5>1. Job(t).run \in Installers
          BY <1>6, <3>2, InstallFrom, PcSets DEF Begins, Installers
        <5> QED
          BY <1>1, <1>2, <5>1
      <4>2. PICK c : inst'[t].targets = <<c>>
        BY <3>2, <4>1 DEF Begins
      <4>3. Len(<<c>>) <= 1
        OBVIOUS
      <4> QED
        BY <4>2, <4>3
    <3>3. CASE at[t] \in InstallPc /\ Follows(t)
      <4>1. inst'[t].targets = inst[t].targets \/ inst'[t].targets = << >>
        BY <2>2, <3>3 DEF Follows
      <4>2. Len(<< >>) <= 1
        OBVIOUS
      <4> QED
        BY <2>2, <3>3, <4>1, <4>2
    <3> QED
      BY <3>1, <3>2, <3>3
  <2>4. ASSUME Moved' PROVE Spared(t)'
    <3>1. at[t] \in EndPc \/ (at[t] = "client" /\ inst[t].targets = << >>)
      <4>1. CASE at[t] \in MovePc
        BY <4>1 DEF MovePc, EndPc
      <4>2. CASE at[t] \notin MovePc
        <5>1. Moved
          BY <1>6, <2>4, <4>2, LegacyStays DEF Moved
        <5> QED
          BY <1>2, <2>1, <5>1 DEF Spared
      <4> QED
        BY <4>1, <4>2
    <3>2. at[t] \in InstallPc
      BY <3>1 DEF EndPc, InstallPc
    <3>3. CASE at'[t] \in EndPc
      BY <3>3 DEF Spared
    <3>4. CASE at'[t] \in {"prompt", "update_after"}
      <4>1. at'[t] \notin InstallPc
        BY <3>4 DEF InstallPc
      <4> QED
        BY <1>4, <3>2, <4>1 DEF Spared
    <3>5. CASE at[t] # "client" /\ at'[t] = "client" /\ inst'[t].targets = Tail(inst[t].targets)
      <4>1. at[t] # "give_up"
        BY <3>1 DEF EndPc
      <4> QED
        BY <2>2, <3>2, <3>5, <4>1 DEF Spared
    <3> QED
      BY <1>0, <1>6, <3>1, <3>3, <3>4, <3>5, EndGoes
  <2> QED
    BY <2>3, <2>4
<1> QED
  BY <1>5, <1>6

SkillsSafe ==
  /\ FileSafe
  /\ \A t \in Terminal :
       Skilled(t) /\ Short(t) /\ ("torn" \in case.trouble /\ Moved => Spared(t))

CodexInv ==
  /\ Lined(spent)
  /\ \/ OnlyPlain(case) /\ ~Moved
     \/ NobodyWrites /\ CodexKeepsItsSkills
     \/ OneInstalls(case) /\ SkillsSafe

LEMMA CodexShown == CodexInv => CodexKeepsItsSkills
<1> SUFFICES ASSUME CodexInv, Moved, SkillsSafe PROVE CodexKeepsItsSkills
  BY DEF CodexInv, CodexKeepsItsSkills, Moved
<1>1. codex.cache # None /\ (Chosen(config["codex"]) \/ Exempt)
  BY DEF SkillsSafe, FileSafe
<1> QED
  BY <1>1 DEF CodexKeepsItsSkills, Plugin, Chosen, Exempt, HadPlugin

\* A terminal that installs nothing is not in the middle of it.
BystandersOut == \A u \in Terminal : Bystander(case, u) => at[u] \notin InstallPc

LEMMA BystanderOut == Shelled /\ Queues /\ JobInv => BystandersOut
<1> SUFFICES ASSUME Shelled, Queues, JobInv,
                    NEW u \in Terminal, Bystander(case, u), at[u] \in InstallPc
             PROVE  FALSE
  BY DEF BystandersOut
<1>1. todo[u] # << >> /\ Job(u).run \in Installers \cup Updaters
  BY PcSets DEF Queues, Queued, JobInv, Fit
<1> QED
  BY <1>1, JobTyped DEF Bystander

\* Where nothing is in hand there is nothing to go wrong.
LEMMA NothingInHand ==
  ASSUME NEW t \in Terminal, at'[t] \notin InstallPc
  PROVE  Skilled(t)' /\ Short(t)'
<1>1. RestorePc \cup RootPc \cup MovePc \cup PlanPc \subseteq InstallPc
  BY DEF RestorePc, RootPc, MovePc, PlanPc, InstallPc
<1> QED
  BY <1>1 DEF Skilled, Short, Plans, PlanPc

\* The file and the program of Codex are left alone.
LEMMA KeptSafe ==
  ASSUME Lined(spent), Spends, case' = case, config'["codex"] = config["codex"],
         codex' = codex
  PROVE  /\ Lined(spent)' /\ Moved' = Moved /\ (FileSafe => FileSafe')
         /\ CodexKeepsItsSkills => CodexKeepsItsSkills'
<1>1. Lined(spent)' /\ HadPlugin' = HadPlugin /\ (Exempt => Exempt')
  BY ExemptStays
<1>2. Moved' = Moved /\ Plugin(config["codex"])' = Plugin(config["codex"])
      /\ Chosen(config["codex"])' = Chosen(config["codex"])
  BY DEF Moved, Plugin, Chosen
<1>3. FileSafe => FileSafe'
  BY <1>1, <1>2 DEF FileSafe
<1>4. /\ CodexKeepsItsSkills = (Moved => Plugin(config["codex"]) # None \/ Exempt)
      /\ CodexKeepsItsSkills' = (Moved => Plugin(config["codex"]) # None \/ Exempt)'
  BY DEF CodexKeepsItsSkills, Moved, Exempt, HadPlugin, Chosen
<1> QED
  BY <1>1, <1>2, <1>3, <1>4

\* Nobody goes a step.
LEMMA CodexStill ==
  ASSUME CodexInv, KeptInv, Spends, case' = case, at' = at, todo' = todo, inst' = inst,
         codex' = codex,
         config' = config \/ \E f \in File : Edit(f)
  PROVE  CodexInv'
<1>1. Lined(spent)' /\ Moved' = Moved
  BY ExemptStays DEF CodexInv, Moved
<1>2. CASE OnlyPlain(case) /\ ~Moved
  BY <1>1, <1>2 DEF CodexInv, OnlyPlain
<1>3. CASE NobodyWrites /\ CodexKeepsItsSkills
  <2>1. config' = config
    BY <1>3 DEF Edit, Happens, May, NobodyWrites
  <2>2. CodexKeepsItsSkills' /\ NobodyWrites'
    BY <1>3, <2>1, KeptSafe DEF CodexInv, NobodyWrites, Bystander
  <2> QED
    BY <1>1, <2>2 DEF CodexInv
<1>4. CASE OneInstalls(case) /\ SkillsSafe
  <2>1. OneInstalls(case)'
    BY <1>4 DEF OneInstalls, Bystander
  <2>2. ASSUME NEW t \in Terminal
        PROVE  Short(t)' /\ ("torn" \in case.trouble /\ Moved => Spared(t))'
    BY <1>1, <1>4 DEF SkillsSafe, Short, Spared, Bystander
  <2>3. CASE config' = config
    <3>1. FileSafe'
      BY <1>4, <2>3, KeptSafe DEF CodexInv, SkillsSafe
    <3>2. ASSUME NEW t \in Terminal PROVE Skilled(t)'
      <4>1. Skilled(t) /\ HadPlugin' = HadPlugin /\ (Exempt => Exempt')
        BY <1>4, ExemptStays DEF SkillsSafe, CodexInv
      <4> QED
        BY <1>1, <2>3, <4>1 DEF Skilled, Plans, Client, Plugin, Chosen
    <3> QED
      BY <1>1, <2>1, <2>2, <3>1, <3>2 DEF CodexInv, SkillsSafe
  <2>4. ASSUME NEW f \in File, Edit(f) PROVE CodexInv'
    <3>1. /\ config' = [config EXCEPT ![f] = <<"note">> \o Text(config[f])]
          /\ "edit" \in case.trouble /\ Typing
      BY <2>4 DEF Edit, Happens, May
    <3>2. Whole /\ \A t \in Terminal : Recalls(t)
      BY <3>1 DEF KeptInv, Ruined, NobodyWrites
    <3>3. ASSUME NEW t \in Terminal PROVE Skilled(t)'
      <4>1. inst[t].pkg = None
        BY <3>1 DEF Typing, NoInstall
      <4>2. at'[t] \notin InstallPc
        BY <3>2, <4>1 DEF Recalls
      <4> QED
        BY <4>2, NothingInHand
    <3>4. Chosen(config["codex"]) => Chosen(config["codex"])'
      <4>1. CASE f = "codex"
        <5>1. PICK s : s = <<"note">> \o Text(config["codex"])
          OBVIOUS
        <5>2. Holding("codex", config["codex"], mine["codex"]) /\ "codex" \in File
          BY <3>2 DEF Whole, File
        <5>3. Chosen(config["codex"]) => Chosen(s)
          BY <5>1, <5>2, NoteKeeps
        <5>4. config'["codex"] = s
          BY <3>1, <3>2, <4>1, <5>1, <5>2 DEF Whole
        <5> QED
          BY <5>3, <5>4 DEF Chosen
      <4>2. CASE f # "codex"
        <5>1. config'["codex"] = config["codex"]
          BY <3>1, <4>2
        <5> QED
          BY <5>1 DEF Chosen
      <4> QED
        BY <4>1, <4>2
    <3>5. HadPlugin' = HadPlugin /\ (Exempt => Exempt')
      BY ExemptStays DEF CodexInv
    <3>6. FileSafe'
      BY <1>1, <1>4, <3>4, <3>5 DEF SkillsSafe, FileSafe
    <3> QED
      BY <1>1, <2>1, <2>2, <3>3, <3>6 DEF CodexInv, SkillsSafe
  <2> QED
    BY <2>3, <2>4
<1> QED
  BY <1>2, <1>3, <1>4 DEF CodexInv

LEMMA CodexStepsOn ==
  ASSUME OneTear, SmallTear, MachineInv, MachineInv', Queues, Queues', JobInv, JobInv',
         CleanInv, KeptInv, CodexInv, NEW t \in Terminal, Step(t) \/ Killed(t)
  PROVE  CodexInv'
<1>0. /\ Walks(t) /\ Shelled /\ Shelled' /\ WorldSound /\ case' = case
      /\ Registered /\ AllLined /\ EntryKnown /\ Bound(t) /\ Local(t)
      /\ Spends /\ Lined(spent)
  BY StepWalks, StepSpends DEF MachineInv, CleanInv, CodexInv, Walks
<1>1. Lined(spent)'
  BY <1>0, ExemptStays
<1>2. ASSUME NEW u \in Terminal \ {t}
      PROVE  at'[u] = at[u] /\ inst'[u] = inst[u] /\ todo'[u] = todo[u]
  BY <1>0, StepLoads DEF Walks
<1>3. ~InstallStep(t) => config' = config /\ codex' = codex
  BY <1>0, StepOutside
<1>4. CASE NobodyWrites
  <2>1. Bystander(case, t)
    BY <1>0, <1>4 DEF NobodyWrites, Walks
  <2>2. ~InstallStep(t)
    BY <1>0, <2>1, BystanderSteps
  <2>3. CodexKeepsItsSkills'
    BY <1>0, <1>3, <2>2, CodexShown, KeptSafe
  <2>4. NobodyWrites'
    BY <1>0, <1>2, <1>4, <2>1 DEF NobodyWrites, Bystander
  <2> QED
    BY <1>1, <2>3, <2>4 DEF CodexInv
<1>5. CASE ~NobodyWrites /\ OnlyPlain(case) /\ ~Moved
  <2>1. ~Moved'
    <3>1. CASE InstallStep(t)
      <4>1. at[t] \notin MovePc
        <5> SUFFICES ASSUME at[t] \in MovePc PROVE FALSE
          OBVIOUS
        <5>1. /\ Client(t) = "codex" /\ inst[t].targets \in Seq(AIClient)
              /\ inst[t].targets # << >> /\ ToSet(inst[t].targets) \subseteq Plain
          BY <1>0, <1>5 DEF MovePc, CodexPc, InstallPc, Local, Bound
        <5>2. Client(t) \in Plain
          BY <5>1, HeadAndTail DEF Client
        <5> QED
          BY <5>1, <5>2 DEF Plain
      <4> QED
        BY <1>0, <1>5, <3>1, <4>1, LegacyStays DEF Moved
    <3>2. CASE ~InstallStep(t)
      BY <1>3, <1>5, <3>2 DEF Moved
    <3> QED
      BY <3>1, <3>2
  <2> QED
    BY <1>0, <1>1, <1>5, <2>1 DEF CodexInv, OnlyPlain
<1>6. CASE ~NobodyWrites /\ OneInstalls(case) /\ SkillsSafe
  <2>1. Whole /\ Recalls(t)
    BY <1>6 DEF KeptInv, Ruined
  <2>2. OneInstalls(case)'
    BY <1>0, <1>6 DEF OneInstalls, Bystander
  <2>3. FileSafe /\ \A u \in Terminal : Skilled(u) /\ Short(u)
    BY <1>6 DEF SkillsSafe
  \* Who installs nothing.
  <2>4. ASSUME NEW u \in Terminal, Bystander(case, u)
        PROVE  Skilled(u)' /\ Short(u)' /\ Spared(u)'
    <3>1. Bystander(case, u)'
      BY <1>0, <2>4 DEF Bystander
    <3>2. BystandersOut'
      BY <1>0, BystanderOut, PTL
    <3>3. at'[u] \notin InstallPc
      BY <3>1, <3>2 DEF BystandersOut
    <3> QED
      BY <3>1, <3>3, NothingInHand DEF Spared
  <2>5. CASE TornWrite(t)
    <3>1. at[t] \in WritePc /\ "torn" \in case.trouble /\ InstallStep(t) /\ codex' = codex
      BY <2>5 DEF TornWrite, May, WritePc, homes, InstallStep, PlainStep
    <3>2. ~Spared(t)
      <4>1. ~Bystander(case, t)
        BY <1>0, <3>1, BystanderSteps
      <4> QED
        BY <3>1, <4>1 DEF Spared, WritePc, EndPc
    <3>3. ~Moved'
      BY <1>6, <3>1, <3>2 DEF SkillsSafe, Moved
    <3>4. CodexKeepsItsSkills'
      BY <3>3 DEF Moved, CodexKeepsItsSkills
    <3>5. NobodyWrites'
      BY <1>0, <2>1, <2>5, TornRuins DEF Ruined
    <3> QED
      BY <1>1, <3>4, <3>5 DEF CodexInv
  <2>6. CASE ~TornWrite(t)
    <3>1. FileSafe' /\ Skilled(t)'
      <4>1. CASE InstallStep(t)
        BY <1>0, <2>1, <2>3, <2>6, <4>1, PluginStays
      <4>2. CASE ~InstallStep(t)
        <5>1. FileSafe'
          BY <1>0, <1>3, <2>3, <4>2, KeptSafe
        <5>2. at'[t] \notin RestorePc \cup RootPc \cup MovePc \cup PlanPc
          <6>1. at'[t] \in InstallPc => at'[t] = "client"
            BY <1>0, <4>2, StepAside
          <6> QED
            BY <6>1 DEF RestorePc, RootPc, MovePc, PlanPc, InstallPc
        <5>3. Skilled(t)'
          BY <5>2 DEF Skilled, Plans, PlanPc
        <5> QED
          BY <5>1, <5>3
      <4> QED
        BY <4>1, <4>2
    <3>2. Short(t)' /\ ("torn" \in case.trouble /\ Moved => Spared(t))'
      <4>1. CASE "torn" \in case.trouble
        <5>1. Moved => Spared(t)
          BY <1>6, <4>1 DEF SkillsSafe
        <5> QED
          BY <1>0, <2>3, <2>6, <4>1, <5>1, TearSpares
      <4>2. CASE "torn" \notin case.trouble
        BY <1>0, <4>2 DEF Short
      <4> QED
        BY <4>1, <4>2
    <3>3. PICK w \in Terminal : \A u \in Terminal \ {w} : Bystander(case, u)
      BY <1>6 DEF OneInstalls
    <3>4. ASSUME NEW u \in Terminal \ {t}
          PROVE  /\ Skilled(u)' /\ Short(u)'
                 /\ ("torn" \in case.trouble /\ Moved => Spared(u))'
      <4>1. CASE Bystander(case, u)
        BY <2>4, <4>1
      <4>2. CASE ~Bystander(case, u)
        <5>1. ~InstallStep(t)
          BY <1>0, <3>3, <4>2, BystanderSteps
        <5>2. config' = config /\ codex' = codex /\ Moved' = Moved
          BY <1>3, <5>1 DEF Moved
        <5>3. HadPlugin' = HadPlugin /\ (Exempt => Exempt')
          BY <1>0, ExemptStays
        <5>4. Skilled(u)'
          BY <1>2, <2>3, <5>2, <5>3 DEF Skilled, Plans, Client, Plugin, Chosen
        <5>5. Short(u)' /\ (Spared(u) => Spared(u)')
          BY <1>0, <1>2, <2>3 DEF Short, Spared, Bystander
        <5>6. "torn" \in case.trouble /\ Moved => Spared(u)
          BY <1>6 DEF SkillsSafe
        <5> QED
          BY <1>0, <5>2, <5>4, <5>5, <5>6
      <4> QED
        BY <4>1, <4>2
    <3> QED
      BY <1>1, <2>2, <3>1, <3>2, <3>4 DEF CodexInv, SkillsSafe
  <2> QED
    BY <2>5, <2>6
<1> QED
  BY <1>4, <1>5, <1>6 DEF CodexInv

LEMMA CodexSteps ==
  ASSUME OneTear, SmallTear, MachineInv, MachineInv', Queues, Queues', JobInv, JobInv',
         CleanInv, KeptInv, CodexInv, [Next]_machine
  PROVE  CodexInv'
<1>1. CASE UNCHANGED machine \/ (Others /\ ~People)
  <2>1. /\ UNCHANGED <<config, codex, inst, case, at, todo>> /\ Spends
    BY <1>1 DEF machine, shell, clients, Others, EditCompose, Crowd, EditHome, Happens, Spend,
       Spends
  <2> QED
    BY <2>1, CodexStill
<1>2. CASE Others /\ People
  <2>1. /\ UNCHANGED <<codex, inst, case, at, todo>> /\ Spends
        /\ config' = config \/ \E f \in File : Edit(f)
    BY <1>2 DEF People, Edit, EditSkill, Merge, Release, Happens, Spend, Spends, homes, files
  <2> QED
    BY <2>1, CodexStill
<1>3. ASSUME NEW t \in Terminal, Step(t) \/ Killed(t) PROVE CodexInv'
  BY <1>3, CodexStepsOn
<1> QED
  BY <1>1, <1>2, <1>3 DEF Next, Idle

LEMMA CodexStart ==
  ASSUME Unshared, Init
  PROVE  CodexInv
<1>1. /\ case \in Cases /\ at = [t \in Terminal |-> "prompt"] /\ config = case.config
      /\ codex.legacy \in {HadSkills, [s \in Skill |-> "none"]} /\ spent = << >>
  BY DEF Init, ShellInit, InstallInit
<1>2. ~Moved
  BY <1>1, HadAssumption DEF Moved
<1>3. Lined(spent)
  BY <1>1, NothingLined
<1>4. FileSafe
  BY <1>1, <1>2 DEF FileSafe, HadPlugin
<1>5. ASSUME NEW t \in Terminal PROVE Skilled(t) /\ Short(t)
  BY <1>1 DEF Skilled, Short, Plans, RestorePc, RootPc, MovePc, InstallPc
<1>6. OnlyPlain(case) \/ OneInstalls(case)
  BY <1>1 DEF Unshared
<1> QED
  BY <1>2, <1>3, <1>4, <1>5, <1>6 DEF CodexInv, SkillsSafe

-----------------------------------------------------------------------------
\* Whoever had the skills of an earlier installer for Codex keeps them, where
\* they were or in the plugin, whatever fails and whenever the installer is
\* killed.
THEOREM SkillsNotLost ==
  Unshared /\ OneTear /\ SmallTear => (Spec => []CodexKeepsItsSkills)
<1> SUFFICES ASSUME Unshared, OneTear, SmallTear PROVE Spec => []CodexKeepsItsSkills
  OBVIOUS
<1> DEFINE Inv == MachineInv /\ AdviceInv /\ JobInv /\ CleanInv /\ KeptInv /\ CodexInv
<1>1. Init => Inv
  BY MachineStart, AdviceStart, JobStart, CleanStart, KeptStart, CodexStart
<1>2. Inv /\ [Next]_machine => Inv'
  <2> SUFFICES ASSUME Inv, [Next]_machine PROVE Inv'
    OBVIOUS
  <2>1. MachineInv' /\ AdviceInv' /\ JobInv'
    BY MachineSteps, AdviceSteps, JobSteps
  <2>2. Queues /\ Queues'
    BY <2>1 DEF AdviceInv
  <2>3. CleanInv' /\ KeptInv' /\ CodexInv'
    BY <2>1, <2>2, CleanSteps, KeptSteps, CodexSteps
  <2> QED
    BY <2>1, <2>3
<1>3. Inv => CodexKeepsItsSkills
  BY CodexShown
<1> QED
  BY <1>1, <1>2, <1>3, PTL DEF Spec

=============================================================================
