--------------------------- MODULE ReviewPublish ---------------------------
(***************************************************************************)
(* One pull request is reviewed, and reviewed again: findings and verdicts *)
(* are submitted to the session, published to GitHub or GitLab and written *)
(* to the history (reviewer/mcp/service.py, vcs/github.py, vcs/gitlab.py,  *)
(* vcs/_http.py, agent/outcomes.py).                                       *)
(*                                                                         *)
(* The client is one AI agent with its subagents: analysts submit          *)
(* findings, a verifier reads the candidates and submits verdicts, in any  *)
(* order.  The server's memory is lost in a crash; the persisted session   *)
(* brings the review back without candidates and verdicts.                 *)
(*                                                                         *)
(* The head of the pull request does not move: a finding that is reported  *)
(* again has the line and the quotation it had before.  Left out: the      *)
(* overlay and the life of the session (ReviewSessions), the texts of      *)
(* comments except for the fingerprint each carries, walkthroughs, the     *)
(* link to the task graph.                                                 *)
(***************************************************************************)
EXTENDS FindingPipeline

CONSTANTS
  Settings,     \* deployments: see SettingOK
  Attempts      \* retry_attempts: how often _RetryTransport sends a request

PublishTrouble == {"crash",
  "list_error",       \* the comments of the PR cannot be read
  "refused",          \* a 4xx answer
  "busy",             \* 429, 502, 503 or 504, and nothing was done
  "busy_but_done",    \* a gateway's 502 or 504 though the write was done
  "timeout",          \* no answer: the write was done, or was not
  "no_history"}       \* the history is off, or cannot be written

\* the provider, the findings that analysts may submit, how many of them in
\* one session (BOUND), how far the comments with one fingerprint are counted
\* (BOUND), how many sessions there are (BOUND), and what may go wrong
SettingOK(s) ==
  /\ s.vcs \in {"github", "gitlab"}
  /\ s.pool \subseteq Finding
  /\ s.candidates \in Nat /\ s.count \in Nat \ {0} /\ s.sessions \in Nat
  /\ s.trouble \subseteq PublishTrouble

ASSUME PublishAssumption ==
  /\ Attempts \in Nat \ {0}
  /\ \A s \in Settings : SettingOK(s)

VARIABLES
  setting,      \* the deployment; it does not change
  session,      \* _Session of the pull request: candidates and verdicts
  row,          \* whether review_sessions holds the prepared review
  read,         \* the candidate that the verifier is at, as it read it
  work,         \* the publish_review in progress
  comments,     \* how often each fingerprint is on the PR, by place
  history,      \* what runs, dry ones or not, were recorded to have published
  runs          \* how many sessions there were

publishing == <<setting, session, row, read, work, comments, history, runs>>

Vcs == setting.vcs
Pool == setting.pool
MaxCandidates == setting.candidates
MaxCount == setting.count
MaxRuns == setting.sessions
Can(kind) == kind \in setting.trouble

Place == {"inline", "body"}
Fresh0 == [there |-> TRUE, cands |-> <<>>, rejected |-> {}]
Nothing == [id |-> 0]
Unprepared == [there |-> FALSE, cands |-> <<>>, rejected |-> {}]
NoWork == [pc |-> "idle", dry |-> FALSE, existing |-> {}, inline |-> {},
           body |-> {}, attempt |-> 1, status |-> "ok"]

PublishTypeOK ==
  /\ setting \in Settings
  /\ session.there \in BOOLEAN
  /\ session.cands \in Seq(Pool) /\ Len(session.cands) <= MaxCandidates
  /\ session.rejected \subseteq DOMAIN session.cands
  /\ row \in BOOLEAN
  /\ read \in {Nothing} \cup [id: 1..MaxCandidates, f: Pool]
  /\ work.pc \in {"idle", "list", "get", "post", "note", "record", "cleanup"}
  /\ work.existing \subseteq Fingerprints
  /\ work.inline \cup work.body \subseteq 1..MaxCandidates
  /\ work.attempt \in 1..Attempts
  /\ work.status \in {"ok", "error"}
  /\ comments \in [Place -> [Fingerprints -> 0..MaxCount]]
  /\ history \subseteq [fp: Fingerprints, dry: BOOLEAN]
  /\ runs \in 0..MaxRuns

PublishInit ==
  /\ setting \in Settings
  /\ session = Unprepared
  /\ row = FALSE
  /\ read = Nothing
  /\ work = NoWork
  /\ comments = [pl \in Place |-> [fp \in Fingerprints |-> 0]]
  /\ history = {}
  /\ runs = 0

NotPublishing == work.pc = "idle"

-----------------------------------------------------------------------------
(* The session.                                                            *)

\* prepare_review; what a verifier read of an earlier review is forgotten
PrepareReview ==
  /\ NotPublishing /\ runs < MaxRuns
  /\ session' = Fresh0
  /\ row' = TRUE
  /\ read' = Nothing
  /\ runs' = runs + 1
  /\ UNCHANGED <<setting, work, comments, history>>

\* _session: from memory, or brought back empty from the row
Found == session.there \/ row
Current == IF session.there THEN session ELSE Fresh0

\* submit_findings: candidate n gets the id f<n>
Submit(fs) ==
  /\ NotPublishing /\ Found
  /\ Len(Current.cands) <= MaxCandidates - Len(fs)
  /\ session' = [Current EXCEPT !.cands = @ \o fs]
  /\ UNCHANGED <<setting, row, read, work, comments, history, runs>>

\* get_candidate_findings, and which of them the verifier looks into
ReadCandidate(i) ==
  /\ NotPublishing /\ Found
  /\ session' = Current
  /\ i \in DOMAIN Current.cands
  /\ read' = [id |-> i, f |-> Current.cands[i]]
  /\ UNCHANGED <<setting, row, work, comments, history, runs>>

\* submit_verdicts: an id that the session does not know is ignored; a later
\* verdict replaces an earlier one, and no verdict counts as "real"
SubmitVerdict(real) ==
  /\ NotPublishing /\ Found
  /\ read # Nothing
  /\ session' = IF read.id \notin DOMAIN Current.cands THEN Current
                ELSE [Current EXCEPT !.rejected =
                        IF real THEN @ \ {read.id} ELSE @ \cup {read.id}]
  /\ read' = Nothing
  /\ UNCHANGED <<setting, row, work, comments, history, runs>>

-----------------------------------------------------------------------------
(* publish_review.                                                         *)

\* the line of every finding that is left is grounded
NotRejected == DOMAIN session.cands \ session.rejected
Cands == [i \in DOMAIN session.cands |->
            IF i \in NotRejected THEN Located(session.cands[i]) ELSE session.cands[i]]
Kept == {i \in NotRejected : Gate(Cands[i])}
Left == Dedup(Cands, Kept)
Deduped == DOMAIN Left
Fp(i) == Fingerprint(Cands[i])

PublishReview(dry) ==
  /\ NotPublishing /\ Found
  /\ session' = Current
  /\ work' = [NoWork EXCEPT !.pc = "list", !.dry = dry]
  /\ UNCHANGED <<setting, row, read, comments, history, runs>>

\* list_existing_fingerprints: GitHub lists the review comments of the PR,
\* not the bodies of reviews; GitLab lists all notes
Visible ==
  {fp \in Fingerprints :
     \/ comments["inline"][fp] > 0
     \/ Vcs = "gitlab" /\ comments["body"][fp] > 0}

Assembled(existing) == Assemble(Cands, Kept, Left, existing)

List ==
  /\ work.pc = "list"
  /\ \E existing \in {Visible} \cup (IF Can("list_error") THEN {{}} ELSE {}) :
       LET asm == Assembled(existing) IN
       work' = [work EXCEPT
         !.existing = existing,
         !.inline = asm.inline,
         !.body = asm.body,
         !.pc = IF work.dry THEN "record"
                ELSE IF Vcs = "github" THEN "note"
                ELSE IF asm.inline # {} THEN "get" ELSE "note"]
  /\ UNCHANGED <<setting, session, row, read, comments, history, runs>>

\* what a request leaves on the PR
Counted(n) == IF n > MaxCount THEN MaxCount ELSE n
Puts(inline, body) ==
  /\ comments' = [comments EXCEPT
       !["inline"] = [fp \in Fingerprints |->
          Counted(@[fp] + Cardinality({i \in inline : Fp(i) = fp}))],
       !["body"] = [fp \in Fingerprints |->
          Counted(@[fp] + Cardinality({i \in body : Fp(i) = fp}))]]

\* One attempt at a POST of these comments; _RetryTransport sends it again
\* after a "busy" answer, whether the write was done or not.
Retry ==
  /\ work.attempt < Attempts
  /\ work' = [work EXCEPT !.attempt = @ + 1]
Post(inline, body, succeeded, failed, broken) ==
  \/ Puts(inline, body) /\ work' = succeeded
  \/ Can("refused") /\ UNCHANGED comments /\ work' = failed
  \/ /\ Can("busy") /\ UNCHANGED comments
     /\ Retry \/ (work.attempt = Attempts /\ work' = failed)
  \/ /\ Can("busy_but_done") /\ Puts(inline, body)
     /\ Retry \/ (work.attempt = Attempts /\ work' = failed)
  \/ /\ Can("timeout") /\ work' = broken
     /\ Puts(inline, body) \/ UNCHANGED comments

Failed == [work EXCEPT !.pc = "record", !.status = "error", !.attempt = 1]
Succeeded(pc) == [work EXCEPT !.pc = pc, !.attempt = 1]

\* GitLab: diff_refs and the changed files are read first
GetDiff ==
  /\ work.pc = "get"
  /\ \/ work' = [work EXCEPT !.pc = "post"]
     \/ (Can("refused") \/ Can("busy") \/ Can("timeout")) /\ work' = Failed
  /\ UNCHANGED <<setting, session, row, read, comments, history, runs>>

\* GitLab: one discussion for each comment, in order; one that is refused is
\* passed over
PostDiscussion ==
  /\ work.pc = "post"
  /\ \E i \in work.inline :
       LET rest == work.inline \ {i}
           next == [Succeeded(IF rest = {} THEN "note" ELSE "post") EXCEPT !.inline = rest]
       IN  /\ \A j \in rest : Ahead(Cands, Kept, i, j)
           /\ Post({i}, {}, next, next, Failed)
  /\ UNCHANGED <<setting, session, row, read, history, runs>>

\* GitHub: the whole review is one request.  GitLab: the summary comes last.
PostReview ==
  /\ work.pc = "note"
  /\ Post(IF Vcs = "github" THEN work.inline ELSE {}, work.body,
          Succeeded("record"), Failed, Failed)
  /\ UNCHANGED <<setting, session, row, read, history, runs>>

-----------------------------------------------------------------------------
(* account_outcomes, _record_history, _cleanup.                            *)

Outcome(i) ==
  LET asm == Assembled(work.existing) IN
  CASE i \in session.rejected -> "verify_rejected"
    [] i \in NotRejected \ Kept -> "gate_dropped"
    [] i \in Kept \ Deduped -> "deduped"
    [] i \in Deduped /\ Fp(i) \in work.existing -> "already_posted"
    [] i \in asm.inline -> "published_inline"
    [] OTHER -> "published_summary"

\* seeded fault: a failed run keeps its published flags
RowsAsPlanned ==
  {[fp |-> Fp(i), outcome |-> Outcome(i),
    published |-> Outcome(i) \in {"published_inline", "published_summary"}]
   : i \in DOMAIN Cands}

Rows ==
  {[fp |-> Fp(i), outcome |-> Outcome(i),
    published |-> /\ work.status = "ok"
                  /\ Outcome(i) \in {"published_inline", "published_summary"}]
   : i \in DOMAIN Cands}

\* A dry run is recorded like one that published; the run has dry_run beside
\* its rows.  That there is no history is passed over.
Record ==
  /\ work.pc = "record"
  /\ \/ history' = history \cup {[fp |-> r.fp, dry |-> work.dry]
                                 : r \in {q \in Rows : q.published}}
     \/ Can("no_history") /\ UNCHANGED history
  /\ work' = [work EXCEPT !.pc = "cleanup"]
  /\ UNCHANGED <<setting, session, row, read, comments, runs>>

\* whatever became of the publication, the session is over
Cleanup ==
  /\ work.pc = "cleanup"
  /\ session' = Unprepared
  /\ row' = FALSE
  /\ work' = NoWork
  /\ read' = Nothing
  /\ UNCHANGED <<setting, comments, history, runs>>

ServerDies ==
  /\ Can("crash")
  /\ session' = Unprepared
  /\ work' = NoWork
  /\ UNCHANGED <<setting, row, read, comments, history, runs>>

PublishNext ==
  \/ PrepareReview
  \/ \E f \in Pool : Submit(<<f>>)
  \/ \E f, g \in Pool : Submit(<<f, g>>)
  \/ \E i \in 1..MaxCandidates : ReadCandidate(i)
  \/ \E real \in BOOLEAN : SubmitVerdict(real)
  \/ \E dry \in BOOLEAN : PublishReview(dry)
  \/ List \/ GetDiff \/ PostDiscussion \/ PostReview \/ Record \/ Cleanup
  \/ ServerDies

PublishSpec == PublishInit /\ [][PublishNext]_publishing

-----------------------------------------------------------------------------
(* Properties.                                                             *)

(* A finding that is on the PR is not put there again, by a later review,  *)
(* by a repetition after a failure or after a crash (README, Idempotency). *)
NothingPostedTwice ==
  \A fp \in Fingerprints : comments["inline"][fp] + comments["body"][fp] <= 1

\* No analyst names a line past the end of the file: assemble_review makes
\* such a line none, after deduplication, and two of them then say the same.
NoLineInvented == \A f \in Pool : f.line <= FileLines

(* On GitLab, where all notes are listed before anything is posted, that   *)
(* is so though discussions are posted one by one and some are refused,    *)
(* as long as the notes can be read, no gateway answers with an error what *)
(* it carried out, and no line is made up.                                 *)
GitLabPostsOnce ==
  /\ Vcs = "gitlab" /\ NoLineInvented
  /\ ~Can("busy_but_done") /\ ~Can("list_error")
  => NothingPostedTwice

\* GitHub takes a review in one request; GitLab passes over a discussion that
\* is refused, for good or when its attempts are used up.
WholeOrNothing == Vcs = "github" \/ ~(Can("refused") \/ Can("busy"))

(* Every finding that the verifier did not reject and the policy let pass  *)
(* is said on the PR when publish_review reports success, whatever was     *)
(* deduplicated, capped, off the diff or there already.                    *)
NothingKeptIsLost ==
  /\ WholeOrNothing
  /\ work.pc \in {"record", "cleanup"} /\ work.status = "ok" /\ ~work.dry
  => \A i \in Kept : \E line \in 0..FileLines, pl \in Place :
       comments[pl][<<line, Cands[i].msg>>] > 0

(* A finding that the history has as published is on the PR, unless the    *)
(* run was a dry one: its rows say published as well, though nothing was   *)
(* posted, and only the dry_run of the run tells them apart.  A run that   *)
(* failed to publish has none (_record_history).                           *)
PublishedIsThere ==
  WholeOrNothing =>
    \A h \in history : ~h.dry => \E pl \in Place : comments[pl][h.fp] > 0

(* Where the inline comments of a review stand: a provider refuses a whole *)
(* review for one that is off the diff.  A suggestion that can be applied  *)
(* replaces lines of the diff that no other one of the review replaces.    *)
(* Any other comment is on a line of the diff and, if it quotes a text of  *)
(* the file, on a line with that text, whatever line the model named and   *)
(* however far the diff is from there.                                     *)
CommentsAreOnTarget ==
  LET applied == Assembled(work.existing).applied
      fix == Left
  IN  \A i \in work.inline :
        \/ /\ i \in applied
           /\ Span(fix[i]) # {} /\ Span(fix[i]) \subseteq Commentable
           /\ \A j \in applied \ {i} : Span(fix[i]) \cap Span(fix[j]) = {}
        \/ /\ i \notin applied
           /\ SaneLine(Cands[i]) \in Commentable
           /\ Cands[i].quote /\ QuoteLines # {} => Cands[i].line \in QuoteLines

(* Deduplication leaves no two findings that it would call the same, and   *)
(* for each one dropped keeps one with the text that ranks no lower, and   *)
(* that has a fix if the one dropped had.                                  *)
DedupIsSound ==
  LET c == Cands
      left == Left
      D == DOMAIN left
  IN  /\ D \subseteq Kept
      /\ \A i, j \in D : (i # j /\ c[i].msg = c[j].msg) => ~Near(c, i, j)
      /\ \A i \in Kept : \E j \in D :
           /\ c[j].msg = c[i].msg /\ c[j].rank >= c[i].rank
           /\ c[i].fix # NoFix => left[j] # NoFix
=============================================================================
