----------------------------- MODULE BugReports -----------------------------
(***************************************************************************)
(* The channel for reports of defects of reviewer itself: report_bug       *)
(* (reviewer/mcp/service.py) offers a report, takes no for an answer and   *)
(* publishes one as an issue of the project's GitHub repository, or as a   *)
(* comment on the issue that already says it (reviewer/bugreport).         *)
(*                                                                         *)
(* A report has a signature and a title; the same defect comes with        *)
(* different titles.  Left out: its text and what the sanitizer takes out  *)
(* of it, the severity, the policy of a repository that cannot be read     *)
(* (the channel stays open), issues that are closed.                       *)
(***************************************************************************)
EXTENDS Integers, Sequences, FiniteSets

CONSTANTS
  Reporter,     \* reviewer-mcp processes
  Signature0,   \* signatures of defects
  Title0,       \* titles; equal stands for an overlap of 0.6
  Foreign,      \* signatures of what triage does not take for our defect
  Open,         \* the processes whose deployment and repository have it on
  ByHand,       \* titles of the issues that are there from the start
  ListLimit,    \* BOUND for 50: the issues that are read, the newest
  SendAttempts, \* retry_attempts
  MaxIssues,    \* BOUND
  MaxCalls,     \* BOUND: the calls of one process
  ReportTrouble \* what may go wrong: see ReportTroubleKind

ReportTroubleKind == {"list_error", "refused", "busy", "busy_but_done", "timeout"}

ASSUME BugAssumption ==
  /\ Foreign \subseteq Signature0 /\ Open \subseteq Reporter
  /\ ByHand \in Seq(Title0) /\ ListLimit \in Nat \ {0}
  /\ SendAttempts \in Nat \ {0} /\ MaxIssues \in Nat /\ MaxCalls \in Nat
  /\ ReportTrouble \subseteq ReportTroubleKind

VARIABLES
  issues,       \* the open issues of the project, the oldest first
  reporter,     \* by process: _bug_offered, _bug_declined and the call in hand
  excused,      \* HISTORY: signatures of which a second issue has a reason
  unwanted      \* HISTORY: signatures that were published after a refusal

channel == <<issues, reporter, excused, unwanted>>

\* signature 0: it was written by hand
Issue(sig, title) == [sig |-> sig, title |-> title]
Quiet == [pc |-> "idle", sig |-> 0, title |-> "", found |-> FALSE, read |-> 0, attempt |-> 1]
NewReporter == [offered |-> {}, declined |-> {}, call |-> Quiet, calls |-> 0]

BugInit ==
  /\ issues = [i \in DOMAIN ByHand |-> Issue(0, ByHand[i])]
  /\ reporter = [p \in Reporter |-> NewReporter]
  /\ excused = {}
  /\ unwanted = {}

-----------------------------------------------------------------------------
(* report_bug.                                                             *)

MayCall(p) == reporter[p].call.pc = "idle" /\ reporter[p].calls < MaxCalls

\* _bug_reports_enabled, and the verdict of triage
Takes(p, sig) == p \in Open /\ sig \notin Foreign

Decline(p, sig) ==
  /\ MayCall(p)
  /\ reporter' = [reporter EXCEPT ![p].declined = @ \cup {sig}, ![p].calls = @ + 1]
  /\ UNCHANGED <<issues, excused, unwanted>>

\* a preview is offered once for a signature, and not after a refusal
Preview(p, sig) ==
  /\ MayCall(p) /\ Takes(p, sig)
  /\ sig \notin reporter[p].declined \cup reporter[p].offered
  /\ reporter' = [reporter EXCEPT ![p].offered = @ \cup {sig}, ![p].calls = @ + 1]
  /\ UNCHANGED <<issues, excused, unwanted>>

\* SEEDED FAULT: a refusal is only looked at before the preview
ConfirmAnyway(p, sig, title) ==
  /\ MayCall(p) /\ Takes(p, sig)
  /\ reporter' = [reporter EXCEPT
       ![p].calls = @ + 1,
       ![p].call = [Quiet EXCEPT !.pc = "search", !.sig = sig, !.title = title]]
  /\ UNCHANGED <<issues, excused, unwanted>>

\* confirmed by a person; without one, and without a token, nothing is sent
Confirm(p, sig, title) ==
  /\ MayCall(p) /\ Takes(p, sig)
  /\ sig \notin reporter[p].declined
  /\ reporter' = [reporter EXCEPT
       ![p].calls = @ + 1,
       ![p].call = [Quiet EXCEPT !.pc = "search", !.sig = sig, !.title = title]]
  /\ UNCHANGED <<issues, excused, unwanted>>

Forget(p) ==
  /\ reporter' = [reporter EXCEPT ![p] = [NewReporter EXCEPT !.calls = reporter[p].calls]]
  /\ UNCHANGED <<issues, excused, unwanted>>

-----------------------------------------------------------------------------
(* publish_report.                                                         *)

\* SEEDED FAULT: by title only
FindDuplicateByTitle(from, sig, title) ==
  \E i \in DOMAIN issues : i >= from /\ issues[i].title = title

\* find_duplicate among the issues from..Len(issues): by signature or by title
FindDuplicate(from, sig, title) ==
  \E i \in DOMAIN issues : i >= from /\ (issues[i].sig = sig \/ issues[i].title = title)

\* without the list the report is published all the same
SearchDuplicate(p) ==
  LET call == reporter[p].call
      from == Len(issues) - ListLimit + 1
  IN  /\ call.pc = "search"
      /\ \/ /\ reporter' = [reporter EXCEPT ![p].call =
                 [call EXCEPT !.pc = "send", !.read = Len(issues),
                              !.found = FindDuplicate(from, call.sig, call.title)]]
            /\ excused' = IF from > 1 THEN excused \cup {call.sig} ELSE excused
         \/ /\ "list_error" \in ReportTrouble
            /\ reporter' = [reporter EXCEPT ![p].call = [call EXCEPT !.pc = "send"]]
            /\ excused' = excused \cup {call.sig}
      /\ UNCHANGED <<issues, unwanted>>

\* what arrives at GitHub: a comment changes no issue here
Arrives(p) ==
  LET call == reporter[p].call
  IN  /\ issues' = IF call.found THEN issues ELSE Append(issues, Issue(call.sig, call.title))
      /\ unwanted' = IF call.sig \in reporter[p].declined THEN unwanted \cup {call.sig} ELSE unwanted
      \* another process published it since the list was read
      /\ excused' = IF \E i \in (call.read + 1)..Len(issues) : issues[i].sig = call.sig
                    THEN excused \cup {call.sig} ELSE excused

Excuse(p) == excused' = excused \cup {reporter[p].call.sig}
Answered(p) == reporter' = [reporter EXCEPT ![p].call = Quiet]
SendAgain(p) ==
  IF reporter[p].call.attempt < SendAttempts
  THEN reporter' = [reporter EXCEPT ![p].call.attempt = @ + 1]
  ELSE Answered(p)

\* the POST: a busy answer is sent again, other failures end in the fallback
Send(p) ==
  /\ reporter[p].call.pc = "send"
  /\ Len(issues) < MaxIssues \/ reporter[p].call.found
  /\ \/ Arrives(p) /\ Answered(p)
     \/ /\ "refused" \in ReportTrouble
        /\ Answered(p) /\ UNCHANGED <<issues, excused, unwanted>>
     \/ /\ "busy" \in ReportTrouble
        /\ SendAgain(p) /\ UNCHANGED <<issues, excused, unwanted>>
     \/ /\ "busy_but_done" \in ReportTrouble
        /\ issues' = IF reporter[p].call.found THEN issues
                     ELSE Append(issues, Issue(reporter[p].call.sig, reporter[p].call.title))
        /\ Excuse(p) /\ SendAgain(p) /\ UNCHANGED unwanted
     \/ /\ "timeout" \in ReportTrouble
        /\ Answered(p)
        /\ Arrives(p) \/ UNCHANGED <<issues, excused, unwanted>>

BugNext ==
  \E p \in Reporter :
    \/ \E sig \in Signature0 : Decline(p, sig) \/ Preview(p, sig)
    \/ \E sig \in Signature0, title \in Title0 : Confirm(p, sig, title)
    \/ SearchDuplicate(p)
    \/ Send(p)
    \/ Forget(p)

-----------------------------------------------------------------------------
(* However often and in whatever words a defect is reported, by however    *)
(* many processes, it has one issue; a second one has a reason that the    *)
(* code cannot see: the list could not be read or was too long, another    *)
(* process was publishing the same, or a gateway lost the answer.  And no  *)
(* process publishes what was declined in it.                              *)
ReportsAreWanted ==
  /\ unwanted = {}
  /\ \A i, j \in DOMAIN issues :
       i # j /\ issues[i].sig = issues[j].sig /\ issues[i].sig # 0 => issues[i].sig \in excused
=============================================================================
