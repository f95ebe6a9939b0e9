------------------------------- MODULE Checks -------------------------------
(* Checks made in a fixed order: lists of which the first that applies         *)
(* decides, and reports whose checks run only when those they need passed.     *)
EXTENDS Integers, SequencesExt

\* A list: a function on the numbers from 1 to its length.
IsSeq(s) == Len(s) \in Nat /\ s = [i \in 1 .. Len(s) |-> s[i]]

\* A check: when it applies, and what it answers then.
When(applies, answer) == [applies |-> applies, answer |-> answer]

\* The answer of the first check that applies, or `otherwise`.
Decide(checks, otherwise) ==
  LET applying == {i \in DOMAIN checks : checks[i].applies}
  IN  IF applying = {} THEN otherwise ELSE checks[Min(applying)].answer

\* A check of a report: its name, the checks it needs, and the line it writes
\* when it runs.
Check(id, needs, status) == [id |-> id, needs |-> needs, status |-> status]

\* The line a check writes behind the lines before it.  One that needs a check
\* that did not pass is not checked, and passes no more than one that failed.
LineOf(c, lines) ==
  LET passed == {lines[i].id : i \in {j \in DOMAIN lines : lines[j].ok}}
      runs == c.needs \subseteq passed
  IN  [id |-> c.id, status |-> IF runs THEN c.status ELSE "NOT CHECKED", ok |-> runs /\ c.status # "FAIL"]

\* The lines of a report: each check writes its own behind those so far.
Report(checks) ==
  LET lines[n \in 0 .. Len(checks)] ==
        IF n = 0 THEN <<>> ELSE LET before == lines[n - 1] IN Append(before, LineOf(checks[n], before))
  IN  lines[Len(checks)]

Lines(report, status) == {report[i].id : i \in {j \in DOMAIN report : report[j].status = status}}
=============================================================================
