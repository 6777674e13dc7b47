------------------------------ MODULE Metrics ------------------------------
(***************************************************************************)
(* The reference metrics of a set of commits and the week they are about.  *)
(* Time counts in hours from the epoch, which was a Thursday.              *)
(***************************************************************************)
EXTENDS Integers, FiniteSets

Day == 24
Week == 7 * Day
Offset == 7         \* Asia/Ho_Chi_Minh, all the year

\* getUTCDay: 0 is Sunday.
WeekDay(hour) == (4 + hour \div Day) % 7

WeekOfWithSundayAhead(hour) ==                                         \* mutant
    LET local == hour + Offset
        start == (local \div Day - (WeekDay(local) - 1)) * Day - Offset
    IN  [start |-> start, end |-> start + Week]

\* weekWindowAsiaHoChiMinh: from Monday 00:00, local time, for seven days.
WeekOf(hour) ==
    LET local == hour + Offset
        daysFromMonday == (WeekDay(local) + 6) % 7
        start == (local \div Day - daysFromMonday) * Day - Offset
    IN  [start |-> start, end |-> start + Week]

Within(hour, window) == window.start <= hour /\ hour < window.end

\* A commit: its key (instance, project and sha), when it was authored, and
\* what the expressions of ai-tag.ts and commit-frequency.ts find in it.
CommitKinds == {"plain", "ai", "merge", "bot"}

IsExcluded(c) == c.kind \in {"merge", "bot"}

CommitFrequency(commits, window) ==
    Cardinality({c.key : c \in {d \in commits : Within(d.at, window) /\ ~IsExcluded(d)}})

AiAssisted(commits) == Cardinality({c.key : c \in {d \in commits : d.kind = "ai"}})

\* calculateReferenceMetrics: the week is that of the moment it is given.
ReferenceMetrics(commits, moment) ==
    LET window == WeekOf(moment)
        inWindow == {c \in commits : Within(c.at, window)}
    IN  [commit_frequency |-> CommitFrequency(commits, window),
         ai_assisted_commits |-> AiAssisted(inWindow)]
=============================================================================
