----------------------------- MODULE UsageRunway -----------------------------
(***************************************************************************)
(* The shared budget of a pairing, the usage reports against it and the    *)
(* runway computed from both, on either relay.                             *)
(*                                                                         *)
(* Agents work, and report cumulative totals in requests that may be lost, *)
(* repeated or overtaken by a later one; an agent that restarts counts     *)
(* from zero again.  A report is a row; the relay keeps no running total   *)
(* and computes everything from the rows, in the order of their timestamps *)
(* and, within one, of their insertion.  The relay's clock may be set      *)
(* back.  Tokens and cost go through the same arithmetic: both are meters. *)
(*                                                                         *)
(* The specification has names of its own, so that a module can extend     *)
(* this one and AgentSession.                                              *)
(***************************************************************************)
EXTENDS Integers, Sequences, FiniteSets, Functions

CONSTANTS
    Agent,        \* the members of the pairing
    Meter,        \* tokens and cost
    Places,       \* Places[m]: a rate is rounded to one part in so many
    Amount,       \* what a budget field for a meter may be set to
    Deadline,     \* what the deadline may be set to
    Null, Absent, \* an empty field; one the request leaves out
    MaxWork,      \* bound: steps of work, over all agents
    MaxReports,   \* bound: reports sent
    MaxBudgets,   \* bound: changes of the budget
    MaxRestarts,  \* bound: agents restarting
    MaxClock      \* bound: the relay's clock

ASSUME UsageRunwayAssumption ==
    /\ Places \in [Meter -> Nat \ {0}]
    /\ Amount \subseteq Nat /\ Deadline \subseteq Nat
    /\ Null # Absent /\ {Null, Absent} \cap (Amount \cup Deadline) = {}
    /\ {MaxWork, MaxReports, MaxBudgets, MaxRestarts, MaxClock} \subseteq Nat

VARIABLES
    clock,     \* the relay's, in minutes
    counted,   \* what each agent counts of its own work since it started
    spent,     \* history: what each agent really used
    sent,      \* reports on their way
    reports,   \* rows of usage_reports, by rowid
    budget,    \* the row of budgets; all Null without one
    shown,     \* the runway a live view shows, Null before the first
    effort     \* steps of work, reports, budget changes and restarts so far

usageVars == <<clock, counted, spent, sent, reports, budget, shown, effort>>

Totals == [Meter -> Nat]
Report == [agent : Agent, used : Totals, min : Nat]
Budget == [limit : [Meter -> Amount \cup {Null}], deadline : Deadline \cup {Null}]
BudgetInput == [limit : [Meter -> Amount \cup {Null, Absent}],
                deadline : Deadline \cup {Null, Absent}]

None == [m \in Meter |-> 0]
NoBudget == [limit |-> [m \in Meter |-> Null], deadline |-> Null]

----------------------------------------------------------------------------
\* Seeded defects: each is a plausible slip in the definition it stands in for.

RowsOf(rs, a) == {i \in DOMAIN rs : rs[i].agent = a}
SumsReports(rs, a) ==
    [m \in Meter |-> SumFunctionOnSet([i \in DOMAIN rs |-> rs[i].used[m]], RowsOf(rs, a))]

----------------------------------------------------------------------------
\* foldUsage.  ORDER BY created_at ASC, rowid ASC.

Before(rs, i, j) == rs[i].at < rs[j].at \/ (rs[i].at = rs[j].at /\ i < j)
First(rs, I) == CHOOSE i \in I : \A j \in I \ {i} : Before(rs, i, j)
Last(rs, I) == CHOOSE i \in I : \A j \in I \ {i} : Before(rs, j, i)

\* The latest report of an agent wins outright.
ByAgent(rs, a) == IF RowsOf(rs, a) = {} THEN None ELSE rs[Last(rs, RowsOf(rs, a))].used

Total(rs, m) == SumFunction([a \in Agent |-> ByAgent(rs, a)[m]])

----------------------------------------------------------------------------
\* computeRunway.

Clamp(n) == IF n > 0 THEN n ELSE 0

\* What an agent's last report has over its first, of some quantity.
Delta(rs, a, quantity) ==
    LET I == RowsOf(rs, a) IN
    IF Cardinality(I) < 2 THEN 0 ELSE Clamp(quantity[Last(rs, I)] - quantity[First(rs, I)])

Minute(rs) == [i \in DOMAIN rs |-> rs[i].min]
UsedOf(rs, m) == [i \in DOMAIN rs |-> rs[i].used[m]]

Minutes(rs) == SumFunction([a \in Agent |-> Delta(rs, a, Minute(rs))])
Burnt(rs, m) == SumFunction([a \in Agent |-> Delta(rs, a, UsedOf(rs, m))])

Measured(rs) == Minutes(rs) > 0

\* Per minute, rounded, in parts of Places[m].
Rate(rs, m) ==
    (2 * Places[m] * Burnt(rs, m) + Minutes(rs)) \div (2 * Minutes(rs))

Remaining(rs, b, m) == IF b.limit[m] = Null THEN Null ELSE b.limit[m] - Total(rs, m)

\* Seeded defect: the projection starts from the whole budget, not from what is left.
FromTheStart(rs, b, m, now) ==
    /\ b.limit[m] # Null /\ Measured(rs) /\ Rate(rs, m) > 0
    /\ b.limit[m] * Places[m] < (b.deadline - now) * Rate(rs, m)

\* projectExhaustion gives a time, and that is before the deadline.
RunsOut(rs, b, m, now) ==
    LET left == Remaining(rs, b, m)
        perMin == Rate(rs, m)
    IN  /\ left # Null /\ Measured(rs) /\ perMin > 0
        /\ IF left <= 0 THEN now < b.deadline
           ELSE left * Places[m] < (b.deadline - now) * perMin

OnTrack(rs, b, now) ==
    IF b.deadline = Null THEN "null"
    ELSE IF b.deadline > now /\ \A m \in Meter : ~RunsOut(rs, b, m, now)
         THEN "true" ELSE "false"

Verdict(rs, b, now) ==
    CASE b = NoBudget -> "no budget"
      [] \E m \in Meter : b.limit[m] # Null /\ Remaining(rs, b, m) <= 0 -> "spent"
      [] OTHER ->
            IF b.deadline # Null /\ b.deadline <= now THEN "deadline passed"
            ELSE IF ~Measured(rs) THEN "not enough reports"
            ELSE CASE OnTrack(rs, b, now) = "false" -> "runs out"
                   [] OnTrack(rs, b, now) = "true" -> "will outlast"
                   [] OTHER -> "no deadline"

Runway(rs, b, now) ==
    [left |-> [m \in Meter |-> Remaining(rs, b, m)],
     onTrack |-> OnTrack(rs, b, now), verdict |-> Verdict(rs, b, now)]

----------------------------------------------------------------------------
UsageInit ==
    /\ clock = 0
    /\ counted = [a \in Agent |-> [used |-> None, min |-> 0]]
    /\ spent = [a \in Agent |-> None]
    /\ sent = {} /\ reports = <<>>
    /\ budget = NoBudget
    /\ shown = Null
    /\ effort = [work |-> 0, reports |-> 0, budgets |-> 0, restarts |-> 0]

Spend(what, max) == effort[what] < max /\ effort' = [effort EXCEPT ![what] = @ + 1]

\* A minute of work of one agent.
Work(a, used) ==
    /\ Spend("work", MaxWork)
    /\ counted' = [counted EXCEPT ![a] = [used |-> [m \in Meter |-> @.used[m] + used[m]],
                                         min |-> @.min + 1]]
    /\ spent' = [spent EXCEPT ![a] = [m \in Meter |-> @[m] + used[m]]]
    /\ UNCHANGED <<clock, sent, reports, budget, shown>>

\* The agent's process starts again, and counts from zero.
Restart(a) ==
    /\ Spend("restarts", MaxRestarts)
    /\ counted' = [counted EXCEPT ![a] = [used |-> None, min |-> 0]]
    /\ UNCHANGED <<clock, spent, sent, reports, budget, shown>>

\* report_usage: the totals so far; again after a failure, or an intermediary
\* repeats the request.
Send(a) ==
    /\ Spend("reports", MaxReports)
    /\ sent' = sent \cup {[agent |-> a, used |-> counted[a].used, min |-> counted[a].min,
                           n |-> effort.reports]}
    /\ UNCHANGED <<clock, counted, spent, reports, budget, shown>>

\* The row is inserted, and the runway of that instant goes to the live views.
ReportUsage(r) ==
    /\ r \in sent /\ sent' = sent \ {r}
    /\ reports' = Append(reports, [agent |-> r.agent, used |-> r.used, min |-> r.min,
                                   at |-> clock])
    /\ shown' = Runway(reports', budget, clock)
    /\ UNCHANGED <<clock, counted, spent, budget, effort>>

Lose(r) ==
    /\ r \in sent /\ sent' = sent \ {r}
    /\ UNCHANGED <<clock, counted, spent, reports, budget, shown, effort>>

\* An absent field keeps its value, a null clears it.
Merge(old, new) == IF new = Absent THEN old ELSE new

\* Live views get the budget and not the runway.
SetBudget(input) ==
    /\ Spend("budgets", MaxBudgets)
    /\ budget' = [limit |-> [m \in Meter |-> Merge(budget.limit[m], input.limit[m])],
                  deadline |-> Merge(budget.deadline, input.deadline)]
    /\ UNCHANGED <<clock, counted, spent, sent, reports, shown>>

\* The host's clock, which may be set back.
SetClock(t) ==
    /\ t # clock /\ clock' = t
    /\ UNCHANGED <<counted, spent, sent, reports, budget, shown, effort>>

UsageNext ==
    \/ \E a \in Agent, used \in [Meter -> 0..1] : Work(a, used)
    \/ \E a \in Agent : Restart(a) \/ Send(a)
    \/ \E r \in sent : ReportUsage(r)
    \/ \E r \in sent : Lose(r)
    \/ \E input \in BudgetInput : SetBudget(input)
    \/ \E t \in 0..MaxClock : SetClock(t)

UsageSpec == UsageInit /\ [][UsageNext]_usageVars

----------------------------------------------------------------------------
\* Lost, repeated and overtaken reports, restarts and clock changes never make
\* the relay claim work that was not done: no agent's usage exceeds what it
\* really used, and no agent's burn is negative or more than that.
CountsAreReal ==
    \A a \in Agent, m \in Meter :
        /\ ByAgent(reports, a)[m] <= spent[a][m]
        /\ Delta(reports, a, UsedOf(reports, m)) \in 0..spent[a][m]

\* What the relay says of the budget bears on the work.  A budget it calls spent was
\* really spent, whatever became of the reports.  And the verdict agrees with the
\* slope of the rows it is drawn from: with the burn going on as measured, a budget
\* said to outlast the deadline does, and one said to run out does not, except for
\* what the rounding of the rate may hide (half a part, over the time left).
VerdictIsFair ==
    LET now == clock
        verdict == Verdict(reports, budget, now)
        limited == {m \in Meter : budget.limit[m] # Null}
        left(m) == budget.limit[m] - Total(reports, m)
        time == budget.deadline - now
        \* left against burn * time, both in half parts per minute measured
        have(m) == 2 * Places[m] * left(m) * Minutes(reports)
        need(m, slack) == time * (2 * Places[m] * Burnt(reports, m) + slack)
    IN  /\ verdict = "spent" =>
               \E m \in limited : SumFunction([a \in Agent |-> spent[a][m]]) >= budget.limit[m]
        /\ verdict = "will outlast" =>
               time > 0 /\ \A m \in limited : have(m) >= need(m, -Minutes(reports))
        /\ verdict = "runs out" =>
               time > 0 /\ \E m \in limited : have(m) < need(m, Minutes(reports))

----------------------------------------------------------------------------
\* What the documentation says and the runway does not always do.

\* PROTOCOL.md: a duplicated report is harmless; the usage shown for an agent
\* that keeps running never goes back.
NeverForgets ==
    [][\A a \in Agent, m \in Meter : ByAgent(reports', a)[m] >= ByAgent(reports, a)[m]]_reports

\* A budget that is spent is not on track.
SpentIsNotOnTrack ==
    LET r == Runway(reports, budget, clock) IN r.verdict = "spent" => r.onTrack # "true"

\* The runway of a live view is about the budget as it stands.
ShownMatchesBudget ==
    shown # Null => \A m \in Meter : (shown.left[m] = Null) = (budget.limit[m] = Null)
=============================================================================
