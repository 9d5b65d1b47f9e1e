----------------------------- MODULE CoreRules ------------------------------
(***************************************************************************)
(* The scoring rules of src/core.  Signals of drift accumulate while an    *)
(* agent works; scoreDrift turns them into a score, a band and the order   *)
(* to pause, and assessRisk decides about an action in the light of it.    *)
(***************************************************************************)
EXTENDS Integers, FiniteSets

CONSTANTS
    Actions,   \* risk inputs, the drift score left out
    Most,      \* bound: how often each kind of signal is observed
    Spendings  \* bound: spending in percent of its envelope

\* What assessRisk reads of an action; "forbidden" stands for the tools the
\* policy blocks whatever the score.
RiskInputs == [inScope : BOOLEAN, forbidden : BOOLEAN, production : BOOLEAN,
               reversible : BOOLEAN, impact : Nat, records : Nat, minutes : Nat,
               retries : Nat]

Counters == {"outOfScope", "noImprovement", "retryLoop", "contradiction",
             "rejected", "highRisk"}
Ratios   == {"cost", "tokens"}

ASSUME RulesAssumption ==
    /\ Most \in [Counters -> Nat] /\ Spendings \subseteq Nat
    /\ Actions \subseteq RiskInputs

VARIABLES
    count,  \* signals observed of each kind
    spent,  \* cost and tokens in percent of what the task was given
    stale   \* the evidence is stale

vars == <<count, spent, stale>>

Init ==
    /\ count = [c \in Counters |-> 0]
    /\ spent = [r \in Ratios |-> 0]
    /\ stale = FALSE

-----------------------------------------------------------------------------
(* scoreDrift. *)

AtMostBug(limit, n) == IF n < limit \/ limit = 100 THEN n ELSE limit
AtMost(limit, n) == IF n < limit THEN n ELSE limit

\* Weight of a signal that was observed n times, and what its kind may add.
WeightedBug(c, n) ==
    CASE c = "outOfScope"    -> 15 * n
      [] c = "noImprovement" -> AtMost(25, 10 * n)
      [] c = "retryLoop"     -> IF n >= 2 THEN AtMost(20, 5 * n) ELSE 0
      [] c = "contradiction" -> AtMost(25, 12 * n)
      [] c = "rejected"      -> AtMost(18, 6 * n)
      [] c = "highRisk"      -> IF n >= 2 THEN AtMost(25, 8 * n) ELSE 0
Weighted(c, n) ==
    CASE c = "outOfScope"    -> AtMost(30, 15 * n)
      [] c = "noImprovement" -> AtMost(25, 10 * n)
      [] c = "retryLoop"     -> IF n >= 2 THEN AtMost(20, 5 * n) ELSE 0
      [] c = "contradiction" -> AtMost(25, 12 * n)
      [] c = "rejected"      -> AtMost(18, 6 * n)
      [] c = "highRisk"      -> IF n >= 2 THEN AtMost(25, 8 * n) ELSE 0

\* A twentieth of the envelope beyond it is a point, rounded half up.
OverspentBug(p) == IF p > 100 /\ p <= 200 THEN (2 * (p - 100) + 5) \div 10 ELSE 0
Overspent(p) == IF p > 100 THEN AtMost(20, (2 * (p - 100) + 5) \div 10) ELSE 0

Score ==
    AtMost(100, Weighted("outOfScope", count.outOfScope)
              + Weighted("noImprovement", count.noImprovement)
              + Weighted("retryLoop", count.retryLoop)
              + Overspent(spent.cost) + Overspent(spent.tokens)
              + (IF stale THEN 15 ELSE 0)
              + Weighted("contradiction", count.contradiction)
              + Weighted("rejected", count.rejected)
              + Weighted("highRisk", count.highRisk))

\* The kinds of signal reported with the score.
Evidence ==
    {c \in Counters : count[c] >= IF c \in {"retryLoop", "highRisk"} THEN 2 ELSE 1}
      \cup {r \in Ratios : spent[r] > 100}
      \cup (IF stale THEN {"stale"} ELSE {})

Band(score) ==
    CASE score >= 85 -> "critical"
      [] score >= 70 /\ score < 85 -> "warning"
      [] score >= 40 /\ score < 70 -> "watch"
      [] score < 40 -> "normal"

AutoPause(score) == score >= 85

DriftResults == [score : 0..100, band : {"normal", "watch", "warning", "critical"},
                 autoPause : BOOLEAN, evidence : SUBSET (Counters \cup Ratios \cup {"stale"})]

scoreDrift == [score |-> Score, band |-> Band(Score), autoPause |-> AutoPause(Score),
               evidence |-> Evidence]

-----------------------------------------------------------------------------
(* assessRisk. *)

If(condition, points) == IF condition THEN points ELSE 0

DriftedLateBug(drift) == drift > 70
DriftedBug(drift) == drift >= 70 /\ drift < 85
Drifted(drift) == drift >= 70

Risk(a, drift) ==
    AtMost(100, If(~a.inScope, 55) + If(a.production, 24) + If(~a.reversible, 18)
              + If(a.impact > 200, 28) + If(a.records > 5, 18) + If(a.minutes > 30, 15)
              + If(Drifted(drift), 25) + If(a.retries >= 2, 12))

Gated(risk) == risk >= 55

RiskResults == [score : 0..100, decision : {"allow", "require_approval", "block"}]

\* A tool that is forbidden has the highest score.
Decision(a, drift) ==
    IF a.forbidden \/ ~a.inScope THEN "block"
    ELSE IF Gated(Risk(a, drift)) THEN "require_approval" ELSE "allow"

assessRisk(a, drift) ==
    [score |-> IF a.forbidden THEN 100 ELSE Risk(a, drift), decision |-> Decision(a, drift)]

-----------------------------------------------------------------------------
(* An agent at work. *)

Observe(c) ==
    /\ count[c] < Most[c]
    /\ count' = [count EXCEPT ![c] = @ + 1]
    /\ UNCHANGED <<spent, stale>>

Spend(r) ==
    /\ \E p \in Spendings : p > spent[r] /\ spent' = [spent EXCEPT ![r] = p]
    /\ UNCHANGED <<count, stale>>

GoStale ==
    /\ ~stale /\ stale' = TRUE
    /\ UNCHANGED <<count, spent>>

Next ==
    \/ \E c \in Counters : Observe(c)
    \/ \E r \in Ratios : Spend(r)
    \/ GoStale

Spec == Init /\ [][Next]_vars

-----------------------------------------------------------------------------
(* Correctness. *)

\* The results are of their types: scores from 0 to 100 with a band for each.
TypeOK ==
    /\ count \in [Counters -> Nat] /\ spent \in [Ratios -> Nat] /\ stale \in BOOLEAN
    /\ scoreDrift \in DriftResults
    /\ \A a \in Actions : assessRisk(a, Score) \in RiskResults

\* The caps and the thresholds together: however extreme one kind of signal is,
\* it takes two kinds to be watched, three for a warning and four to be paused.
Corroborated ==
    /\ Score >= 40 => Cardinality(Evidence) >= 2
    /\ Score >= 70 => Cardinality(Evidence) >= 3
    /\ AutoPause(Score) => Cardinality(Evidence) >= 4

\* More signals never make an agent look better: caps, rounding and thresholds
\* keep the order, so a pause that is due is not withdrawn by further misconduct.
DriftGrows == [][Score <= Score' /\ Evidence \subseteq Evidence']_vars

Strictness(d) == CASE d = "allow" -> 0 [] d = "require_approval" -> 1 [] d = "block" -> 2

\* Nor do they relax the decision about any action.
DecisionHolds ==
    [][\A a \in Actions : Strictness(Decision(a, Score)) <= Strictness(Decision(a, Score'))]_vars

\* An agent at the warning threshold acts in production only with approval as
\* soon as one more thing speaks against the action.
DriftedNeedsApproval ==
    Band(Score) \in {"warning", "critical"} =>
        \A a \in Actions :
            a.production /\ (~a.reversible \/ a.impact > 200 \/ a.records > 5
                             \/ a.minutes > 30 \/ a.retries >= 2)
            => Decision(a, Score) # "allow"
=============================================================================
