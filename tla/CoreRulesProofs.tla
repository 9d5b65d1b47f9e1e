-------------------------- MODULE CoreRulesProofs ---------------------------
(***************************************************************************)
(* Theorems of CoreRules, for any actions, any spending and any number of  *)
(* observed signals.                                                       *)
(***************************************************************************)
EXTENDS CoreRules, FiniteSetTheorems, TLAPS

\* What an agent may have done: the part of TypeOK the others follow from.
Observed ==
    /\ count \in [Counters -> Nat] /\ spent \in [Ratios -> Nat] /\ stale \in BOOLEAN

\* The signals only accumulate.
Accumulates ==
    /\ \A c \in Counters : count[c] <= count'[c]
    /\ \A r \in Ratios : spent[r] <= spent'[r]
    /\ stale => stale'

-----------------------------------------------------------------------------
(* Points. *)

\* A cap keeps the order.
LEMMA AtMostGrows ==
    ASSUME NEW l \in Nat, NEW m \in Nat, NEW n \in Nat, m <= n
    PROVE  /\ AtMost(l, m) \in Nat /\ AtMost(l, n) \in Nat
           /\ AtMost(l, m) <= AtMost(l, n) /\ AtMost(l, n) <= l
  BY DEF AtMost

\* More signals of a kind never weigh less.
LEMMA WeightedGrows ==
    ASSUME NEW c \in Counters, NEW m \in Nat, NEW n \in Nat, m <= n
    PROVE  Weighted(c, m) \in Nat /\ Weighted(c, n) \in Nat /\ Weighted(c, m) <= Weighted(c, n)
<1>1. CASE c = "outOfScope"
  BY <1>1 DEF Weighted, AtMost
<1>2. CASE c = "noImprovement"
  BY <1>2 DEF Weighted, AtMost
<1>3. CASE c = "retryLoop"
  BY <1>3 DEF Weighted, AtMost
<1>4. CASE c = "contradiction"
  BY <1>4 DEF Weighted, AtMost
<1>5. CASE c = "rejected"
  BY <1>5 DEF Weighted, AtMost
<1>6. CASE c = "highRisk"
  BY <1>6 DEF Weighted, AtMost
<1> QED BY <1>1, <1>2, <1>3, <1>4, <1>5, <1>6 DEF Counters

\* Nor does more spending: the rounding keeps the order.
LEMMA OverspentGrows ==
    ASSUME NEW p \in Nat, NEW q \in Nat, p <= q
    PROVE  Overspent(p) \in Nat /\ Overspent(q) \in Nat /\ Overspent(p) <= Overspent(q)
<1>1. CASE p <= 100
  <2>1. Overspent(p) = 0
    BY <1>1 DEF Overspent
  <2>2. Overspent(q) \in Nat
    BY DEF Overspent, AtMost
  <2> QED BY <2>1, <2>2
<1>2. CASE p > 100
  <2>1. /\ (2 * (p - 100) + 5) \div 10 \in Nat /\ (2 * (q - 100) + 5) \div 10 \in Nat
        /\ (2 * (p - 100) + 5) \div 10 <= (2 * (q - 100) + 5) \div 10
    BY <1>2
  <2> QED BY <1>2, <2>1, AtMostGrows DEF Overspent
<1> QED BY <1>1, <1>2

\* The points before the last cap.
Points ==
    Weighted("outOfScope", count.outOfScope)
      + Weighted("noImprovement", count.noImprovement)
      + Weighted("retryLoop", count.retryLoop)
      + Overspent(spent.cost) + Overspent(spent.tokens)
      + (IF stale THEN 15 ELSE 0)
      + Weighted("contradiction", count.contradiction)
      + Weighted("rejected", count.rejected)
      + Weighted("highRisk", count.highRisk)

\* The terms of the sum are numbers.
LEMMA Terms ==
    ASSUME Observed
    PROVE  /\ \A c \in Counters : Weighted(c, count[c]) \in Nat
           /\ \A r \in Ratios : Overspent(spent[r]) \in Nat
           /\ (IF stale THEN 15 ELSE 0) \in Nat
<1>1. ASSUME NEW c \in Counters PROVE Weighted(c, count[c]) \in Nat
  <2>1. count[c] \in Nat /\ count[c] <= count[c]
    BY DEF Observed
  <2> QED BY <2>1, WeightedGrows
<1>2. ASSUME NEW r \in Ratios PROVE Overspent(spent[r]) \in Nat
  <2>1. spent[r] \in Nat /\ spent[r] <= spent[r]
    BY DEF Observed
  <2> QED BY <2>1, OverspentGrows
<1> QED BY <1>1, <1>2

\* A score is between 0 and 100.
LEMMA ScoreRange ==
    ASSUME Observed PROVE Points \in Nat /\ Score \in 0..100
<1>1. Points \in Nat
  BY Terms DEF Points, Counters, Ratios
<1>2. Score = AtMost(100, Points)
  BY DEF Score, Points
<1> QED BY <1>1, <1>2 DEF AtMost

\* Each score has one band.
LEMMA BandRange ==
    ASSUME NEW s \in 0..100
    PROVE  /\ Band(s) \in {"normal", "watch", "warning", "critical"}
           /\ Band(s) \in {"warning", "critical"} => s >= 70
<1>1. CASE s >= 85
  BY <1>1 DEF Band
<1>2. CASE s >= 70 /\ s < 85
  BY <1>2 DEF Band
<1>3. CASE s >= 40 /\ s < 70
  BY <1>3 DEF Band
<1>4. CASE s < 40
  BY <1>4 DEF Band
<1> QED BY <1>1, <1>2, <1>3, <1>4

\* The points of an action before its cap.
RiskPoints(a, drift) ==
    If(~a.inScope, 55) + If(a.production, 24) + If(~a.reversible, 18)
      + If(a.impact > 200, 28) + If(a.records > 5, 18) + If(a.minutes > 30, 15)
      + If(Drifted(drift), 25) + If(a.retries >= 2, 12)

\* The risk of an action is between 0 and 100 and grows with the drift.
LEMMA RiskGrows ==
    ASSUME NEW a \in RiskInputs, NEW d \in 0..100, NEW e \in 0..100, d <= e
    PROVE  /\ Risk(a, d) \in 0..100 /\ Risk(a, e) \in 0..100
           /\ Risk(a, d) <= Risk(a, e)
<1>1. If(Drifted(d), 25) \in Nat /\ If(Drifted(e), 25) \in Nat
      /\ If(Drifted(d), 25) <= If(Drifted(e), 25)
  BY DEF If, Drifted
<1>2. /\ If(~a.inScope, 55) \in Nat /\ If(a.production, 24) \in Nat
      /\ If(~a.reversible, 18) \in Nat /\ If(a.impact > 200, 28) \in Nat
      /\ If(a.records > 5, 18) \in Nat /\ If(a.minutes > 30, 15) \in Nat
      /\ If(a.retries >= 2, 12) \in Nat
  BY DEF If
<1>3. RiskPoints(a, d) \in Nat /\ RiskPoints(a, e) \in Nat /\ RiskPoints(a, d) <= RiskPoints(a, e)
  BY <1>1, <1>2 DEF RiskPoints
<1>4. Risk(a, d) = AtMost(100, RiskPoints(a, d)) /\ Risk(a, e) = AtMost(100, RiskPoints(a, e))
  BY DEF Risk, RiskPoints
<1> HIDE DEF RiskPoints
<1> QED BY <1>3, <1>4 DEF AtMost

-----------------------------------------------------------------------------
(* An agent at work. *)

\* A step adds to the signals.
LEMMA StepAccumulates ==
    ASSUME Observed, [Next]_vars PROVE Observed' /\ Accumulates
<1>1. ASSUME NEW c \in Counters, Observe(c) PROVE Observed' /\ Accumulates
  BY <1>1 DEF Observe, Observed, Accumulates
<1>2. ASSUME NEW r \in Ratios, Spend(r) PROVE Observed' /\ Accumulates
  <2>1. PICK p \in Spendings : p > spent[r] /\ spent' = [spent EXCEPT ![r] = p]
    BY <1>2 DEF Spend
  <2>2. p \in Nat
    BY RulesAssumption
  <2>3. UNCHANGED <<count, stale>>
    BY <1>2 DEF Spend
  <2> QED BY <2>1, <2>2, <2>3 DEF Observed, Accumulates
<1>3. CASE GoStale
  BY <1>3 DEF GoStale, Observed, Accumulates
<1>4. CASE UNCHANGED vars
  BY <1>4 DEF vars, Observed, Accumulates
<1> QED BY <1>1, <1>2, <1>3, <1>4 DEF Next

\* More signals make no lower score and hide no evidence.
LEMMA ScoreGrows ==
    ASSUME Observed, Observed', Accumulates
    PROVE  Score <= Score' /\ Evidence \subseteq Evidence'
<1>1. \A c \in Counters : Weighted(c, count[c]) <= Weighted(c, count'[c])
  <2> SUFFICES ASSUME NEW c \in Counters PROVE Weighted(c, count[c]) <= Weighted(c, count'[c])
    OBVIOUS
  <2>1. count[c] \in Nat /\ count'[c] \in Nat /\ count[c] <= count'[c]
    BY DEF Observed, Accumulates
  <2> QED BY <2>1, WeightedGrows
<1>2. \A r \in Ratios : Overspent(spent[r]) <= Overspent(spent'[r])
  <2> SUFFICES ASSUME NEW r \in Ratios PROVE Overspent(spent[r]) <= Overspent(spent'[r])
    OBVIOUS
  <2>1. spent[r] \in Nat /\ spent'[r] \in Nat /\ spent[r] <= spent'[r]
    BY DEF Observed, Accumulates
  <2> QED BY <2>1, OverspentGrows
<1>3. /\ \A c \in Counters : Weighted(c, count'[c]) \in Nat
      /\ \A r \in Ratios : Overspent(spent'[r]) \in Nat
  <2> SUFFICES ASSUME NEW c \in Counters, NEW r \in Ratios
               PROVE  Weighted(c, count'[c]) \in Nat /\ Overspent(spent'[r]) \in Nat
    BY DEF Counters, Ratios
  <2>1. count'[c] \in Nat /\ count'[c] <= count'[c] /\ spent'[r] \in Nat /\ spent'[r] <= spent'[r]
    BY DEF Observed
  <2> QED BY <2>1, WeightedGrows, OverspentGrows
<1>4. (IF stale THEN 15 ELSE 0) <= (IF stale' THEN 15 ELSE 0)
  BY DEF Accumulates
<1>5. Points <= Points' /\ Points' \in Nat /\ Points \in Nat
  BY <1>1, <1>2, <1>3, <1>4, Terms DEF Points, Counters, Ratios
<1>6. Score = AtMost(100, Points) /\ Score' = AtMost(100, Points')
  BY DEF Score, Points
<1>7. Score <= Score'
  BY ONLY <1>5, <1>6 DEF AtMost
<1>8. Evidence \subseteq Evidence'
  BY DEF Evidence, Observed, Accumulates, Counters, Ratios
<1> QED BY <1>7, <1>8

\* A higher score relaxes no decision.
LEMMA DecisionGrows ==
    ASSUME NEW a \in Actions, NEW d \in 0..100, NEW e \in 0..100, d <= e
    PROVE  Strictness(Decision(a, d)) <= Strictness(Decision(a, e))
<1>1. Risk(a, d) \in Int /\ Risk(a, e) \in Int /\ Risk(a, d) <= Risk(a, e)
  <2>1. a \in RiskInputs
    BY RulesAssumption
  <2>2. Risk(a, d) \in 0..100 /\ Risk(a, e) \in 0..100 /\ Risk(a, d) <= Risk(a, e)
    BY <2>1, RiskGrows
  <2> QED BY <2>2
<1>2. Gated(Risk(a, d)) => Gated(Risk(a, e))
  BY <1>1 DEF Gated
<1> QED BY <1>2 DEF Decision, Strictness

\* What the agent has done is always of its type.
LEMMA AlwaysObserved == Spec => []Observed
<1>1. Init => Observed
  <2>1. 0 \in Nat
    OBVIOUS
  <2> QED BY <2>1, Zenon DEF Init, Observed
<1>2. Observed /\ [Next]_vars => Observed'
  BY StepAccumulates
<1> QED BY <1>1, <1>2, PTL DEF Spec

\* scoreDrift and assessRisk return scores from 0 to 100 with a band and a
\* decision of their types, whatever was observed.
THEOREM TypeCorrect == Spec => []TypeOK
<1>1. Observed => TypeOK
  <2> SUFFICES ASSUME Observed PROVE TypeOK
    OBVIOUS
  <2>1. Score \in 0..100
    BY ScoreRange
  <2>2. scoreDrift \in DriftResults
    <3>1. Evidence \in SUBSET (Counters \cup Ratios \cup {"stale"})
      BY DEF Evidence
    <3>2. AutoPause(Score) \in BOOLEAN
      BY DEF AutoPause
    <3> QED BY <2>1, <3>1, <3>2, BandRange DEF scoreDrift, DriftResults
  <2>3. ASSUME NEW a \in Actions PROVE assessRisk(a, Score) \in RiskResults
    <3>1. Risk(a, Score) \in 0..100
      <4>1. a \in RiskInputs /\ Score <= Score
        BY <2>1, RulesAssumption
      <4> QED BY <4>1, <2>1, RiskGrows
    <3>2. Decision(a, Score) \in {"allow", "require_approval", "block"}
      BY DEF Decision
    <3> QED BY <3>1, <3>2 DEF assessRisk, RiskResults
  <2> QED BY <2>2, <2>3 DEF TypeOK, Observed
<1> QED BY <1>1, AlwaysObserved, PTL

\* A drift warning of scoreDrift counts in assessRisk: with one more thing
\* against it, an action in production is not simply allowed.
THEOREM WarningCounts == Spec => []DriftedNeedsApproval
<1>1. Observed => DriftedNeedsApproval
  <2> SUFFICES ASSUME Observed, Band(Score) \in {"warning", "critical"}, NEW a \in Actions,
                      a.production,
                      ~a.reversible \/ a.impact > 200 \/ a.records > 5
                        \/ a.minutes > 30 \/ a.retries >= 2
               PROVE  Decision(a, Score) # "allow"
    BY DEF DriftedNeedsApproval
  <2>1. Score \in 0..100 /\ Score >= 70
    BY ScoreRange, BandRange
  <2>2. /\ If(Drifted(Score), 25) = 25 /\ If(a.production, 24) = 24
        /\ If(~a.inScope, 55) \in Nat
    BY <2>1 DEF If, Drifted
  <2>3. Risk(a, Score) >= 55
    <3>1. /\ If(~a.reversible, 18) \in {0, 18} /\ If(a.impact > 200, 28) \in {0, 28}
          /\ If(a.records > 5, 18) \in {0, 18} /\ If(a.minutes > 30, 15) \in {0, 15}
          /\ If(a.retries >= 2, 12) \in {0, 12}
      BY DEF If
    <3>2. \/ If(~a.reversible, 18) = 18 \/ If(a.impact > 200, 28) = 28
          \/ If(a.records > 5, 18) = 18 \/ If(a.minutes > 30, 15) = 15
          \/ If(a.retries >= 2, 12) = 12
      BY DEF If
    <3>3. If(~a.reversible, 18) + If(a.impact > 200, 28) + If(a.records > 5, 18)
            + If(a.minutes > 30, 15) + If(a.retries >= 2, 12) \in 12..91
      BY ONLY <3>1, <3>2
    <3>4. RiskPoints(a, Score) >= 61 /\ RiskPoints(a, Score) \in Nat
      BY ONLY <2>2, <3>1, <3>3 DEF RiskPoints
    <3>5. Risk(a, Score) = AtMost(100, RiskPoints(a, Score))
      BY DEF Risk, RiskPoints
    <3> QED BY <3>4, <3>5 DEF AtMost
  <2> QED BY <2>3 DEF Decision, Gated
<1> QED BY <1>1, AlwaysObserved, PTL

-----------------------------------------------------------------------------
(* Corroboration: a kind of signal adds its cap at most, and nothing unless it *)
(* is reported as evidence.                                                    *)

Kinds == Counters \cup Ratios \cup {"stale"}

\* 1 for a kind that is reported, 0 for the others.
Reported(k) == If(k \in Evidence, 1)

\* What observations of one kind may add.
LEMMA WeightedCaps ==
    ASSUME Observed
    PROVE  /\ Weighted("outOfScope", count.outOfScope) <= 30 * Reported("outOfScope")
           /\ Weighted("noImprovement", count.noImprovement)
                <= 25 * Reported("noImprovement")
           /\ Weighted("retryLoop", count.retryLoop) <= 20 * Reported("retryLoop")
           /\ Weighted("contradiction", count.contradiction)
                <= 25 * Reported("contradiction")
           /\ Weighted("rejected", count.rejected) <= 18 * Reported("rejected")
           /\ Weighted("highRisk", count.highRisk) <= 25 * Reported("highRisk")
<1>1. ASSUME NEW c \in Counters
      PROVE  /\ count[c] \in Nat
             /\ Reported(c) = IF count[c] >= IF c \in {"retryLoop", "highRisk"} THEN 2 ELSE 1
                              THEN 1 ELSE 0
  <2>1. count[c] \in Nat
    BY DEF Observed
  <2>2. c \notin Ratios \cup {"stale"}
    BY DEF Counters, Ratios
  <2>3. c \in Evidence <=> count[c] >= IF c \in {"retryLoop", "highRisk"} THEN 2 ELSE 1
    BY <2>2 DEF Evidence
  <2> QED BY <2>1, <2>3 DEF Reported, If
<1>2. Weighted("outOfScope", count.outOfScope) <= 30 * Reported("outOfScope")
  BY <1>1 DEF Weighted, AtMost, Counters
<1>3. Weighted("noImprovement", count.noImprovement) <= 25 * Reported("noImprovement")
  BY <1>1 DEF Weighted, AtMost, Counters
<1>4. Weighted("retryLoop", count.retryLoop) <= 20 * Reported("retryLoop")
  BY <1>1 DEF Weighted, AtMost, Counters
<1>5. Weighted("contradiction", count.contradiction) <= 25 * Reported("contradiction")
  BY <1>1 DEF Weighted, AtMost, Counters
<1>6. Weighted("rejected", count.rejected) <= 18 * Reported("rejected")
  BY <1>1 DEF Weighted, AtMost, Counters
<1>7. Weighted("highRisk", count.highRisk) <= 25 * Reported("highRisk")
  BY <1>1 DEF Weighted, AtMost, Counters
<1> QED BY <1>2, <1>3, <1>4, <1>5, <1>6, <1>7

\* What one envelope and stale evidence may add.
LEMMA OtherCaps ==
    ASSUME Observed
    PROVE  /\ \A r \in Ratios : Overspent(spent[r]) <= 20 * Reported(r)
           /\ (IF stale THEN 15 ELSE 0) <= 15 * Reported("stale")
<1>1. ASSUME NEW r \in Ratios PROVE Overspent(spent[r]) <= 20 * Reported(r)
  <2>1. spent[r] \in Nat /\ r \notin Counters \cup {"stale"}
    BY DEF Observed, Counters, Ratios
  <2>2. r \in Evidence <=> spent[r] > 100
    BY <2>1 DEF Evidence
  <2>3. CASE spent[r] > 100
    <3>1. (2 * (spent[r] - 100) + 5) \div 10 \in Nat
      BY <2>1, <2>3
    <3>2. Overspent(spent[r]) <= 20
      BY <2>3, <3>1 DEF Overspent, AtMost
    <3> QED BY <2>2, <2>3, <3>2 DEF Reported, If
  <2>4. CASE ~(spent[r] > 100)
    BY <2>2, <2>4 DEF Reported, If, Overspent
  <2> QED BY <2>3, <2>4
<1>2. "stale" \in Evidence <=> stale
  BY DEF Evidence, Counters, Ratios
<1>3. (IF stale THEN 15 ELSE 0) <= 15 * Reported("stale")
  BY <1>2 DEF Reported, If
<1> QED BY <1>1, <1>3

\* One more kind in a set of kinds is counted if it is reported.
LEMMA OneMoreKind ==
    ASSUME NEW S, NEW k, k \notin S, IsFiniteSet(S \cap Evidence)
    PROVE  /\ IsFiniteSet((S \cup {k}) \cap Evidence)
           /\ Cardinality((S \cup {k}) \cap Evidence)
                = Cardinality(S \cap Evidence) + Reported(k)
<1>1. CASE k \in Evidence
  <2>1. (S \cup {k}) \cap Evidence = (S \cap Evidence) \cup {k} /\ k \notin S \cap Evidence
    BY <1>1
  <2> QED BY <1>1, <2>1, FS_AddElement DEF Reported, If
<1>2. CASE k \notin Evidence
  <2>1. (S \cup {k}) \cap Evidence = S \cap Evidence
    BY <1>2
  <2>2. Cardinality(S \cap Evidence) \in Nat
    BY FS_CardinalityType
  <2>3. Reported(k) = 0
    BY <1>2 DEF Reported, If
  <2> DEFINE T == S \cap Evidence
  <2> HIDE DEF T
  <2>4. (S \cup {k}) \cap Evidence = T
    BY <2>1 DEF T
  <2>5. IsFiniteSet(T) /\ Cardinality(T) \in Nat
    BY <2>2 DEF T
  <2>6. Cardinality(T) = Cardinality(T) + Reported(k)
    BY <2>3, <2>5
  <2>7. T = S \cap Evidence
    BY DEF T
  <2> QED BY <2>4, <2>5, <2>6, <2>7, Zenon
<1> QED BY <1>1, <1>2

\* The kinds reported are counted kind by kind.
LEMMA EvidenceCounted ==
    Cardinality(Evidence) =
        Reported("outOfScope") + Reported("noImprovement") + Reported("retryLoop")
          + Reported("contradiction") + Reported("rejected") + Reported("highRisk")
          + Reported("cost") + Reported("tokens") + Reported("stale")
<1> DEFINE K1 == {"outOfScope"}
           K2 == K1 \cup {"noImprovement"}
           K3 == K2 \cup {"retryLoop"}
           K4 == K3 \cup {"contradiction"}
           K5 == K4 \cup {"rejected"}
           K6 == K5 \cup {"highRisk"}
           K7 == K6 \cup {"cost"}
           K8 == K7 \cup {"tokens"}
           K9 == K8 \cup {"stale"}
           C(S) == Cardinality(S \cap Evidence)
<1>1. IsFiniteSet(K1 \cap Evidence) /\ C(K1) = Reported("outOfScope")
  <2>1. {} \cap Evidence = {} /\ {} \cup {"outOfScope"} = K1
    OBVIOUS
  <2>2. IsFiniteSet({} \cap Evidence) /\ C({}) = 0
    BY <2>1, FS_EmptySet
  <2> QED BY <2>1, <2>2, OneMoreKind DEF Reported, If
<1>2. /\ "noImprovement" \notin K1 /\ "retryLoop" \notin K2 /\ "contradiction" \notin K3
      /\ "rejected" \notin K4 /\ "highRisk" \notin K5 /\ "cost" \notin K6
      /\ "tokens" \notin K7 /\ "stale" \notin K8
  OBVIOUS
<1>3. IsFiniteSet(K2 \cap Evidence) /\ C(K2) = C(K1) + Reported("noImprovement")
  BY <1>1, <1>2, OneMoreKind
<1>4. IsFiniteSet(K3 \cap Evidence) /\ C(K3) = C(K2) + Reported("retryLoop")
  BY <1>3, <1>2, OneMoreKind
<1>5. IsFiniteSet(K4 \cap Evidence) /\ C(K4) = C(K3) + Reported("contradiction")
  BY <1>4, <1>2, OneMoreKind
<1>6. IsFiniteSet(K5 \cap Evidence) /\ C(K5) = C(K4) + Reported("rejected")
  BY <1>5, <1>2, OneMoreKind
<1>7. IsFiniteSet(K6 \cap Evidence) /\ C(K6) = C(K5) + Reported("highRisk")
  BY <1>6, <1>2, OneMoreKind
<1>8. IsFiniteSet(K7 \cap Evidence) /\ C(K7) = C(K6) + Reported("cost")
  BY <1>7, <1>2, OneMoreKind
<1>9. IsFiniteSet(K8 \cap Evidence) /\ C(K8) = C(K7) + Reported("tokens")
  BY <1>8, <1>2, OneMoreKind
<1>10. C(K9) = C(K8) + Reported("stale")
  BY <1>9, <1>2, OneMoreKind
<1>11. K9 \cap Evidence = Evidence
  BY DEF Evidence, Counters, Ratios
<1> HIDE DEF K1, K2, K3, K4, K5, K6, K7, K8, K9, C
<1>12. C(K9) = Cardinality(Evidence)
  BY <1>11 DEF C
<1> QED BY <1>1, <1>3, <1>4, <1>5, <1>6, <1>7, <1>8, <1>9, <1>10, <1>12

\* What one, two or three kinds add at most, with the caps of the nine kinds.
LEMMA CapsAdded ==
    ASSUME NEW a \in 0..1, NEW b \in 0..1, NEW c \in 0..1, NEW d \in 0..1, NEW e \in 0..1,
           NEW f \in 0..1, NEW g \in 0..1, NEW h \in 0..1, NEW i \in 0..1
    PROVE  LET n == a + b + c + d + e + f + g + h + i
               p == 30 * a + 25 * b + 20 * c + 25 * d + 18 * e + 25 * f
                      + 20 * g + 20 * h + 15 * i
           IN  /\ p >= 40 => n >= 2
               /\ p >= 70 => n >= 3
               /\ p >= 85 => n >= 4
  OBVIOUS

\* However extreme one kind of signal is, scoreDrift needs two kinds to report a
\* watch, three to report a warning and four to pause the agent.
THEOREM NoPauseWithoutCorroboration == Spec => []Corroborated
<1>1. Observed => Corroborated
  <2> SUFFICES ASSUME Observed PROVE Corroborated
    OBVIOUS
  <2> DEFINE p == 30 * Reported("outOfScope") + 25 * Reported("noImprovement")
                    + 20 * Reported("retryLoop") + 25 * Reported("contradiction")
                    + 18 * Reported("rejected") + 25 * Reported("highRisk")
                    + 20 * Reported("cost") + 20 * Reported("tokens")
                    + 15 * Reported("stale")
  <2>1. \A k \in Kinds : Reported(k) \in 0..1
    BY DEF Reported, If
  <2>2. Points <= p
    <3>1. /\ Overspent(spent.cost) \in Nat /\ Overspent(spent.tokens) \in Nat
          /\ Overspent(spent.cost) <= 20 * Reported("cost")
          /\ Overspent(spent.tokens) <= 20 * Reported("tokens")
      BY Terms, OtherCaps DEF Ratios
    <3>2. /\ Weighted("outOfScope", count.outOfScope) \in Nat
          /\ Weighted("noImprovement", count.noImprovement) \in Nat
          /\ Weighted("retryLoop", count.retryLoop) \in Nat
          /\ Weighted("contradiction", count.contradiction) \in Nat
          /\ Weighted("rejected", count.rejected) \in Nat
          /\ Weighted("highRisk", count.highRisk) \in Nat
      BY Terms DEF Counters
    <3>3. /\ Reported("outOfScope") \in 0..1 /\ Reported("noImprovement") \in 0..1
          /\ Reported("retryLoop") \in 0..1 /\ Reported("contradiction") \in 0..1
          /\ Reported("rejected") \in 0..1 /\ Reported("highRisk") \in 0..1
          /\ Reported("cost") \in 0..1 /\ Reported("tokens") \in 0..1
          /\ Reported("stale") \in 0..1
      BY <2>1 DEF Kinds, Counters, Ratios
    <3> DEFINE late == IF stale THEN 15 ELSE 0
    <3>4. late \in Nat /\ late <= 15 * Reported("stale")
      BY Terms, OtherCaps
    <3>5. Points = Weighted("outOfScope", count.outOfScope)
                     + Weighted("noImprovement", count.noImprovement)
                     + Weighted("retryLoop", count.retryLoop)
                     + Overspent(spent.cost) + Overspent(spent.tokens) + late
                     + Weighted("contradiction", count.contradiction)
                     + Weighted("rejected", count.rejected)
                     + Weighted("highRisk", count.highRisk)
      BY DEF Points
    <3> HIDE DEF Reported, late
    <3> QED BY <3>1, <3>2, <3>3, <3>4, <3>5, WeightedCaps
  <2>3. Points \in Nat /\ Score <= Points /\ Score \in 0..100
    <3>1. Points \in Nat /\ Score \in 0..100
      BY ScoreRange
    <3>2. Score = AtMost(100, Points)
      BY DEF Score, Points
    <3> QED BY <3>1, <3>2 DEF AtMost
  <2>4. p \in Nat
    BY <2>1 DEF Kinds, Counters, Ratios
  <2>5. /\ p >= 40 => Cardinality(Evidence) >= 2
        /\ p >= 70 => Cardinality(Evidence) >= 3
        /\ p >= 85 => Cardinality(Evidence) >= 4
    <3>1. \A k \in Kinds : Reported(k) \in 0..1
      BY <2>1
    <3> HIDE DEF Reported
    <3> QED BY <3>1, EvidenceCounted, CapsAdded DEF Kinds, Counters, Ratios
  <2> HIDE DEF p
  <2> QED BY <2>2, <2>3, <2>4, <2>5 DEF Corroborated, AutoPause
<1> QED BY <1>1, AlwaysObserved, PTL

-----------------------------------------------------------------------------
(* What a step may never do. *)

\* No signal makes scoreDrift report less than it did before.
THEOREM DriftMonotone == Spec => DriftGrows
<1>1. Observed /\ [Next]_vars => [Score <= Score' /\ Evidence \subseteq Evidence']_vars
  BY StepAccumulates, ScoreGrows
<1> QED BY <1>1, AlwaysObserved, PTL DEF Spec, DriftGrows

\* No signal makes assessRisk decide less strictly about an action.
THEOREM DecisionMonotone == Spec => DecisionHolds
<1>1. ASSUME Observed, [Next]_vars, NEW a \in Actions
      PROVE  Strictness(Decision(a, Score)) <= Strictness(Decision(a, Score'))
  <2>1. Observed' /\ Score <= Score'
    BY <1>1, StepAccumulates, ScoreGrows
  <2>2. Score \in 0..100
    BY <1>1, ScoreRange
  <2>3. Score' \in 0..100
    <3>1. (Observed => Score \in 0..100)'
      BY ScoreRange, PTL
    <3> QED BY <2>1, <3>1
  <2> QED BY <2>1, <2>2, <2>3, DecisionGrows
<1>2. Observed /\ [Next]_vars =>
        [\A a \in Actions : Strictness(Decision(a, Score)) <= Strictness(Decision(a, Score'))]_vars
  BY <1>1
<1> QED BY <1>2, AlwaysObserved, PTL DEF Spec, DecisionHolds
=============================================================================
