-------------------------------- MODULE Scoring --------------------------------
(***************************************************************************)
(* The results of a Journee (scoring.py, correction_scoring.py and         *)
(* result_snapshot, score_evaluation of services.py): from the evaluations,*)
(* general assessments and management corrections that exist to the scores *)
(* and ranks. Numbers are fractions <<numerator, denominator>>; Decimal's  *)
(* 28 digits are taken as exact, the rounding of an activity's score to    *)
(* two places is modelled.                                                 *)
(***************************************************************************)
EXTENDS Integers, FiniteSets, FiniteSetsExt, Functions

CONSTANTS
    Graded,            \* recruits that are active and present, as numbers: their order by id
    Criterion,         \* [criterion -> [activity, lowest, highest, step, weight, target, direction, dimension]]
    Converted,         \* activities scored against targets (target_average)
    Dimension,         \* [dimension -> [source, activity]]
    Components,        \* set of [source, key, weight] of the overall score
    GeneralFactor,     \* [factor -> its maximum]
    OfficialMaximum,
    Policies,          \* set of [aggregation, missing, ranking] to choose from
    ActivityTasks,     \* set of [activity, evaluator, recruit]: the published assignments
    Entered,           \* [criterion -> numbers an evaluator may enter]
    MaxEntries         \* bound: evaluations, assessments and corrections that exist

ActivityNames == {Criterion[c].activity : c \in DOMAIN Criterion}
CriteriaOf(a) == {c \in DOMAIN Criterion : Criterion[c].activity = a}
InDimension(d) == {c \in DOMAIN Criterion : Criterion[c].dimension = d}

ASSUME ScoringAssumption ==
    /\ IsFiniteSet(Graded) /\ Graded \subseteq Nat
    /\ IsFiniteSet(DOMAIN Criterion)
    /\ \A c \in DOMAIN Criterion :
        /\ Criterion[c].lowest \in Int /\ Criterion[c].highest \in Int
        /\ Criterion[c].lowest < Criterion[c].highest
        /\ Criterion[c].weight \in Nat \ {0} /\ Entered[c] \subseteq Int
        /\ Criterion[c].activity \in Converted => Criterion[c].target \in Nat \ {0}
    /\ \A d \in DOMAIN Dimension :
        \/ Dimension[d].source = "criteria" /\ InDimension(d) # {}
        \/ Dimension[d].source = "activity" /\ Dimension[d].activity \in ActivityNames
    /\ IsFiniteSet(Components)
    /\ \A k \in Components : /\ k.weight \in Nat \ {0}
                             /\ k.source = "general" \/ k.key \in DOMAIN Dimension
    /\ IsFiniteSet(DOMAIN GeneralFactor)
    /\ \A g \in DOMAIN GeneralFactor : GeneralFactor[g] \in Nat \ {0}
    /\ OfficialMaximum \in Nat
    /\ IsFiniteSet(ActivityTasks) /\ \A t \in ActivityTasks : t.activity \in ActivityNames
    /\ \A p \in Policies : /\ p.aggregation \in {"available_average", "missing_as_zero"}
                           /\ p.missing \in {"zero", "exclude"}
                           /\ p.ranking \in {"competition", "dense", "ordinal"}

VARIABLES
    policy,            \* scoring settings of the published configuration
    evaluations,       \* evaluation_submissions that are submitted: task -> entered numbers
    adminEvaluations,  \* admin_evaluations: <<recruit, activity>> -> entered numbers
    assessed,          \* general_assessments: <<recruit, factor>> -> value
    overrides          \* management_corrections: <<recruit, criterion>> -> normalised grade

scoringVars == <<policy, evaluations, adminEvaluations, assessed, overrides>>

-----------------------------------------------------------------------------
(* Fractions. *)

Gcd[p \in Nat \X Nat] == IF p[2] = 0 THEN p[1] ELSE Gcd[<<p[2], p[1] % p[2]>>]
Reduced(x) == LET g == Gcd[<<IF x[1] < 0 THEN -x[1] ELSE x[1], x[2]>>] IN <<x[1] \div g, x[2] \div g>>
Whole(n) == <<n, 1>>
Plus(x, y) == Reduced(<<x[1] * y[2] + y[1] * x[2], x[2] * y[2]>>)
Scaled(x, n, d) == Reduced(<<x[1] * n, x[2] * d>>)   \* x times n / d
AtMost(x, y) == x[1] * y[2] <= y[1] * x[2]
Total(f) == FoldFunction(Plus, Whole(0), f)
Weight(S) == SumFunction([c \in S |-> Criterion[c].weight])
Average(f, n) == Scaled(Total(f), 1, Max({n, 1}))

(* quantize(TWO_PLACES, ROUND_HALF_UP) *)
TwoPlaces(x) == <<(200 * x[1] + x[2]) \div (2 * x[2]), 100>>

-----------------------------------------------------------------------------
(* Scoring one evaluation. *)

(* validate_rating, and the checks of target_activity_score *)
Valid(c, n) ==
    IF Criterion[c].activity \in Converted THEN n >= 0
    ELSE /\ Criterion[c].lowest <= n /\ n <= Criterion[c].highest
         /\ (n - Criterion[c].lowest) % Criterion[c].step = 0

(* The grade of a measured result: /5 against the criterion's target. *)
Grade(c, n) ==
    LET k == Criterion[c]
        reached == IF k.direction = "higher" THEN Reduced(<<5 * n, k.target>>)
                   ELSE IF n = 0 THEN Whole(5) ELSE Reduced(<<5 * k.target, n>>)
    IN  IF k.activity \notin Converted THEN Whole(n)
        ELSE IF AtMost(Whole(5), reached) THEN Whole(5) ELSE reached

(* The scale a grade is on: converted grades are on 0..5. *)
Lowest(c) == IF Criterion[c].activity \in Converted THEN 0 ELSE Criterion[c].lowest
Highest(c) == IF Criterion[c].activity \in Converted THEN 5 ELSE Criterion[c].highest
Normalised(c, x) == Scaled(Plus(x, Whole(-Lowest(c))), 1, Highest(c) - Lowest(c))

(* weighted_activity_score, target_activity_score *)
Score(a, response) ==
    TwoPlaces(Scaled(Total([c \in CriteriaOf(a) |->
                        Scaled(Normalised(c, Grade(c, response[c])), 5 * Criterion[c].weight, 1)]),
                     1, Weight(CriteriaOf(a))))

(* Every criterion and no other, each with a valid number. *)
Responses(a) == {f \in [CriteriaOf(a) -> UNION {Entered[c] : c \in CriteriaOf(a)}] :
                    \A c \in CriteriaOf(a) : f[c] \in Entered[c] /\ Valid(c, f[c])}

-----------------------------------------------------------------------------
(* The row of a recruit. *)

Expected(r, a) == {t \in ActivityTasks : t.recruit = r /\ t.activity = a}
Submitted(r, a) == Expected(r, a) \cap DOMAIN evaluations
ByAdmin(r, a) == <<r, a>> \in DOMAIN adminEvaluations
ActivityComplete(r, a) == ByAdmin(r, a) \/ (Expected(r, a) # {} /\ Submitted(r, a) = Expected(r, a))
MissingAsZero(r, a) == policy.aggregation = "missing_as_zero" /\ ~ByAdmin(r, a)

(* How many evaluations a grade is averaged over. *)
Divisor(r, a, n) == IF MissingAsZero(r, a) THEN Cardinality(Expected(r, a)) ELSE n

AutomaticActivity(r, a) ==
    IF ByAdmin(r, a) THEN Score(a, adminEvaluations[<<r, a>>])
    ELSE Average([t \in Submitted(r, a) |-> Score(a, evaluations[t])],
                 Divisor(r, a, Cardinality(Submitted(r, a))))

(* The responses a criterion is graded from. *)
Sources(r, a) ==
    IF ByAdmin(r, a) THEN [x \in {<<r, a>>} |-> adminEvaluations[x]]
    ELSE Restrict(evaluations, Submitted(r, a))

GradesOf(r, c) == LET from == Sources(r, Criterion[c].activity)
                  IN  [x \in DOMAIN from |-> Grade(c, from[x][c])]

(* result_snapshot: averages first, and puts the average on the scale then. *)
CriterionShare(r, c) ==
    LET grades == GradesOf(r, c)
        n == Cardinality(DOMAIN grades)
        average == IF n = 0 THEN Whole(0) ELSE Average(grades, Divisor(r, Criterion[c].activity, n))
    IN  Scaled(Normalised(c, average), Criterion[c].weight, 1)

AutomaticDimension(r, d) ==
    IF Dimension[d].source = "activity"
    THEN Scaled(AutomaticActivity(r, Dimension[d].activity), 1, 5)
    ELSE Scaled(Total([c \in InDimension(d) |-> CriterionShare(r, c)]), 1, Weight(InDimension(d)))

DimensionComplete(r, d) ==
    IF Dimension[d].source = "activity" THEN ActivityComplete(r, Dimension[d].activity)
    ELSE \A c \in InDimension(d) : ActivityComplete(r, Criterion[c].activity)

-----------------------------------------------------------------------------
(* Management corrections over it (criterion_facts, apply_numeric_overlays):*)
(* each grade is put on the scale first and averaged then.                  *)

(* Mutant: missing evaluations are left out of the average.                 *)
FactMut(r, c) ==
    LET grades == GradesOf(r, c)
    IN  IF <<r, c>> \in DOMAIN overrides THEN overrides[<<r, c>>]
        ELSE Average([x \in DOMAIN grades |-> Normalised(c, grades[x])], Cardinality(DOMAIN grades))

Fact(r, c) ==
    LET grades == GradesOf(r, c)
    IN  IF <<r, c>> \in DOMAIN overrides THEN overrides[<<r, c>>]
        ELSE Average([x \in DOMAIN grades |-> Normalised(c, grades[x])],
                     Divisor(r, Criterion[c].activity, Cardinality(DOMAIN grades)))

Available(r, c) == DOMAIN GradesOf(r, c) # {} \/ <<r, c>> \in DOMAIN overrides
Weighted(r, S) == Scaled(Total([c \in S |-> Scaled(Fact(r, c), Criterion[c].weight, 1)]), 1, Weight(S))
Corrected(r, S) == \E c \in S : <<r, c>> \in DOMAIN overrides

(* resolve_targets of a dimension *)
Contributing(d) == IF Dimension[d].source = "activity" THEN CriteriaOf(Dimension[d].activity)
                   ELSE InDimension(d)

ActivityValue(r, a) ==
    IF Corrected(r, CriteriaOf(a)) THEN Scaled(Weighted(r, CriteriaOf(a)), 5, 1)
    ELSE AutomaticActivity(r, a)

DimensionValue(r, d) ==
    CASE ~Corrected(r, Contributing(d)) -> AutomaticDimension(r, d)
      [] Dimension[d].source = "activity" -> Scaled(ActivityValue(r, Dimension[d].activity), 1, 5)
      [] OTHER -> Weighted(r, InDimension(d))

Ready(r, d) ==
    \/ DimensionComplete(r, d)
    \/ Corrected(r, Contributing(d)) /\ \A c \in Contributing(d) : Available(r, c)

-----------------------------------------------------------------------------
(* Overall score, bands and ranks. *)

AssessedFactors(r) == {g \in DOMAIN GeneralFactor : <<r, g>> \in DOMAIN assessed}
GeneralAverage(r) ==
    IF DOMAIN GeneralFactor = {} THEN Whole(0)
    ELSE Average([g \in AssessedFactors(r) |-> Reduced(<<assessed[<<r, g>>], GeneralFactor[g]>>)],
                 Cardinality(DOMAIN GeneralFactor))
GeneralComplete(r) == DOMAIN GeneralFactor # {} /\ AssessedFactors(r) = DOMAIN GeneralFactor

(* Components that count; when missing ones are excluded the others share   *)
(* the whole weight.                                                        *)
Included(r) ==
    {k \in Components : policy.missing = "exclude" =>
        IF k.source = "general" THEN GeneralComplete(r) ELSE Ready(r, k.key)}

OverallScore(r) ==
    LET value(k) == IF k.source = "general" THEN GeneralAverage(r) ELSE DimensionValue(r, k.key)
        weight(S) == SumFunction([k \in S |-> k.weight])
        counted == IF policy.missing = "exclude" THEN Included(r) ELSE Components
    IN  IF Included(r) = {} THEN Whole(0)
        ELSE Scaled(Total([k \in Included(r) |-> Scaled(value(k), k.weight, 1)]),
                    OfficialMaximum, weight(counted))

(* configured_ranks: one pass over the scores, best first, ties by id. *)
Standing(value) ==
    LET ahead(x, y) == IF value[x] = value[y] THEN x < y ELSE ~AtMost(value[x], value[y])
    IN  CHOOSE s \in [1..Cardinality(DOMAIN value) -> DOMAIN value] :
            \A i, j \in DOMAIN s : i < j => ahead(s[i], s[j])

Ranks(value) ==
    LET order == Standing(value)
        tied(i) == i > 1 /\ value[order[i]] = value[order[i - 1]]
        rank[i \in DOMAIN order] ==
            CASE policy.ranking = "ordinal" \/ i = 1 -> i
              [] policy.ranking = "competition" -> IF tied(i) THEN rank[i - 1] ELSE i
              [] OTHER -> IF tied(i) THEN rank[i - 1] ELSE rank[i - 1] + 1
    IN  [r \in DOMAIN value |-> rank[CHOOSE i \in DOMAIN order : order[i] = r]]

-----------------------------------------------------------------------------
(* What is entered, in any order. *)

Entries == Cardinality(DOMAIN evaluations) + Cardinality(DOMAIN adminEvaluations)
           + Cardinality(DOMAIN assessed) + Cardinality(DOMAIN overrides)
None == [x \in {} |-> 0]

\* f with one more entry, or another value of one.
Entering(f, x, value) == [y \in DOMAIN f \cup {x} |-> IF y = x THEN value ELSE f[y]]

Unscored(settings) ==
    /\ policy = settings
    /\ evaluations = None /\ adminEvaluations = None /\ assessed = None /\ overrides = None

InitScoring == \E settings \in Policies : Unscored(settings)

Evaluate ==
    \E t \in ActivityTasks : \E response \in Responses(t.activity) :
        /\ evaluations' = Entering(evaluations, t, response)
        /\ UNCHANGED <<policy, adminEvaluations, assessed, overrides>>

EvaluateAsAdmin ==
    \E r \in Graded, a \in ActivityNames : \E response \in Responses(a) :
        /\ adminEvaluations' = Entering(adminEvaluations, <<r, a>>, response)
        /\ UNCHANGED <<policy, evaluations, assessed, overrides>>

AssessGenerally ==
    \E r \in Graded, g \in DOMAIN GeneralFactor : \E n \in 0..GeneralFactor[g] :
        /\ assessed' = Entering(assessed, <<r, g>>, n)
        /\ UNCHANGED <<policy, evaluations, adminEvaluations, overrides>>

(* A dimension, or one criterion, is given the lowest or the highest grade. *)
CorrectGrades ==
    \E r \in Graded, x \in {<<0, 1>>, <<1, 1>>} :
    \E S \in {Contributing(d) : d \in DOMAIN Dimension} \cup {{c} : c \in DOMAIN Criterion} :
        /\ overrides' = [i \in DOMAIN overrides \cup ({r} \X S) |->
                            IF i \in {r} \X S THEN x ELSE overrides[i]]
        /\ UNCHANGED <<policy, evaluations, adminEvaluations, assessed>>

NextScoring ==
    /\ Evaluate \/ EvaluateAsAdmin \/ AssessGenerally \/ CorrectGrades
    /\ Entries' <= MaxEntries

SpecScoring == InitScoring /\ [][NextScoring]_scoringVars

-----------------------------------------------------------------------------

TypeOKScoring ==
    /\ policy \in Policies
    /\ \A t \in DOMAIN evaluations : t \in ActivityTasks /\ evaluations[t] \in Responses(t.activity)
    /\ \A x \in DOMAIN adminEvaluations :
        x \in Graded \X ActivityNames /\ adminEvaluations[x] \in Responses(x[2])
    /\ \A x \in DOMAIN assessed :
        x \in Graded \X DOMAIN GeneralFactor /\ assessed[x] \in 0..GeneralFactor[x[2]]
    /\ \A x \in DOMAIN overrides :
        x \in Graded \X DOMAIN Criterion /\ overrides[x] \in {<<0, 1>>, <<1, 1>>}

(* Completed or scaled from zero: nothing is missing on another scale.      *)
Comparable(r, d) ==
    DimensionComplete(r, d) \/ \A c \in InDimension(d) : Lowest(c) = 0

(* A rank says how many are better, whatever the mode: the competition rank *)
(* counts recruits, the dense rank counts scores, the ordinal rank breaks   *)
(* ties by id and repeats none.                                             *)
RankDue(value, r) ==
    LET better == {q \in Graded : ~AtMost(value[q], value[r])}
    IN  1 + CASE policy.ranking = "competition" -> Cardinality(better)
              [] policy.ranking = "dense" -> Cardinality({value[q] : q \in better})
              [] OTHER -> Cardinality(better \cup {q \in Graded : value[q] = value[r] /\ q < r})

(* The results and the correction editor compute a dimension each in its    *)
(* own way, and agree wherever they are meant to: when the scale starts at  *)
(* zero or nothing is missing, correcting nothing changes nothing (services *)
(* 1277-1365 against correction_scoring 7-46). The ranks that               *)
(* configured_ranks computes in one pass are those of the scores.           *)
ResultsAgree ==
    /\ \A r \in Graded, d \in DOMAIN Dimension :
         Dimension[d].source = "criteria" /\ ~Corrected(r, InDimension(d)) /\ Comparable(r, d)
         => Weighted(r, InDimension(d)) = AutomaticDimension(r, d)
    /\ LET value == [r \in Graded |-> OverallScore(r)]
           rank == Ranks(value)
       IN  \A r \in Graded : rank[r] = RankDue(value, r)
=============================================================================
