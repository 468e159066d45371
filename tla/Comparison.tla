------------------------------ MODULE Comparison ------------------------------
(***************************************************************************)
(* The arithmetic verdict: a claim compared with the facts of the index.   *)
(*                                                                         *)
(* A claim is parsed by a model and, deterministically, from its wording;  *)
(* the second fills the gaps of the first (merge_claim).  Each fact of the *)
(* evidence is then compared with it: the qualifiers decide whether the    *)
(* two may be compared at all, and Decimal arithmetic, in the units of the *)
(* fact, whether they agree (compare_detailed).                            *)
(*                                                                         *)
(* Data: a text is the set of its scope markers and of its content tokens; *)
(* a name is told apart only by what contains it; a Decimal is its         *)
(* coefficient and its exponent, as in 21.30 = 2130 * 10^-2.               *)
(***************************************************************************)
EXTENDS Integers, FiniteSets

CONSTANTS
  Parses,    \* what the model may return for the claim
  Wordings,  \* what heuristic_claim may read in it
  Facts,     \* the facts it is compared with
  Within,    \* pairs of names of which the first is part of the second
  None

Decimals == [coef : Int, exp : Int]
Texts == [markers : SUBSET STRING, tokens : SUBSET STRING]
Directions == {"increase", "decrease", "level", "unknown"}
Bounds == {">=", ">", "<=", "<"}
Stated == {None} \union STRING
ParsedClaim ==
  { c \in [ subject : Stated, metric : Texts, scope : Texts, value : {None} \union Decimals,
            unit : Stated, direction : Directions, comparison : Bounds \union {"=", "~"},
            approximate : BOOLEAN, reporting : Stated, baseline : Stated, geography : Stated ] :
      c.comparison = "~" => c.approximate }
Fact ==
  [ subject : Stated, metric : Texts, scope : Texts, value : {None} \union Decimals,
    unit : Stated, direction : Directions, reporting : Stated, baseline : Stated,
    geography : Stated ]

ASSUME ConstantsAssumption ==
  /\ \A c \in Parses \union Wordings : c \in ParsedClaim
  /\ \A f \in Facts : f \in Fact
  /\ None # "FY2024"

VARIABLES
  pc,
  parsed,    \* the model's parse; None where the model did not answer
  wording,   \* the parse of the wording
  claim,     \* the merged claim
  fact,      \* the fact last compared
  result     \* and what came of it

vars == <<pc, parsed, wording, claim, fact, result>>

-----------------------------------------------------------------------------
(* Decimal.                                                                 *)

Decimal(coef, exp) == [coef |-> coef, exp |-> exp]
Size(n) == IF n < 0 THEN -n ELSE n
Lower(a, b) == IF a.exp < b.exp THEN a.exp ELSE b.exp
In(a, exp) == a.coef * 10^(a.exp - exp)  \* a counted in 10^exp, exp at most a.exp
SameNumber(a, b) == In(a, Lower(a, b)) = In(b, Lower(a, b))
AtLeast(a, b) == In(a, Lower(a, b)) >= In(b, Lower(a, b))
Magnitude(a) == [a EXCEPT !.coef = Size(@)]
Minus(a) == [a EXCEPT !.coef = -@]
Times(a, b) == Decimal(a.coef * b.coef, a.exp + b.exp)

\* An exact quotient, with the exponent nearest to the difference of the two.
Quotient(a, b) ==
  LET shift == CHOOSE k \in 0..9 :
                 /\ (a.coef * 10^k) % b.coef = 0
                 /\ \A j \in 0..(k - 1) : (a.coef * 10^j) % b.coef # 0
  IN  Decimal((a.coef * 10^shift) \div b.coef, a.exp - b.exp - shift)

\* Mutant: digits beyond the exponent are cut off.
QuantizeDown(a, exp) ==
  LET unit == 10^(exp - a.exp)
      whole == IF exp <= a.exp THEN Size(In(a, exp)) ELSE Size(a.coef) \div unit
  IN  Decimal(IF a.coef < 0 THEN -whole ELSE whole, exp)

\* quantize with ROUND_HALF_UP: a half goes away from zero.
Quantize(a, exp) ==
  LET unit == 10^(exp - a.exp)
      whole == IF exp <= a.exp THEN Size(In(a, exp))
               ELSE (2 * Size(a.coef) + unit) \div (2 * unit)
  IN  Decimal(IF a.coef < 0 THEN -whole ELSE whole, exp)

-----------------------------------------------------------------------------
(* Normalization.                                                           *)

\* Each unit in the base unit of what it measures (some rows of the table).
UnitBase ==
  [ percent |-> [base |-> "percent", factor |-> Decimal(1, 0)],
    tco2e   |-> [base |-> "tco2e", factor |-> Decimal(1, 0)],
    l       |-> [base |-> "l", factor |-> Decimal(1, 0)],
    hl      |-> [base |-> "l", factor |-> Decimal(100, 0)],
    m3      |-> [base |-> "l", factor |-> Decimal(1000, 0)] ]
Units == DOMAIN UnitBase

\* Nothing is neither a number nor a unit.
ASSUME NoneAssumption == None \notin Decimals \union Units

\* Mutant: converts into the base unit, not into the target.
ConversionToBase(source, target) ==
  IF source = target THEN Decimal(1, 0)
  ELSE IF source \in Units /\ target \in Units /\
          UnitBase[source].base = UnitBase[target].base
    THEN UnitBase[source].factor
  ELSE None

\* unit_conversion, for two units that are stated: None if they do not measure the
\* same thing.
UnitConversion(source, target) ==
  IF source = target THEN Decimal(1, 0)
  ELSE IF source \in Units /\ target \in Units /\
          UnitBase[source].base = UnitBase[target].base
    THEN Quotient(UnitBase[source].factor, UnitBase[target].factor)
  ELSE None

\* FY24 and FY2024 are one fiscal year, and 2024 is not.
NormalizePeriod(period) == IF period = "FY24" THEN "FY2024" ELSE period

SignedChange(value, direction) ==
  CASE direction = "decrease" -> Minus(Magnitude(value))
    [] direction = "increase" -> Magnitude(value)
    [] OTHER -> value

ValuesAgree(claimed, observed, approximate) ==
  \/ SameNumber(claimed, observed)
  \/ approximate /\ SameNumber(Quantize(observed, claimed.exp), claimed)

\* Texts, as much of them as is compared.
NoText == [markers |-> {}, tokens |-> {}]
Else(text, other) == IF text # NoText THEN text ELSE other

\* Mutant: Scope 1 is compared with Scope 3, since both state a scope.
ScopesBothStated(claimed, stated) == claimed.markers # {} /\ stated.markers # {}
ScopesComparable(claimed, stated) ==
  /\ claimed.markers # {} /\ stated.markers # {}
  /\ claimed.markers \subseteq stated.markers \/ stated.markers \subseteq claimed.markers
MetricOverlaps(claimed, stated) ==
  /\ claimed.tokens # {}
  /\ 2 * Cardinality(claimed.tokens \intersect stated.tokens) >= Cardinality(claimed.tokens)

-----------------------------------------------------------------------------
(* The claim.                                                               *)

Filled(stated, missing, read) == IF stated = missing THEN read ELSE stated
FilledFields(p, w) ==
  [p EXCEPT !.value = Filled(@, None, w.value), !.unit = Filled(@, None, w.unit),
            !.reporting = Filled(@, None, w.reporting),
            !.baseline = Filled(@, None, w.baseline),
            !.direction = Filled(@, "unknown", w.direction),
            !.metric = Filled(@, NoText, w.metric)]

\* Mutant: a comparison the model is silent about stays an equality.
MergeKeepingEquality(p, w) ==
  LET approximate == p.approximate \/ w.approximate
  IN  [FilledFields(p, w) EXCEPT !.comparison = IF approximate THEN "~" ELSE @,
                                 !.approximate = approximate]

\* What the model left open is read from the wording.
MergeClaim(p, w) ==
  LET approximate == p.approximate \/ w.approximate
  IN  [FilledFields(p, w) EXCEPT
        !.comparison = IF approximate THEN "~" ELSE Filled(@, "=", w.comparison),
        !.approximate = approximate]

-----------------------------------------------------------------------------
(* One claim, one fact.                                                     *)

Note(status, blocking) == [status |-> status, blocking |-> blocking]

SubjectNote(c, f) ==
  IF c.subject = None \/ f.subject = None THEN Note("missing", FALSE)
  ELSE IF \/ c.subject = f.subject
          \/ <<c.subject, f.subject>> \in Within \/ <<f.subject, c.subject>> \in Within
    THEN Note("match", FALSE)
  ELSE Note("mismatch", TRUE)

UnitNote(c, f) ==
  IF c.unit = None \/ f.unit = None THEN Note("missing", c.unit # f.unit)
  ELSE IF UnitConversion(c.unit, f.unit) = None THEN Note("mismatch", TRUE)
  ELSE Note("match", FALSE)

ReportingNote(c, f) ==
  LET claimed == NormalizePeriod(c.reporting)
      stated == NormalizePeriod(f.reporting)
  IN  IF claimed # None /\ stated # None
        THEN IF claimed = stated THEN Note("match", FALSE) ELSE Note("mismatch", TRUE)
        ELSE Note("missing", claimed # None)

BaselineNote(c, f) ==
  LET claimed == NormalizePeriod(c.baseline)
      stated == NormalizePeriod(f.baseline)
  IN  IF claimed = stated THEN Note(IF claimed = None THEN "missing" ELSE "match", FALSE)
      ELSE Note(IF claimed # None /\ stated # None THEN "mismatch" ELSE "missing", TRUE)

ScopeNote(c, f) ==
  LET stated == Else(f.scope, f.metric)
  IN  IF ScopesComparable(Else(c.scope, c.metric), stated) THEN Note("match", FALSE)
      ELSE Note(IF stated = NoText THEN "missing" ELSE "mismatch", TRUE)

\* Mutant: another metric is only reported.
MetricNoteReported(c, f) ==
  IF MetricOverlaps(c.metric, f.metric) THEN Note("match", FALSE)
  ELSE Note(IF f.metric = NoText THEN "missing" ELSE "mismatch", f.metric = NoText)

MetricNote(c, f) ==
  IF MetricOverlaps(c.metric, f.metric) THEN Note("match", FALSE)
  ELSE Note(IF f.metric = NoText THEN "missing" ELSE "mismatch", TRUE)

\* Reported, and never in the way.
GeographyNote(c, f) ==
  IF c.geography = None \/ f.geography = None THEN Note("missing", FALSE)
  ELSE Note(IF c.geography = f.geography THEN "match" ELSE "mismatch", FALSE)

Report(c, f) ==
  [ subject |-> SubjectNote(c, f), unit |-> UnitNote(c, f),
    reporting_period |-> ReportingNote(c, f), baseline_period |-> BaselineNote(c, f),
    scope |-> ScopeNote(c, f), metric |-> MetricNote(c, f),
    geography |-> GeographyNote(c, f) ]
Qualifiers == {"subject", "unit", "reporting_period", "baseline_period", "scope", "metric",
               "geography"}
CheckedBefore(q) ==
  CASE q = "subject" -> {}
    [] q = "unit" -> {"subject"}
    [] q = "reporting_period" -> {"subject", "unit"}
    [] q = "baseline_period" -> {"subject", "unit", "reporting_period"}
    [] q = "scope" -> {"subject", "unit", "reporting_period", "baseline_period"}
    [] q = "metric" -> {"subject", "unit", "reporting_period", "baseline_period", "scope"}
    [] q = "geography" -> Qualifiers \ {"geography"}

\* The first check that stands in the way is the reason given.
FirstBlocker(report) ==
  CHOOSE q \in Qualifiers :
    report[q].blocking /\ \A earlier \in CheckedBefore(q) : ~report[earlier].blocking

\* A bound, on magnitude where there is a direction.
Bounded(operator, claimed, observed, direction) ==
  LET sized == direction \in {"decrease", "increase"}
      left == IF sized THEN Magnitude(observed) ELSE observed
      right == IF sized THEN Magnitude(claimed) ELSE claimed
  IN  CASE operator = ">=" -> AtLeast(left, right)
        [] operator = ">"  -> ~AtLeast(right, left)
        [] operator = "<=" -> AtLeast(right, left)
        [] operator = "<"  -> ~AtLeast(left, right)

ApplyOperator(operator, claimed, observed, direction, approximate) ==
  IF operator \in Bounds THEN Bounded(operator, claimed, observed, direction)
  ELSE ValuesAgree(claimed, observed, approximate \/ operator = "~")

\* The claimed figure, in the unit of the fact and with the sign of its direction,
\* which is the fact's where the claim states none.
Agrees(c, f) ==
  LET stated == IF c.unit = None THEN c.value
                ELSE Times(c.value, UnitConversion(c.unit, f.unit))
      direction == IF c.direction # "unknown" THEN c.direction ELSE f.direction
  IN  ApplyOperator(c.comparison, SignedChange(stated, direction), f.value, direction,
                    c.approximate)

Compared(outcome, reason, report) ==
  [outcome |-> outcome, reason |-> reason, qualifiers |-> report]
CompareDetailed(c, f) ==
  LET report == Report(c, f)
      blocked == \E q \in Qualifiers : report[q].blocking
  IN  IF c.value = None \/ f.value = None THEN Compared("incomparable", "no_value", report)
      ELSE IF blocked THEN Compared("incomparable", FirstBlocker(report), report)
      ELSE Compared(IF Agrees(c, f) THEN "match" ELSE "conflict", "arithmetic", report)

-----------------------------------------------------------------------------
(* parse_claim, and the loop over the facts.                                *)

Init ==
  /\ pc = "parse"
  /\ parsed = None /\ wording = None /\ claim = None /\ fact = None /\ result = None

\* The model may not answer, and the wording is all there is.
ParseClaim ==
  /\ pc = "parse"
  /\ wording' \in Wordings
  /\ \/ parsed' = None /\ claim' = wording'
     \/ parsed' \in Parses /\ claim' = MergeClaim(parsed', wording')
  /\ pc' = "compare"
  /\ UNCHANGED <<fact, result>>

CompareFact ==
  /\ pc = "compare"
  /\ fact' \in Facts
  /\ result' = CompareDetailed(claim, fact')
  /\ pc' = "compared"
  /\ UNCHANGED <<parsed, wording, claim>>

\* The loop comes round: no comparison depends on another.
NextFact ==
  /\ pc = "compared"
  /\ fact' = None /\ result' = None
  /\ pc' = "compare"
  /\ UNCHANGED <<parsed, wording, claim>>

Next == ParseClaim \/ CompareFact \/ NextFact

Spec == Init /\ [][Next]_vars

-----------------------------------------------------------------------------
(* Properties.                                                              *)

Statuses == {"match", "mismatch", "missing"}
Outcomes == {"match", "conflict", "incomparable"}
Result ==
  [ outcome : Outcomes, reason : Qualifiers \union {"no_value", "arithmetic"},
    qualifiers : [Qualifiers -> [status : Statuses, blocking : BOOLEAN]] ]
Decided == pc = "compared" /\ result.outcome # "incomparable"

TypeOK ==
  /\ pc \in {"parse", "compare", "compared"}
  /\ parsed \in Parses \union {None}
  /\ pc # "parse" => wording \in Wordings /\ claim \in ParsedClaim
  /\ pc = "compared" => fact \in Facts /\ result \in Result

\* A verdict by arithmetic is only given on like quantities: the same entity, period
\* and baseline, units of one quantity, and scopes of which both are stated and one
\* says all that the other does; what is missing is missing on both sides, but for a
\* subject, or a reporting period the claim does not state.
DecidedOnLikeQuantities ==
  Decided =>
    /\ claim.subject # None /\ fact.subject # None =>
         \/ claim.subject = fact.subject
         \/ <<claim.subject, fact.subject>> \in Within
         \/ <<fact.subject, claim.subject>> \in Within
    /\ NormalizePeriod(claim.baseline) = NormalizePeriod(fact.baseline)
    /\ claim.reporting # None => NormalizePeriod(claim.reporting) = NormalizePeriod(fact.reporting)
    /\ \/ claim.unit = fact.unit
       \/ {claim.unit, fact.unit} \subseteq Units /\
          UnitBase[claim.unit].base = UnitBase[fact.unit].base
    /\ LET claimed == Else(claim.scope, claim.metric).markers
           stated  == Else(fact.scope, fact.metric).markers
       IN  claimed \intersect stated \in {claimed, stated} \ {{}}

\* The explanation and the verdict are one story: a comparison refused for a reason
\* shows that reason as a qualifier that does not match, and one that was made
\* shows no mismatch but, perhaps, of the geography.
ExplanationAgrees ==
  pc = "compared" =>
    /\ result.reason \in Qualifiers => result.qualifiers[result.reason].status # "match"
    /\ Decided => \A q \in Qualifiers \ {"geography"} : result.qualifiers[q].status # "mismatch"

\* The unit a report happens to print its figure in does not decide a claim that
\* states its figure outright or as a bound: restated exactly in any other unit of
\* the same quantity, the fact gets the same outcome.
Restated(f, u) ==
  [f EXCEPT !.unit = u,
            !.value = Quotient(Times(@, UnitBase[f.unit].factor), UnitBase[u].factor)]
SameUnits(u) == {t \in Units : UnitBase[t].base = UnitBase[u].base}
SameInEveryUnit ==
  \A u \in SameUnits(fact.unit) :
    CompareDetailed(claim, Restated(fact, u)).outcome = result.outcome
HasUnits == fact.unit \in Units /\ claim.unit \in Units /\ fact.value # None
RescalingIsNeutral ==
  Decided /\ HasUnits /\ ~claim.approximate => SameInEveryUnit

\* A hedged claim is satisfied within half a unit of its own last digit, the half
\* itself included only where it rounds to the claimed figure (values_agree,
\* against its definition as an interval).
WithinHalfDigit(c, o) ==
  LET low == Lower(c, o)
      digit == 10^(c.exp - low)
      claimed == In(c, low)
      observed == In(o, low)
  IN  IF claimed = 0 THEN 2 * Size(observed) < digit
      ELSE /\ claimed > 0 <=> observed > 0
           /\ 2 * Size(claimed) - digit <= 2 * Size(observed)
           /\ 2 * Size(observed) < 2 * Size(claimed) + digit
HedgeIsHalfADigit ==
  Decided /\ claim.comparison = "~" /\ claim.unit = fact.unit =>
    LET direction == IF claim.direction # "unknown" THEN claim.direction ELSE fact.direction
    IN  result.outcome = "match"
          <=> WithinHalfDigit(SignedChange(claim.value, direction), fact.value)

\* A bound the wording states is decided as that bound though the model did not
\* notice it, unless the claim is hedged.
BoundSurvivesParse ==
  Decided /\ parsed # None /\ wording.comparison \in Bounds /\ parsed.comparison = "="
    /\ ~claim.approximate =>
      CompareDetailed([claim EXCEPT !.comparison = wording.comparison], fact).outcome
        = result.outcome

-----------------------------------------------------------------------------
(* What the documentation says, and the code does not do.                   *)

\* README: "A hedge ... is compared at the precision the claim was written to", which
\* no unit of the source changes.
HedgeHoldsInEveryUnit ==
  Decided /\ HasUnits /\ claim.comparison = "~" => SameInEveryUnit

=============================================================================
