--------------------------- MODULE ComparisonProofs ---------------------------
(***************************************************************************)
(* Proofs about Comparison, for every claim the model may return, every    *)
(* reading of its wording and every fact.                                  *)
(***************************************************************************)
EXTENDS Comparison, TLAPS

Notes == [status : Statuses, blocking : BOOLEAN]

-----------------------------------------------------------------------------
(* The report on the qualifiers.                                            *)

\* What a note says: it is well formed, what blocks does not match, and a mismatch
\* blocks, but for the geography's.
LEMMA NoteTypes ==
  ASSUME NEW status \in Statuses, NEW blocking \in BOOLEAN
  PROVE  Note(status, blocking) \in Notes
  BY DEF Note, Notes

LEMMA NotesExplain ==
  ASSUME NEW c, NEW f
  PROVE  /\ \A note \in {SubjectNote(c, f), UnitNote(c, f), ReportingNote(c, f),
                         BaselineNote(c, f), ScopeNote(c, f), MetricNote(c, f)} :
              /\ note \in Notes
              /\ note.blocking => note.status # "match"
              /\ note.status = "mismatch" => note.blocking
         /\ GeographyNote(c, f) \in Notes /\ ~GeographyNote(c, f).blocking
<1> DEFINE Explains(note) == /\ note \in Notes
                             /\ note.blocking => note.status # "match"
                             /\ note.status = "mismatch" => note.blocking
<1>1. Explains(Note("match", FALSE)) /\ Explains(Note("mismatch", TRUE))
  BY DEF Note, Notes, Statuses
<1>2. ASSUME NEW blocking \in BOOLEAN PROVE Explains(Note("missing", blocking))
  BY DEF Note, Notes, Statuses
<1>3. Explains(SubjectNote(c, f))
  BY <1>1, <1>2 DEF SubjectNote
<1>4. Explains(UnitNote(c, f))
  <2>1. (c.unit # f.unit) \in BOOLEAN
    OBVIOUS
  <2> QED
    BY <1>1, <1>2, <2>1 DEF UnitNote
<1>5. Explains(ReportingNote(c, f))
  <2>1. (NormalizePeriod(c.reporting) # None) \in BOOLEAN
    OBVIOUS
  <2> QED
    BY <1>1, <1>2, <2>1 DEF ReportingNote
<1>6. Explains(BaselineNote(c, f))
  BY <1>1, <1>2 DEF BaselineNote
<1>7. Explains(ScopeNote(c, f)) /\ Explains(MetricNote(c, f))
  BY <1>1, <1>2 DEF ScopeNote, MetricNote
<1>8. GeographyNote(c, f) \in Notes /\ ~GeographyNote(c, f).blocking
  BY DEF GeographyNote, Note, Notes, Statuses
<1> QED
  BY <1>3, <1>4, <1>5, <1>6, <1>7, <1>8

LEMMA ReportExplains ==
  ASSUME NEW c, NEW f
  PROVE  /\ Report(c, f) \in [Qualifiers -> Notes]
         /\ \A q \in Qualifiers : Report(c, f)[q].blocking => Report(c, f)[q].status # "match"
         /\ \A q \in Qualifiers \ {"geography"} :
              Report(c, f)[q].status = "mismatch" => Report(c, f)[q].blocking
<1>1. Report(c, f) =
        [q \in Qualifiers |->
           CASE q = "subject" -> SubjectNote(c, f)
             [] q = "unit" -> UnitNote(c, f)
             [] q = "reporting_period" -> ReportingNote(c, f)
             [] q = "baseline_period" -> BaselineNote(c, f)
             [] q = "scope" -> ScopeNote(c, f)
             [] q = "metric" -> MetricNote(c, f)
             [] q = "geography" -> GeographyNote(c, f)]
  BY DEF Report, Qualifiers
<1>2. /\ Report(c, f)["subject"] = SubjectNote(c, f)
      /\ Report(c, f)["unit"] = UnitNote(c, f)
      /\ Report(c, f)["reporting_period"] = ReportingNote(c, f)
      /\ Report(c, f)["baseline_period"] = BaselineNote(c, f)
      /\ Report(c, f)["scope"] = ScopeNote(c, f)
      /\ Report(c, f)["metric"] = MetricNote(c, f)
      /\ Report(c, f)["geography"] = GeographyNote(c, f)
  BY DEF Report
<1>3. \A q \in Qualifiers : Report(c, f)[q] \in Notes
  BY <1>2, NotesExplain DEF Qualifiers
<1>4. Report(c, f) \in [Qualifiers -> Notes]
  BY <1>1, <1>3
<1> QED
  BY <1>2, <1>4, NotesExplain DEF Qualifiers


\* Where something blocks, the first blocker is one of the qualifiers that do.
LEMMA FirstBlockerBlocks ==
  ASSUME NEW report, NEW q \in Qualifiers, report[q].blocking
  PROVE  FirstBlocker(report) \in Qualifiers /\ report[FirstBlocker(report)].blocking
<1> DEFINE First(p) == /\ report[p].blocking
                       /\ \A earlier \in CheckedBefore(p) : ~report[earlier].blocking
<1>1. \E p \in Qualifiers : First(p)
  <2>1. CASE report["subject"].blocking
    <3>1. First("subject")
      BY <2>1 DEF CheckedBefore
    <3> QED
      BY <3>1 DEF Qualifiers
  <2>2. CASE ~report["subject"].blocking /\ report["unit"].blocking
    <3>1. First("unit")
      BY <2>2 DEF CheckedBefore
    <3> QED
      BY <3>1 DEF Qualifiers
  <2>3. CASE /\ ~report["subject"].blocking /\ ~report["unit"].blocking
             /\ report["reporting_period"].blocking
    <3>1. First("reporting_period")
      BY <2>3 DEF CheckedBefore
    <3> QED
      BY <3>1 DEF Qualifiers
  <2>4. CASE /\ ~report["subject"].blocking /\ ~report["unit"].blocking
             /\ ~report["reporting_period"].blocking /\ report["baseline_period"].blocking
    <3>1. First("baseline_period")
      BY <2>4 DEF CheckedBefore
    <3> QED
      BY <3>1 DEF Qualifiers
  <2>5. CASE /\ ~report["subject"].blocking /\ ~report["unit"].blocking
             /\ ~report["reporting_period"].blocking /\ ~report["baseline_period"].blocking
             /\ report["scope"].blocking
    <3>1. First("scope")
      BY <2>5 DEF CheckedBefore
    <3> QED
      BY <3>1 DEF Qualifiers
  <2>6. CASE /\ ~report["subject"].blocking /\ ~report["unit"].blocking
             /\ ~report["reporting_period"].blocking /\ ~report["baseline_period"].blocking
             /\ ~report["scope"].blocking /\ report["metric"].blocking
    <3>1. First("metric")
      BY <2>6 DEF CheckedBefore
    <3> QED
      BY <3>1 DEF Qualifiers
  <2>7. CASE \A p \in Qualifiers \ {"geography"} : ~report[p].blocking
    <3>1. q = "geography"
      BY <2>7
    <3>2. First("geography")
      BY <2>7, <3>1 DEF CheckedBefore
    <3> QED
      BY <3>2 DEF Qualifiers
  <2> QED
    BY <2>1, <2>2, <2>3, <2>4, <2>5, <2>6, <2>7 DEF Qualifiers
<1> QED
  BY <1>1 DEF FirstBlocker

-----------------------------------------------------------------------------
(* One comparison.                                                          *)

LEMMA ComparisonExplains ==
  ASSUME NEW c, NEW f, NEW r, r = CompareDetailed(c, f)
  PROVE  /\ r \in Result /\ r.qualifiers = Report(c, f)
         /\ r.reason \in Qualifiers => Report(c, f)[r.reason].blocking
         /\ r.outcome # "incomparable" => \A q \in Qualifiers : ~Report(c, f)[q].blocking
<1>1. PICK report : report = Report(c, f)
  OBVIOUS
<1>2. report \in [Qualifiers -> Notes]
  BY <1>1, ReportExplains
<1>3. "no_value" \notin Qualifiers /\ "arithmetic" \notin Qualifiers
  BY DEF Qualifiers
<1>4. CASE c.value = None \/ f.value = None
  <2>1. r = Compared("incomparable", "no_value", report)
    BY <1>1, <1>4 DEF CompareDetailed
  <2>2. r.outcome = "incomparable" /\ r.reason = "no_value" /\ r.qualifiers = report
    BY <2>1 DEF Compared
  <2>3. r \in Result
    BY <1>2, <2>1 DEF Compared, Result, Notes, Outcomes, Qualifiers
  <2> QED
    BY <1>1, <1>3, <2>2, <2>3
<1>5. CASE ~(c.value = None \/ f.value = None) /\ \E q \in Qualifiers : report[q].blocking
  <2>1. r = Compared("incomparable", FirstBlocker(report), report)
    BY <1>1, <1>5 DEF CompareDetailed
  <2>2. FirstBlocker(report) \in Qualifiers /\ report[FirstBlocker(report)].blocking
    BY <1>5, FirstBlockerBlocks
  <2>3. r.outcome = "incomparable" /\ r.reason = FirstBlocker(report) /\ r.qualifiers = report
    BY <2>1 DEF Compared
  <2>4. r \in Result
    BY <1>2, <2>1, <2>2 DEF Compared, Result, Notes, Outcomes, Qualifiers
  <2> QED
    BY <1>1, <2>2, <2>3, <2>4
<1>6. CASE ~(c.value = None \/ f.value = None) /\ ~\E q \in Qualifiers : report[q].blocking
  <2>1. PICK outcome \in {"match", "conflict"} : r = Compared(outcome, "arithmetic", report)
    BY <1>1, <1>6 DEF CompareDetailed
  <2>2. r \in Result /\ r.reason = "arithmetic" /\ r.qualifiers = report
    BY <1>2, <2>1 DEF Compared, Result, Notes, Outcomes, Qualifiers
  <2> QED
    BY <1>1, <1>3, <1>6, <2>2
<1> QED
  BY <1>4, <1>5, <1>6

-----------------------------------------------------------------------------
(* Types.                                                                   *)

\* A parsed claim, without the validator's condition.
Record ==
  [ subject : Stated, metric : Texts, scope : Texts, value : {None} \union Decimals,
    unit : Stated, direction : Directions, comparison : Bounds \union {"=", "~"},
    approximate : BOOLEAN, reporting : Stated, baseline : Stated, geography : Stated ]

LEMMA MergeTypes ==
  ASSUME NEW p \in ParsedClaim, NEW w \in ParsedClaim
  PROVE  MergeClaim(p, w) \in ParsedClaim
<1>1. /\ p \in Record /\ w \in Record
      /\ p.comparison = "~" => p.approximate
      /\ w.comparison = "~" => w.approximate
  BY DEF ParsedClaim, Record
<1>2. /\ Filled(p.value, None, w.value) \in {None} \union Decimals
      /\ Filled(p.unit, None, w.unit) \in Stated
      /\ Filled(p.reporting, None, w.reporting) \in Stated
      /\ Filled(p.baseline, None, w.baseline) \in Stated
      /\ Filled(p.direction, "unknown", w.direction) \in Directions
      /\ Filled(p.metric, NoText, w.metric) \in Texts
  BY <1>1 DEF Filled, Record
<1>3. /\ FilledFields(p, w) \in Record
      /\ FilledFields(p, w).comparison = p.comparison
  <2>1. FilledFields(p, w) \in Record
    BY <1>1, <1>2 DEF FilledFields, Record
  <2>2. FilledFields(p, w).comparison = p.comparison
    BY <1>1 DEF FilledFields, Record
  <2> QED
    BY <2>1, <2>2
<1>4. PICK approximate \in BOOLEAN : approximate = (p.approximate \/ w.approximate)
  BY <1>1 DEF Record
<1>5. PICK comparison \in Bounds \union {"=", "~"} :
        /\ comparison = IF approximate THEN "~" ELSE Filled(p.comparison, "=", w.comparison)
        /\ comparison = "~" => approximate
  BY <1>1, <1>4 DEF Filled, Record
<1>6. MergeClaim(p, w) =
        [FilledFields(p, w) EXCEPT !.comparison = comparison, !.approximate = approximate]
  BY <1>3, <1>4, <1>5 DEF MergeClaim
<1> QED
  BY <1>3, <1>5, <1>6 DEF ParsedClaim, Record

LEMMA InitTypeOK == Init => TypeOK
  BY DEF Init, TypeOK

LEMMA StepTypeOK == TypeOK /\ [Next]_vars => TypeOK'
<1> SUFFICES ASSUME TypeOK, [Next]_vars PROVE TypeOK'
  OBVIOUS
<1>1. CASE ParseClaim
  <2>1. wording' \in ParsedClaim
    BY <1>1, ConstantsAssumption DEF ParseClaim
  <2>2. parsed' \in Parses \union {None} /\ claim' \in ParsedClaim
    BY <1>1, <2>1, MergeTypes, ConstantsAssumption DEF ParseClaim
  <2> QED
    BY <1>1, <2>2 DEF ParseClaim, TypeOK
<1>2. CASE CompareFact
  <2>1. result' \in Result
    BY <1>2, ComparisonExplains DEF CompareFact
  <2> QED
    BY <1>2, <2>1 DEF CompareFact, TypeOK
<1>3. CASE NextFact
  BY <1>3 DEF NextFact, TypeOK
<1>4. CASE UNCHANGED vars
  BY <1>4 DEF vars, TypeOK
<1> QED
  BY <1>1, <1>2, <1>3, <1>4 DEF Next

\* Whatever the model returns and the wording says, the merged claim is one the
\* comparison is defined on, and a rounding always comes with its hedge.
THEOREM TypeCorrect == Spec => []TypeOK
<1>1. TypeOK /\ [Next]_vars => TypeOK'
  BY StepTypeOK
<1> QED
  BY InitTypeOK, <1>1, PTL DEF Spec

-----------------------------------------------------------------------------
(* What a comparison shows.                                                 *)

\* The result is that of the claim and the fact it is stored with.
ResultIsOfFact == pc = "compared" => result = CompareDetailed(claim, fact)

LEMMA AlwaysOfFact == Spec => []ResultIsOfFact
<1>1. Init => ResultIsOfFact
  BY DEF Init, ResultIsOfFact
<1>2. ResultIsOfFact /\ [Next]_vars => ResultIsOfFact'
  BY DEF ResultIsOfFact, Next, ParseClaim, CompareFact, NextFact, vars
<1> QED
  BY <1>1, <1>2, PTL DEF Spec

\* The verdict and its explanation never disagree, whatever is compared.
THEOREM ExplanationsAgree == Spec => []ExplanationAgrees
<1>1. ResultIsOfFact => ExplanationAgrees
  <2> SUFFICES ASSUME ResultIsOfFact, pc = "compared"
               PROVE  /\ result.reason \in Qualifiers =>
                           result.qualifiers[result.reason].status # "match"
                      /\ result.outcome # "incomparable" =>
                           \A q \in Qualifiers \ {"geography"} :
                             result.qualifiers[q].status # "mismatch"
    BY DEF ExplanationAgrees, Decided
  <2>1. /\ result.qualifiers = Report(claim, fact)
        /\ result.reason \in Qualifiers => Report(claim, fact)[result.reason].blocking
        /\ result.outcome # "incomparable" =>
             \A q \in Qualifiers : ~Report(claim, fact)[q].blocking
    BY ComparisonExplains DEF ResultIsOfFact
  <2> QED
    BY <2>1, ReportExplains
<1> QED
  BY <1>1, AlwaysOfFact, PTL

\* Arithmetic only ever decides between like quantities, whatever the claim and the
\* facts are.
THEOREM LikeQuantities == Spec => []DecidedOnLikeQuantities
<1>1. ResultIsOfFact => DecidedOnLikeQuantities
  <2> SUFFICES ASSUME ResultIsOfFact, Decided PROVE DecidedOnLikeQuantities
    BY DEF DecidedOnLikeQuantities
  <2>1. \A q \in Qualifiers : ~Report(claim, fact)[q].blocking
    BY ComparisonExplains DEF ResultIsOfFact, Decided
  <2>2. /\ ~SubjectNote(claim, fact).blocking /\ ~UnitNote(claim, fact).blocking
        /\ ~ReportingNote(claim, fact).blocking /\ ~BaselineNote(claim, fact).blocking
        /\ ~ScopeNote(claim, fact).blocking
    BY <2>1 DEF Report, Qualifiers
  <2>3. claim.subject # None /\ fact.subject # None =>
          \/ claim.subject = fact.subject
          \/ <<claim.subject, fact.subject>> \in Within
          \/ <<fact.subject, claim.subject>> \in Within
    BY <2>2 DEF SubjectNote, Note
  <2>4. \/ claim.unit = fact.unit
        \/ {claim.unit, fact.unit} \subseteq Units /\
           UnitBase[claim.unit].base = UnitBase[fact.unit].base
    BY <2>2 DEF UnitNote, UnitConversion, Note
  <2>5. claim.reporting # None => NormalizePeriod(claim.reporting) = NormalizePeriod(fact.reporting)
    <3>1. claim.reporting # None => NormalizePeriod(claim.reporting) # None
      BY ConstantsAssumption DEF NormalizePeriod
    <3> QED
      BY <2>2, <3>1 DEF ReportingNote, Note
  <2>6. NormalizePeriod(claim.baseline) = NormalizePeriod(fact.baseline)
    BY <2>2 DEF BaselineNote, Note
  <2> DEFINE claimed == Else(claim.scope, claim.metric).markers
             stated  == Else(fact.scope, fact.metric).markers
  <2>7. claimed \intersect stated \in {claimed, stated} \ {{}}
    <3>1. /\ claimed # {} /\ stated # {}
          /\ claimed \subseteq stated \/ stated \subseteq claimed
      BY <2>2 DEF ScopeNote, ScopesComparable, Note
    <3> HIDE DEF claimed, stated
    <3> QED
      BY <3>1
  <2> QED
    BY <2>3, <2>4, <2>5, <2>6, <2>7 DEF DecidedOnLikeQuantities
<1> QED
  BY <1>1, AlwaysOfFact, PTL

-----------------------------------------------------------------------------
(* The bound in the wording.                                                *)

\* The claim is the merger of the two parses, where there are two.
ClaimIsMerged ==
  parsed # None => parsed \in Parses /\ wording \in Wordings /\ claim = MergeClaim(parsed, wording)

LEMMA AlwaysMerged == Spec => []ClaimIsMerged
<1>1. Init => ClaimIsMerged
  BY DEF Init, ClaimIsMerged
<1>2. ClaimIsMerged /\ [Next]_vars => ClaimIsMerged'
  BY DEF ClaimIsMerged, Next, ParseClaim, CompareFact, NextFact, vars
<1> QED
  BY <1>1, <1>2, PTL DEF Spec

\* What the merger makes of the comparison.
LEMMA MergedComparison ==
  ASSUME NEW p \in ParsedClaim, NEW w \in ParsedClaim
  PROVE  /\ MergeClaim(p, w).approximate = (p.approximate \/ w.approximate)
         /\ MergeClaim(p, w).comparison =
              IF p.approximate \/ w.approximate THEN "~" ELSE Filled(p.comparison, "=", w.comparison)
<1>1. p \in Record /\ w \in Record
  BY DEF ParsedClaim, Record
<1>2. /\ "approximate" \in DOMAIN FilledFields(p, w) /\ "comparison" \in DOMAIN FilledFields(p, w)
      /\ FilledFields(p, w).comparison = p.comparison
  BY <1>1 DEF FilledFields, Record
<1> QED
  BY <1>2 DEF MergeClaim

\* A bound the wording states decides, whatever the model took the claim for, unless
\* the claim is hedged (facts.py merge_claim).
THEOREM BoundsSurvive == Spec => []BoundSurvivesParse
<1>1. ResultIsOfFact /\ ClaimIsMerged => BoundSurvivesParse
  <2> SUFFICES ASSUME ResultIsOfFact, ClaimIsMerged, Decided, parsed # None,
                      wording.comparison \in Bounds, parsed.comparison = "=", ~claim.approximate
               PROVE  CompareDetailed([claim EXCEPT !.comparison = wording.comparison], fact).outcome
                        = result.outcome
    BY DEF BoundSurvivesParse
  <2>1. parsed \in ParsedClaim /\ wording \in ParsedClaim /\ claim = MergeClaim(parsed, wording)
    BY ConstantsAssumption DEF ClaimIsMerged
  <2>2. claim \in Record
    BY <2>1, MergeTypes DEF ParsedClaim, Record
  <2>3. claim.comparison = wording.comparison
    BY <2>1, MergedComparison DEF Filled
  <2>4. [claim EXCEPT !.comparison = wording.comparison] = claim
    BY <2>2, <2>3 DEF Record
  <2>5. result = CompareDetailed(claim, fact)
    BY DEF ResultIsOfFact, Decided
  <2> QED
    BY <2>4, <2>5
<1> QED
  BY <1>1, AlwaysOfFact, AlwaysMerged, PTL

-----------------------------------------------------------------------------
(* The hedge.                                                               *)

\* Powers of ten, as far as the solver computes them.
LEMMA PowerPositive ==
  ASSUME NEW n \in 0 .. 11
  PROVE  10^n \in Nat \ {0}
<1>1. /\ 10^0 > 0 /\ 10^1 > 0 /\ 10^2 > 0 /\ 10^3 > 0 /\ 10^4 > 0 /\ 10^5 > 0
      /\ 10^6 > 0 /\ 10^7 > 0 /\ 10^8 > 0 /\ 10^9 > 0 /\ 10^10 > 0 /\ 10^11 > 0
  BY Z3
<1>2. \/ n = 0 \/ n = 1 \/ n = 2 \/ n = 3 \/ n = 4 \/ n = 5
      \/ n = 6 \/ n = 7 \/ n = 8 \/ n = 9 \/ n = 10 \/ n = 11
  OBVIOUS
<1>3. 10^n > 0
  BY <1>1, <1>2, Zenon
<1>4. 10^n \in Int
  OBVIOUS
<1> QED
  BY <1>3, <1>4

\* The quotient is k exactly within a unit of it.
LEMMA QuotientIs ==
  ASSUME NEW a \in Nat, NEW b \in Nat \ {0}, NEW k \in Nat
  PROVE  a \div b = k <=> k * b <= a /\ a < (k + 1) * b
<1> DEFINE q == a \div b
           r == a % b
<1>1. q \in Nat /\ r \in 0 .. b - 1 /\ a = b * q + r
  OBVIOUS
<1> HIDE DEF q, r
<1>2. q = k => k * b <= a /\ a < (k + 1) * b
  <2>1. SUFFICES ASSUME q = k PROVE k * b <= a /\ a < (k + 1) * b
    OBVIOUS
  <2>2. b * q = k * b /\ (k + 1) * b = k * b + b
    BY <2>1, <1>1
  <2> QED
    BY <1>1, <2>2
<1>3. k * b <= a => ~(q < k)
  <2>1. SUFFICES ASSUME k * b <= a, q < k PROVE FALSE
    OBVIOUS
  <2>2. (q + 1) * b <= k * b /\ (q + 1) * b = b * q + b
    BY <2>1, <1>1
  <2> QED
    BY <1>1, <2>1, <2>2
<1>4. a < (k + 1) * b => ~(q > k)
  <2>1. SUFFICES ASSUME a < (k + 1) * b, q > k PROVE FALSE
    OBVIOUS
  <2>2. (k + 1) * b <= b * q
    BY <2>1, <1>1
  <2> QED
    BY <1>1, <2>1, <2>2
<1> QED
  BY <1>1, <1>2, <1>3, <1>4 DEF q

\* The figures of claims and facts whose last digits are at most 11 places apart.
Near(c, o) == c.exp - o.exp \in -11 .. 11

\* Both sides counted at the claim's own last digit.
LEMMA Coarser ==
  ASSUME NEW c \in Decimals, NEW o \in Decimals, Near(c, o), o.exp >= c.exp
  PROVE  ValuesAgree(c, o, TRUE) <=> WithinHalfDigit(c, o)
<1> DEFINE x == 10^(o.exp - c.exp)
           C == c.coef
           n == o.coef
           O == n * x
<1>1. C \in Int /\ n \in Int /\ c.exp \in Int /\ o.exp \in Int
  BY DEF Decimals
<1>2. x \in Nat \ {0}
  <2>1. o.exp - c.exp \in 0 .. 11
    BY <1>1 DEF Near
  <2> QED
    BY <2>1, PowerPositive
<1>3. c.exp - c.exp = 0 /\ 10^0 = 1 /\ 10^(c.exp - c.exp) = 1
  <2>1. c.exp - c.exp = 0
    BY <1>1
  <2>2. 10^0 = 1
    OBVIOUS
  <2> QED
    BY <2>1, <2>2
<1>4. Lower(c, o) = c.exp /\ Lower(o, c) = c.exp
  BY <1>1 DEF Lower
<1>5. In(c, c.exp) = C /\ In(o, c.exp) = O
  BY <1>1, <1>3 DEF In
<1>6. O \in Int /\ (n < 0 <=> O < 0) /\ (n > 0 <=> O > 0)
  <2> HIDE DEF x, n
  <2>1. n * x \in Int
    BY <1>1, <1>2
  <2>2. n < 0 => n * x < 0
    BY <1>1, <1>2
  <2>3. n > 0 => n * x > 0
    BY <1>1, <1>2
  <2>4. n = 0 => n * x = 0
    BY <1>1, <1>2
  <2> QED
    BY <1>1, <2>1, <2>2, <2>3, <2>4
<1> DEFINE q == Quantize(o, c.exp)
<1>7. q = Decimal(IF n < 0 THEN -Size(O) ELSE Size(O), c.exp)
  BY <1>1, <1>5 DEF Quantize
<1> HIDE DEF x, C, n, O
<1>8. q = Decimal(O, c.exp)
  BY <1>6, <1>7 DEF Size
<1>9. q.coef = O /\ q.exp = c.exp
  BY <1>8 DEF Decimal
<1> HIDE DEF q
<1>10. SameNumber(q, c) <=> O = C
  <2>1. Lower(q, c) = c.exp
    BY <1>1, <1>9 DEF Lower
  <2>2. In(q, c.exp) = O
    BY <1>3, <1>6, <1>9 DEF In
  <2> QED
    BY <1>5, <2>1, <2>2 DEF SameNumber
<1>11. SameNumber(c, o) <=> O = C
  BY <1>4, <1>5 DEF SameNumber
<1>12. ValuesAgree(c, o, TRUE) <=> O = C
  BY <1>10, <1>11 DEF ValuesAgree, q
<1>13. WithinHalfDigit(c, o) <=>
         IF C = 0 THEN 2 * Size(O) < 1
         ELSE /\ C > 0 <=> O > 0
              /\ 2 * Size(C) - 1 <= 2 * Size(O)
              /\ 2 * Size(O) < 2 * Size(C) + 1
  BY <1>3, <1>4, <1>5 DEF WithinHalfDigit
<1>14. C \in Int
  BY <1>1 DEF C
<1>15. WithinHalfDigit(c, o) <=> O = C
  BY <1>6, <1>13, <1>14 DEF Size
<1> QED
  BY <1>12, <1>15

LEMMA Finer ==
  ASSUME NEW c \in Decimals, NEW o \in Decimals, Near(c, o), o.exp < c.exp
  PROVE  ValuesAgree(c, o, TRUE) <=> WithinHalfDigit(c, o)
<1> DEFINE D == 10^(c.exp - o.exp)
           k == c.coef
           O == o.coef
           C == k * D
<1>1. k \in Int /\ O \in Int /\ c.exp \in Int /\ o.exp \in Int
  BY DEF Decimals
<1>2. D \in Nat \ {0}
  <2>1. c.exp - o.exp \in 0 .. 11
    BY <1>1 DEF Near
  <2> QED
    BY <2>1, PowerPositive
<1>3. 10^(c.exp - c.exp) = 1 /\ 10^(o.exp - o.exp) = 1
  <2>1. c.exp - c.exp = 0 /\ o.exp - o.exp = 0
    BY <1>1
  <2>2. 10^0 = 1
    OBVIOUS
  <2> QED
    BY <2>1, <2>2
<1>4. Lower(c, o) = o.exp
  BY <1>1 DEF Lower
<1>5. In(c, o.exp) = C /\ In(o, o.exp) = O /\ In(c, c.exp) = k
  BY <1>1, <1>3 DEF In
<1> DEFINE w == (2 * Size(O) + D) \div (2 * D)
           q == Quantize(o, c.exp)
<1>6. q = Decimal(IF O < 0 THEN -w ELSE w, c.exp)
  BY <1>1 DEF Quantize
<1>7. Size(O) \in Nat /\ Size(k) \in Nat
  BY <1>1 DEF Size
<1> HIDE DEF D, k, O
<1>8. 2 * Size(O) + D \in Nat /\ 2 * D \in Nat \ {0}
  BY <1>2, <1>7
<1>9. w = Size(k) <=> /\ Size(k) * (2 * D) <= 2 * Size(O) + D
                      /\ 2 * Size(O) + D < (Size(k) + 1) * (2 * D)
  BY <1>7, <1>8, QuotientIs
<1>10. w \in Nat
  BY <1>8
<1> HIDE DEF w, q
<1> DEFINE m == Size(k) * D
<1>11. m \in Nat /\ Size(k) * (2 * D) = 2 * m /\ (Size(k) + 1) * (2 * D) = 2 * m + 2 * D
  BY <1>2, <1>7
<1>12. C \in Int /\ Size(C) = m /\ (k > 0 <=> C > 0) /\ (k = 0 <=> C = 0)
  <2>1. C \in Int
    BY <1>1, <1>2
  <2>2. k > 0 => C > 0 /\ m = C
    BY <1>1, <1>2 DEF Size
  <2>3. k < 0 => C < 0 /\ m = -C
    BY <1>1, <1>2 DEF Size
  <2>4. k = 0 => C = 0 /\ m = 0
    BY <1>1, <1>2 DEF Size
  <2> HIDE DEF C, m
  <2>5. k < 0 \/ k = 0 \/ k > 0
    BY <1>1
  <2>6. k \in Int
    BY <1>1
  <2> QED
    BY <1>11, <2>1, <2>2, <2>3, <2>4, <2>5, <2>6 DEF Size
<1>13. /\ k \in Int /\ O \in Int
  BY <1>1
<1> HIDE DEF C, m
<1>14. w = Size(k) <=> 2 * m - D <= 2 * Size(O) /\ 2 * Size(O) < 2 * m + D
  BY <1>2, <1>7, <1>9, <1>11
<1>15. WithinHalfDigit(c, o) <=>
         IF C = 0 THEN 2 * Size(O) < D
         ELSE /\ C > 0 <=> O > 0
              /\ 2 * m - D <= 2 * Size(O) /\ 2 * Size(O) < 2 * m + D
  BY <1>4, <1>5, <1>12 DEF WithinHalfDigit, D
<1>16. q.coef = (IF O < 0 THEN -w ELSE w) /\ q.exp = c.exp
  BY <1>6 DEF Decimal, q
<1>17. SameNumber(q, c) <=> (IF O < 0 THEN -w ELSE w) = k
  <2>1. Lower(q, c) = c.exp
    BY <1>1, <1>16 DEF Lower
  <2>2. In(q, c.exp) = (IF O < 0 THEN -w ELSE w)
    BY <1>3, <1>10, <1>16 DEF In
  <2> QED
    BY <1>5, <2>1, <2>2 DEF SameNumber
<1>18. SameNumber(c, o) <=> C = O
  BY <1>4, <1>5 DEF SameNumber
<1>19. ValuesAgree(c, o, TRUE) <=> C = O \/ (IF O < 0 THEN -w ELSE w) = k
  BY <1>17, <1>18 DEF ValuesAgree, q
<1>20. CASE k = 0
  <2>1. WithinHalfDigit(c, o) <=> 2 * Size(O) < D
    BY <1>12, <1>15, <1>20
  <2>2. m = 0
    BY <1>12, <1>20 DEF Size
  <2>3. w = 0 <=> 2 * Size(O) < D
    BY <1>2, <1>7, <1>14, <1>20, <2>2 DEF Size
  <2>4. C = O => 2 * Size(O) < D
    BY <1>2, <1>12, <1>20, <1>13 DEF Size
  <2>5. (IF O < 0 THEN -w ELSE w) = k <=> w = 0
    BY <1>10, <1>20
  <2> QED
    BY <1>19, <2>1, <2>3, <2>4, <2>5
<1>21. CASE k # 0
  <2>1. WithinHalfDigit(c, o) <=> (C > 0 <=> O > 0) /\ w = Size(k)
    BY <1>12, <1>14, <1>15, <1>21
  <2>2. C = O => w = Size(k)
    BY <1>2, <1>7, <1>12, <1>14
  <2>3. w = Size(k) => O # 0
    <3>1. SUFFICES ASSUME w = Size(k), O = 0 PROVE FALSE
      OBVIOUS
    <3>2. 2 * m - D <= 0
      BY <1>14, <3>1 DEF Size
    <3>3. m >= D
      <4>1. Size(k) >= 1
        BY <1>13, <1>21 DEF Size
      <4> QED
        BY <4>1, <1>2, <1>7 DEF m
    <3> QED
      BY <1>2, <1>11, <3>2, <3>3
  <2>4. (IF O < 0 THEN -w ELSE w) = k <=> w = Size(k) /\ (k > 0 <=> O > 0)
    BY <1>10, <1>13, <1>21, <2>3 DEF Size
  <2>5. C = O => (C > 0 <=> O > 0)
    OBVIOUS
  <2> QED
    BY <1>12, <1>19, <2>1, <2>2, <2>4, <2>5
<1> QED
  BY <1>20, <1>21

\* A claimed figure is one a parse stated.
ClaimIsStated ==
  pc # "parse" => \E c \in Parses \union Wordings : claim.value = c.value

LEMMA AlwaysStated == Spec => []ClaimIsStated
<1>1. Init => ClaimIsStated
  BY DEF Init, ClaimIsStated
<1>2. ClaimIsStated /\ [Next]_vars => ClaimIsStated'
  <2> SUFFICES ASSUME ClaimIsStated, [Next]_vars PROVE ClaimIsStated'
    OBVIOUS
  <2>1. CASE ParseClaim /\ parsed' = None /\ claim' = wording'
    BY <2>1 DEF ParseClaim, ClaimIsStated
  <2>2. CASE ParseClaim /\ parsed' \in Parses /\ claim' = MergeClaim(parsed', wording')
    <3>1. parsed' \in ParsedClaim /\ wording' \in Wordings
      BY <2>2, ConstantsAssumption DEF ParseClaim
    <3>2. parsed' \in Record
      BY <3>1 DEF ParsedClaim, Record
    <3>3. claim'.value = Filled(parsed'.value, None, wording'.value)
      BY <2>2, <3>2 DEF MergeClaim, FilledFields, Record
    <3> QED
      BY <2>2, <3>1, <3>3 DEF Filled, ClaimIsStated
  <2>3. CASE CompareFact \/ NextFact \/ UNCHANGED vars
    BY <2>3 DEF CompareFact, NextFact, vars, ClaimIsStated
  <2> QED
    BY <2>1, <2>2, <2>3 DEF Next, ParseClaim
<1> QED
  BY <1>1, <1>2, PTL DEF Spec

\* No figure is stated, and none printed, with more than 11 places between its last
\* digit and that of the other.
FiguresNear ==
  \A c \in Parses \union Wordings, f \in Facts :
    c.value # None /\ f.value # None => Near(c.value, f.value)

\* A direction gives a figure its sign and leaves its last digit where it is.
LEMMA SignKeepsPlaces ==
  ASSUME NEW v \in Decimals, NEW d
  PROVE  SignedChange(v, d) \in Decimals /\ SignedChange(v, d).exp = v.exp
<1>1. Size(v.coef) \in Int /\ v.exp \in Int
  BY DEF Size, Decimals
<1>2. Magnitude(v) \in Decimals /\ Magnitude(v).exp = v.exp
  BY <1>1 DEF Magnitude, Decimals
<1>3. ASSUME NEW a \in Decimals PROVE Minus(a) \in Decimals /\ Minus(a).exp = a.exp
  BY DEF Minus, Decimals
<1>4. CASE d = "decrease"
  BY <1>2, <1>3, <1>4 DEF SignedChange
<1>5. CASE d = "increase"
  BY <1>2, <1>5 DEF SignedChange
<1>6. CASE d # "decrease" /\ d # "increase"
  BY <1>6 DEF SignedChange
<1> QED
  BY <1>4, <1>5, <1>6

\* A hedged claim is satisfied by exactly the figures that are within half a unit of
\* its last digit (facts.py values_agree), whatever its sign, its precision and that
\* of the fact.
THEOREM HedgesRound ==
  ASSUME FiguresNear
  PROVE  Spec => []HedgeIsHalfADigit
<1>1. TypeOK /\ ResultIsOfFact /\ ClaimIsStated => HedgeIsHalfADigit
  <2> DEFINE direction == IF claim.direction # "unknown" THEN claim.direction ELSE fact.direction
             claimed == SignedChange(claim.value, direction)
  <2> SUFFICES ASSUME TypeOK, ResultIsOfFact, ClaimIsStated, Decided,
                      claim.comparison = "~", claim.unit = fact.unit
               PROVE  result.outcome = "match" <=> WithinHalfDigit(claimed, fact.value)
    BY DEF HedgeIsHalfADigit
  <2>1. /\ result = CompareDetailed(claim, fact) /\ result.outcome # "incomparable"
        /\ claim \in Record /\ fact \in Fact /\ fact \in Facts
    BY ConstantsAssumption DEF TypeOK, ResultIsOfFact, Decided, ParsedClaim, Record
  <2>2. /\ claim.value # None /\ fact.value # None
        /\ result.outcome = "match" <=> Agrees(claim, fact)
    BY <2>1 DEF CompareDetailed, Compared
  <2>3. claim.value \in Decimals /\ fact.value \in Decimals
    BY <2>1, <2>2 DEF Record, Fact
  <2>4. Near(claim.value, fact.value)
    <3>1. PICK c \in Parses \union Wordings : claim.value = c.value
      BY DEF ClaimIsStated, Decided
    <3> QED
      BY <3>1, <2>1, <2>2 DEF FiguresNear
  <2>5. claimed \in Decimals /\ claimed.exp = claim.value.exp
    BY <2>3, SignKeepsPlaces
  <2>6. (IF claim.unit = None THEN claim.value
         ELSE Times(claim.value, UnitConversion(claim.unit, fact.unit))) = claim.value
    <3>1. UnitConversion(claim.unit, fact.unit) = Decimal(1, 0)
      BY DEF UnitConversion
    <3>2. Times(claim.value, Decimal(1, 0)) = claim.value
      BY <2>3 DEF Times, Decimal, Decimals
    <3> QED
      BY <3>1, <3>2
  <2>7. Agrees(claim, fact) <=> ValuesAgree(claimed, fact.value, TRUE)
    <3>1. Agrees(claim, fact) <=>
            ApplyOperator(claim.comparison, claimed, fact.value, direction, claim.approximate)
      BY <2>6 DEF Agrees
    <3>2. "~" \notin Bounds
      BY DEF Bounds
    <3> QED
      BY <3>1, <3>2, <2>1 DEF ApplyOperator, ValuesAgree
  <2>8. Near(claimed, fact.value)
    BY <2>4, <2>5 DEF Near
  <2>9. ValuesAgree(claimed, fact.value, TRUE) <=> WithinHalfDigit(claimed, fact.value)
    <3>1. claimed.exp \in Int /\ fact.value.exp \in Int
      BY <2>3, <2>5 DEF Decimals
    <3>2. fact.value.exp >= claimed.exp \/ fact.value.exp < claimed.exp
      BY <3>1
    <3> HIDE DEF claimed
    <3> QED
      BY <2>3, <2>5, <2>8, <3>2, Coarser, Finer
  <2> QED
    BY <2>2, <2>7, <2>9
<1> QED
  BY <1>1, TypeCorrect, AlwaysOfFact, AlwaysStated, PTL

-----------------------------------------------------------------------------
(* Another unit.                                                            *)

LEMMA PowerNext ==
  ASSUME NEW n \in 0 .. 10
  PROVE  10^(n + 1) = 10 * 10^n
<1>1. /\ 10^1 = 10 * 10^0 /\ 10^2 = 10 * 10^1 /\ 10^3 = 10 * 10^2 /\ 10^4 = 10 * 10^3
      /\ 10^5 = 10 * 10^4 /\ 10^6 = 10 * 10^5 /\ 10^7 = 10 * 10^6 /\ 10^8 = 10 * 10^7
      /\ 10^9 = 10 * 10^8 /\ 10^10 = 10 * 10^9 /\ 10^11 = 10 * 10^10
  BY Z3
<1>2. \/ n = 0 /\ n + 1 = 1
      \/ n = 1 /\ n + 1 = 2
      \/ n = 2 /\ n + 1 = 3
      \/ n = 3 /\ n + 1 = 4
      \/ n = 4 /\ n + 1 = 5
      \/ n = 5 /\ n + 1 = 6
      \/ n = 6 /\ n + 1 = 7
      \/ n = 7 /\ n + 1 = 8
      \/ n = 8 /\ n + 1 = 9
      \/ n = 9 /\ n + 1 = 10
      \/ n = 10 /\ n + 1 = 11
  OBVIOUS
<1> QED
  BY <1>1, <1>2, Zenon

\* The law of exponents, as far as the solver computes powers.
Law(j) == \A i \in 0 .. 11 : i + j <= 11 => 10^(i + j) = 10^i * 10^j

LEMMA LawNext ==
  ASSUME NEW j \in 0 .. 10, Law(j)
  PROVE  Law(j + 1)
<1> SUFFICES ASSUME NEW i \in 0 .. 11, i + (j + 1) <= 11
             PROVE  10^(i + (j + 1)) = 10^i * 10^(j + 1)
  BY DEF Law
<1>1. i + j \in 0 .. 10 /\ i + j <= 11 /\ i + (j + 1) = (i + j) + 1
  OBVIOUS
<1>2. 10^((i + j) + 1) = 10 * 10^(i + j)
  BY <1>1, PowerNext
<1>3. 10^(i + j) = 10^i * 10^j
  BY <1>1, Zenon DEF Law
<1>4. 10^(j + 1) = 10 * 10^j
  BY PowerNext
<1> DEFINE x == 10^i
           y == 10^j
<1>5. x \in Int /\ y \in Int
  BY PowerPositive
<1> HIDE DEF x, y
<1>6. 10 * (x * y) = x * (10 * y)
  BY <1>5
<1> QED
  BY <1>1, <1>2, <1>3, <1>4, <1>6 DEF x, y

LEMMA PowerSum ==
  ASSUME NEW i \in 0 .. 11, NEW j \in 0 .. 11, i + j <= 11
  PROVE  10^(i + j) = 10^i * 10^j
<1>1. Law(0)
  <2> SUFFICES ASSUME NEW k \in 0 .. 11 PROVE 10^(k + 0) = 10^k * 10^0
    BY DEF Law
  <2>1. k + 0 = k
    OBVIOUS
  <2>2. 10^0 = 1
    OBVIOUS
  <2>3. 10^k \in Int
    BY PowerPositive
  <2>4. 10^k * 1 = 10^k
    BY <2>3
  <2> QED
    BY <2>1, <2>2, <2>4
<1>2. ASSUME NEW k \in 0 .. 10, NEW l, l = k + 1, Law(k)
      PROVE  Law(l)
  BY <1>2, LawNext
<1>3. Law(1)
  BY <1>1, <1>2
<1>4. Law(2)
  BY <1>2, <1>3
<1>5. Law(3)
  BY <1>2, <1>4
<1>6. Law(4)
  BY <1>2, <1>5
<1>7. Law(5)
  BY <1>2, <1>6
<1>8. Law(6)
  BY <1>2, <1>7
<1>9. Law(7)
  BY <1>2, <1>8
<1>10. Law(8)
  BY <1>2, <1>9
<1>11. Law(9)
  BY <1>2, <1>10
<1>12. Law(10)
  BY <1>2, <1>11
<1>13. Law(11)
  BY <1>2, <1>12
<1>14. \/ j = 0 \/ j = 1 \/ j = 2 \/ j = 3 \/ j = 4 \/ j = 5
       \/ j = 6 \/ j = 7 \/ j = 8 \/ j = 9 \/ j = 10 \/ j = 11
  OBVIOUS
<1>15. Law(j)
  BY <1>1, <1>3, <1>4, <1>5, <1>6, <1>7, <1>8, <1>9, <1>10, <1>11, <1>12, <1>13, <1>14, Zenon
<1> QED
  BY <1>15 DEF Law

\* A figure that is counted in 10^E.
Counts(a, E) == a \in Decimals /\ E \in Int /\ a.exp - E \in 0 .. 11

LEMMA InFiner ==
  ASSUME NEW a, NEW E, Counts(a, E), NEW L \in Int, E <= L, L <= a.exp
  PROVE  In(a, L) \in Int /\ In(a, E) = In(a, L) * 10^(L - E)
<1> DEFINE i == a.exp - L
           j == L - E
<1>1. i \in 0 .. 11 /\ j \in 0 .. 11 /\ a.exp - E = i + j /\ i + j <= 11 /\ a.coef \in Int
  BY DEF Counts, Decimals
<1> HIDE DEF i, j
<1>2. 10^(i + j) = 10^i * 10^j /\ 10^i \in Int /\ 10^j \in Int
  <2>1. 10^(i + j) = 10^i * 10^j
    BY <1>1, PowerSum, Zenon
  <2> QED
    BY <1>1, <2>1, PowerPositive
<1> DEFINE x == 10^i
           y == 10^j
           k == a.coef
<1>3. x \in Int /\ y \in Int /\ k \in Int
  BY <1>1, <1>2
<1> HIDE DEF x, y, k
<1>4. k * (x * y) = (k * x) * y /\ k * x \in Int
  BY <1>3
<1> QED
  BY <1>1, <1>2, <1>4 DEF In, i, j, x, y, k

\* Numbers compare as their counts do, in any unit both can be counted in.
LEMMA ComparedByCount ==
  ASSUME NEW a, NEW b, NEW E, Counts(a, E), Counts(b, E)
  PROVE  /\ In(a, E) \in Int /\ In(b, E) \in Int
         /\ SameNumber(a, b) <=> In(a, E) = In(b, E)
         /\ AtLeast(a, b) <=> In(a, E) >= In(b, E)
<1> DEFINE L == Lower(a, b)
           x == In(a, L)
           y == In(b, L)
           t == 10^(L - E)
<1>1. L \in Int /\ E <= L /\ L <= a.exp /\ L <= b.exp /\ L - E \in 0 .. 11
  BY DEF Counts, Decimals, Lower
<1> HIDE DEF L
<1>2. x \in Int /\ y \in Int /\ In(a, E) = x * t /\ In(b, E) = y * t
  BY <1>1, InFiner
<1>3. t \in Nat \ {0}
  BY <1>1, PowerPositive
<1>4. (SameNumber(a, b) <=> x = y) /\ (AtLeast(a, b) <=> x >= y)
  BY DEF SameNumber, AtLeast, L
<1> HIDE DEF x, y, t
<1>5. /\ x * t \in Int /\ y * t \in Int
      /\ x = y => x * t = y * t
      /\ x > y => x * t > y * t
      /\ x < y => x * t < y * t
  BY <1>2, <1>3
<1> QED
  BY <1>2, <1>4, <1>5

\* Two figures of which one is n m-ths of the other.
Like(a, b, E, m, n) == Counts(a, E) /\ Counts(b, E) /\ m * In(b, E) = n * In(a, E)

LEMMA LikeCompare ==
  ASSUME NEW m \in Nat \ {0}, NEW n \in Nat \ {0}, NEW E, NEW a, NEW b, NEW c, NEW d,
         Like(a, b, E, m, n), Like(c, d, E, m, n)
  PROVE  (SameNumber(a, c) <=> SameNumber(b, d)) /\ (AtLeast(a, c) <=> AtLeast(b, d))
<1> DEFINE w == In(a, E)
           x == In(b, E)
           y == In(c, E)
           z == In(d, E)
<1>1. /\ w \in Int /\ x \in Int /\ y \in Int /\ z \in Int
      /\ (SameNumber(a, c) <=> w = y) /\ (SameNumber(b, d) <=> x = z)
      /\ (AtLeast(a, c) <=> w >= y) /\ (AtLeast(b, d) <=> x >= z)
  BY ComparedByCount DEF Like
<1>2. m * x = n * w /\ m * z = n * y
  BY DEF Like
<1> HIDE DEF w, x, y, z
<1>3. /\ w = y => n * w = n * y
      /\ w < y => n * w < n * y
      /\ w > y => n * w > n * y
      /\ x = z => m * x = m * z
      /\ x < z => m * x < m * z
      /\ x > z => m * x > m * z
      /\ m * x \in Int /\ m * z \in Int
  BY <1>1
<1> QED
  BY <1>1, <1>2, <1>3

LEMMA LikeSigned ==
  ASSUME NEW m \in Nat \ {0}, NEW n \in Nat \ {0}, NEW E, NEW a, NEW b, Like(a, b, E, m, n)
  PROVE  /\ Like(Magnitude(a), Magnitude(b), E, m, n)
         /\ \A direction : Like(SignedChange(a, direction), SignedChange(b, direction), E, m, n)
<1>1. ASSUME NEW v, Counts(v, E)
      PROVE  /\ Counts(Magnitude(v), E) /\ Counts(Minus(v), E)
             /\ In(v, E) \in Int
             /\ In(Magnitude(v), E) = Size(In(v, E)) /\ In(Minus(v), E) = -In(v, E)
  <2> DEFINE p == 10^(v.exp - E)
             k == v.coef
  <2>1. p \in Nat \ {0} /\ k \in Int
    BY <1>1, PowerPositive DEF Counts, Decimals
  <2>2. /\ Magnitude(v).coef = Size(k) /\ Magnitude(v).exp = v.exp
        /\ Minus(v).coef = -k /\ Minus(v).exp = v.exp
    BY <1>1 DEF Counts, Decimals, Magnitude, Minus
  <2>3. Size(k) \in Int /\ -k \in Int
    BY <2>1 DEF Size
  <2>4. Counts(Magnitude(v), E) /\ Counts(Minus(v), E)
    BY <1>1, <2>3 DEF Counts, Decimals, Magnitude, Minus
  <2>5. /\ In(v, E) = k * p /\ In(Magnitude(v), E) = Size(k) * p /\ In(Minus(v), E) = (-k) * p
    BY <2>2 DEF In
  <2> HIDE DEF p, k
  <2>6. k * p \in Int /\ (-k) * p = -(k * p) /\ Size(k) * p = Size(k * p)
    <3>1. k * p \in Int /\ (-k) * p = -(k * p)
      BY <2>1
    <3>2. CASE k < 0
      <4>1. k * p < 0
        BY <2>1, <3>2
      <4> QED
        BY <3>1, <3>2, <4>1 DEF Size
    <3>3. CASE k >= 0
      <4>1. k * p >= 0
        BY <2>1, <3>3
      <4> QED
        BY <2>1, <3>1, <3>3, <4>1 DEF Size
    <3> QED
      BY <2>1, <3>1, <3>2, <3>3
  <2> QED
    BY <2>4, <2>5, <2>6
<1>2. Counts(a, E) /\ Counts(b, E) /\ m * In(b, E) = n * In(a, E)
  BY DEF Like
<1> DEFINE w == In(a, E)
           x == In(b, E)
<1>3. w \in Int /\ x \in Int /\ m * x = n * w
  BY <1>1, <1>2
<1>4. m * (-x) = n * (-w) /\ m * Size(x) = n * Size(w)
  <2> HIDE DEF w, x
  <2>1. m * (-x) = -(m * x) /\ n * (-w) = -(n * w) /\ m * x \in Int /\ n * w \in Int
    BY <1>3
  <2>2. /\ x < 0 => m * x < 0
        /\ x = 0 => m * x = 0
        /\ x > 0 => m * x > 0
        /\ w < 0 => n * w < 0
        /\ w = 0 => n * w = 0
        /\ w > 0 => n * w > 0
    BY <1>3
  <2>3. x < 0 <=> w < 0
    BY <1>3, <2>1, <2>2
  <2> QED
    BY <1>3, <2>1, <2>3 DEF Size
<1>5. Like(Magnitude(a), Magnitude(b), E, m, n) /\ Like(Minus(a), Minus(b), E, m, n)
  BY <1>1, <1>2, <1>4 DEF Like
<1>6. Like(Minus(Magnitude(a)), Minus(Magnitude(b)), E, m, n)
  <2> DEFINE r == Magnitude(a)
             s == Magnitude(b)
  <2>1. Counts(r, E) /\ Counts(s, E) /\ m * In(s, E) = n * In(r, E)
    BY <1>5 DEF Like
  <2> HIDE DEF r, s
  <2>2. /\ Counts(Minus(r), E) /\ Counts(Minus(s), E) /\ In(r, E) \in Int /\ In(s, E) \in Int
        /\ In(Minus(r), E) = -In(r, E) /\ In(Minus(s), E) = -In(s, E)
    BY <1>1, <2>1
  <2>3. m * (-In(s, E)) = n * (-In(r, E))
    BY <2>1, <2>2
  <2>4. Like(Minus(r), Minus(s), E, m, n)
    BY <2>2, <2>3 DEF Like
  <2> QED
    BY <2>4 DEF r, s
<1>7. ASSUME NEW direction
      PROVE  Like(SignedChange(a, direction), SignedChange(b, direction), E, m, n)
  <2>1. CASE direction = "decrease"
    BY <2>1, <1>6 DEF SignedChange
  <2>2. CASE direction = "increase"
    BY <2>2, <1>5 DEF SignedChange
  <2>3. CASE direction # "decrease" /\ direction # "increase"
    BY <2>3 DEF SignedChange
  <2> QED
    BY <2>1, <2>2, <2>3
<1> QED
  BY <1>5, <1>7

\* What is asked of two figures is answered alike of two others that are like them.
LEMMA LikeApply ==
  ASSUME NEW m \in Nat \ {0}, NEW n \in Nat \ {0}, NEW E, NEW a, NEW b, NEW c, NEW d,
         Like(a, b, E, m, n), Like(c, d, E, m, n),
         NEW operator \in Bounds \union {"="}, NEW direction
  PROVE  ApplyOperator(operator, a, c, direction, FALSE) <=>
           ApplyOperator(operator, b, d, direction, FALSE)
<1>1. /\ SameNumber(a, c) <=> SameNumber(b, d)
      /\ AtLeast(a, c) <=> AtLeast(b, d)
      /\ AtLeast(c, a) <=> AtLeast(d, b)
  BY LikeCompare
<1>2. /\ AtLeast(Magnitude(a), Magnitude(c)) <=> AtLeast(Magnitude(b), Magnitude(d))
      /\ AtLeast(Magnitude(c), Magnitude(a)) <=> AtLeast(Magnitude(d), Magnitude(b))
  <2>1. Like(Magnitude(a), Magnitude(b), E, m, n) /\ Like(Magnitude(c), Magnitude(d), E, m, n)
    BY LikeSigned
  <2> QED
    BY <2>1, LikeCompare
<1>3. CASE operator = "="
  <2>1. operator \notin Bounds /\ operator # "~"
    BY <1>3 DEF Bounds
  <2> QED
    BY <1>1, <2>1 DEF ApplyOperator, ValuesAgree
<1>4. CASE operator \in Bounds
  <2>1. Bounded(operator, a, c, direction) <=> Bounded(operator, b, d, direction)
    <3>1. operator = ">=" \/ operator = ">" \/ operator = "<=" \/ operator = "<"
      BY <1>4 DEF Bounds
    <3>2. CASE direction \in {"decrease", "increase"}
      BY <1>2, <3>1, <3>2 DEF Bounded
    <3>3. CASE direction \notin {"decrease", "increase"}
      BY <1>1, <3>1, <3>3 DEF Bounded
    <3> QED
      BY <3>2, <3>3
  <2> QED
    BY <1>4, <2>1 DEF ApplyOperator
<1> QED
  BY <1>3, <1>4

\* A quotient by the factor of a unit is exact.
LEMMA QuotientExact ==
  ASSUME NEW a \in Decimals, NEW b \in Decimals, b.coef \in {1, 100, 1000}
  PROVE  /\ Quotient(a, b) \in Decimals
         /\ \E k \in 0 .. 3 : /\ Quotient(a, b).coef * b.coef = a.coef * 10^k
                              /\ Quotient(a, b).exp = a.exp - b.exp - k
<1> DEFINE fits(k) == (a.coef * 10^k) % b.coef = 0
           shift == CHOOSE k \in 0 .. 9 : fits(k) /\ \A j \in 0 .. k - 1 : ~fits(j)
           n == a.coef * 10^shift
<1>1. a.coef \in Int /\ b.coef \in Int /\ a.exp \in Int /\ b.exp \in Int
  BY DEF Decimals
<1>2. fits(3)
  <2>1. 10^3 = 1000
    BY Z3
  <2>2. (a.coef * 1000) % 1 = 0 /\ (a.coef * 1000) % 100 = 0 /\ (a.coef * 1000) % 1000 = 0
    BY <1>1
  <2>3. (a.coef * 1000) % b.coef = 0
    BY <2>2
  <2> QED
    BY <2>1, <2>3
<1>3. Quotient(a, b) = Decimal(n \div b.coef, a.exp - b.exp - shift)
  BY DEF Quotient
<1> HIDE DEF fits
<1>4. shift \in 0 .. 9 /\ fits(shift) /\ \A j \in 0 .. shift - 1 : ~fits(j)
  <2>1. \E k \in 0 .. 9 : fits(k) /\ \A j \in 0 .. k - 1 : ~fits(j)
    <3>1. CASE fits(0)
      BY <3>1
    <3>2. CASE ~fits(0) /\ fits(1)
      BY <3>2
    <3>3. CASE ~fits(0) /\ ~fits(1) /\ fits(2)
      BY <3>3
    <3>4. CASE ~fits(0) /\ ~fits(1) /\ ~fits(2)
      BY <3>4, <1>2
    <3> QED
      BY <3>1, <3>2, <3>3, <3>4
  <2> QED
    BY <2>1
<1> HIDE DEF shift
<1>5. shift \in 0 .. 3
  BY <1>2, <1>4
<1>6. n \in Int /\ n % b.coef = 0
  <2>1. 10^shift \in Int
    BY <1>5, PowerPositive
  <2> QED
    BY <1>1, <1>4, <2>1 DEF fits
<1> HIDE DEF n
<1>7. n \div b.coef \in Int /\ (n \div b.coef) * b.coef = n
  <2>1. CASE b.coef = 1
    BY <2>1, <1>6
  <2>2. CASE b.coef = 100
    BY <2>2, <1>6
  <2>3. CASE b.coef = 1000
    BY <2>3, <1>6
  <2> QED
    BY <2>1, <2>2, <2>3
<1>8. /\ Quotient(a, b).coef = n \div b.coef /\ Quotient(a, b).exp = a.exp - b.exp - shift
      /\ Quotient(a, b) \in Decimals
  BY <1>1, <1>3, <1>5, <1>7 DEF Decimal, Decimals
<1>9. Quotient(a, b).coef * b.coef = n
  BY <1>7, <1>8
<1>10. n = a.coef * 10^shift
  BY DEF n
<1>11. /\ Quotient(a, b).coef * b.coef = a.coef * 10^shift
       /\ Quotient(a, b).exp = a.exp - b.exp - shift
  BY <1>8, <1>9, <1>10, Zenon
<1>12. \E k \in 0 .. 3 : /\ Quotient(a, b).coef * b.coef = a.coef * 10^k
                         /\ Quotient(a, b).exp = a.exp - b.exp - k
  <2> USE <1>5
  <2> WITNESS shift \in 0 .. 3
  <2> QED
    BY <1>11
<1> QED
  BY <1>8, <1>12, Zenon

Factor(u) == UnitBase[u].factor
SameQuantity(t, u) == t \in Units /\ u \in Units /\ UnitBase[t].base = UnitBase[u].base

LEMMA FactorOf ==
  ASSUME NEW u \in Units
  PROVE  Factor(u) \in Decimals /\ Factor(u).coef \in {1, 100, 1000} /\ Factor(u).exp = 0
  BY DEF Units, UnitBase, Factor, Decimal, Decimals

\* A unit in terms of another of its quantity, in thousandths.
LEMMA ConversionOf ==
  ASSUME NEW t, NEW u, SameQuantity(t, u)
  PROVE  LET conversion == UnitConversion(t, u)
         IN  /\ conversion \in Decimals /\ conversion.exp \in -3 .. 0
             /\ Factor(u).coef * (conversion.coef * 10^(conversion.exp + 3)) = Factor(t).coef * 1000
<1> DEFINE conversion == UnitConversion(t, u)
           f == Factor(t).coef
           g == Factor(u).coef
<1>1. t \in Units /\ u \in Units /\ UnitBase[t].base = UnitBase[u].base
  BY DEF SameQuantity
<1>2. /\ Factor(t) \in Decimals /\ Factor(u) \in Decimals /\ Factor(t).exp = 0 /\ Factor(u).exp = 0
      /\ f \in Nat /\ g \in {1, 100, 1000}
  BY <1>1, FactorOf
<1>3. 10^3 = 1000 /\ 10^0 = 1
  BY Z3
<1>4. CASE t = u
  <2>1. conversion = Decimal(1, 0)
    BY <1>4 DEF UnitConversion
  <2>2. conversion \in Decimals /\ conversion.coef = 1 /\ conversion.exp = 0
    BY <2>1 DEF Decimal, Decimals
  <2>3. 0 + 3 = 3
    OBVIOUS
  <2> HIDE DEF conversion
  <2> QED
    BY <1>2, <1>3, <1>4, <2>2, <2>3 DEF conversion
<1>5. CASE t # u
  <2>1. conversion = Quotient(Factor(t), Factor(u))
    BY <1>1, <1>5 DEF UnitConversion, Factor
  <2>2. conversion \in Decimals
    BY <1>2, <2>1, QuotientExact
  <2>3. PICK k \in 0 .. 3 : /\ conversion.coef * g = f * 10^k
                            /\ conversion.exp = Factor(t).exp - Factor(u).exp - k
    BY <1>2, <2>1, QuotientExact
  <2> HIDE DEF conversion
  <2>4. conversion.exp = -k /\ conversion.exp + 3 = 3 - k /\ k + (3 - k) = 3
    BY <1>2, <2>3
  <2>5. 10^k * 10^(3 - k) = 1000
    <3> DEFINE j == 3 - k
    <3>1. k \in 0 .. 11 /\ j \in 0 .. 11 /\ k + j <= 11 /\ k + j = 3
      OBVIOUS
    <3> HIDE DEF j
    <3>2. 10^(k + j) = 10^k * 10^j
      BY <3>1, PowerSum, Zenon
    <3> QED
      BY <1>3, <3>1, <3>2 DEF j
  <2> DEFINE x == 10^k
             y == 10^(3 - k)
             c == conversion.coef
  <2>6. x \in Int /\ y \in Int /\ c \in Int
    <3>1. k \in 0 .. 11 /\ 3 - k \in 0 .. 11
      OBVIOUS
    <3> QED
      BY <2>2, <3>1, PowerPositive DEF Decimals
  <2>7. c * g = f * x /\ x * y = 1000
    BY <2>3, <2>5
  <2> HIDE DEF x, y, c, f, g
  <2>8. g * (c * y) = f * 1000
    <3>1. g \in Int /\ f \in Int
      BY <1>2
    <3>2. g * (c * y) = (c * g) * y /\ (f * x) * y = f * (x * y)
      BY <2>6, <3>1
    <3> QED
      BY <2>7, <3>2
  <2> QED
    BY <2>2, <2>4, <2>8 DEF c, y, f, g, conversion
<1> QED
  BY <1>4, <1>5

\* Figures of at most 8 places between their last digits, and where to count them
\* with any factor of a unit.
Closer(c, o) == c.exp - o.exp \in -8 .. 8
Ground(c, o) == Lower(c, o) - 3

LEMMA GroundUnder ==
  ASSUME NEW c \in Decimals, NEW o \in Decimals, Closer(c, o)
  PROVE  LET E == Ground(c, o)
         IN  /\ E \in Int
             /\ c.exp - E - 3 \in 0 .. 8 /\ o.exp - E - 3 \in 0 .. 8
             /\ c.exp \in Int /\ o.exp \in Int /\ c.coef \in Int /\ o.coef \in Int
  BY DEF Decimals, Closer, Lower, Ground

\* A claimed figure converted into two units.
LEMMA ClaimRescaled ==
  ASSUME NEW v \in Decimals, NEW E \in Int, v.exp - E - 3 \in 0 .. 8,
         NEW t, NEW g, NEW u, SameQuantity(t, g), SameQuantity(t, u)
  PROVE  Like(Times(v, UnitConversion(t, g)), Times(v, UnitConversion(t, u)), E,
              Factor(u).coef, Factor(g).coef)
<1> DEFINE i == v.exp - E - 3
           p == 10^i
           k == v.coef
           f == Factor(t).coef
<1>1. i \in 0 .. 8 /\ p \in Int /\ k \in Int /\ f \in Int /\ v.exp \in Int
  <2>1. i \in 0 .. 11
    OBVIOUS
  <2> QED
    BY <2>1, PowerPositive, FactorOf DEF SameQuantity, Decimals
<1>2. ASSUME NEW s, SameQuantity(t, s)
      PROVE  LET a == Times(v, UnitConversion(t, s))
             IN  /\ Counts(a, E)
                 /\ Factor(s).coef * In(a, E) = (k * p) * (f * 1000)
  <2> DEFINE c == UnitConversion(t, s)
             a == Times(v, c)
             j == c.exp + 3
             q == 10^j
             h == Factor(s).coef
             m == c.coef
  <2>1. c \in Decimals /\ c.exp \in -3 .. 0 /\ h * (m * q) = f * 1000
    BY <1>2, ConversionOf
  <2>2. j \in 0 .. 3 /\ m \in Int
    BY <2>1 DEF Decimals
  <2>3. a.coef = k * m /\ a.exp = v.exp + c.exp /\ a.exp - E = i + j
    BY <1>1, <2>1 DEF Times, Decimal
  <2>4. k * m \in Int /\ v.exp + c.exp \in Int /\ i + j \in 0 .. 11
    BY <1>1, <2>1, <2>2
  <2>5. a \in Decimals
    BY <2>3, <2>4 DEF Times, Decimal, Decimals
  <2>6. Counts(a, E)
    BY <2>3, <2>4, <2>5 DEF Counts
  <2>7. 10^(i + j) = p * q /\ q \in Int
    <3>1. i \in 0 .. 11 /\ j \in 0 .. 11 /\ i + j <= 11
      BY <1>1, <2>2
    <3> HIDE DEF i, j
    <3>2. 10^(i + j) = 10^i * 10^j
      BY <3>1, PowerSum, Zenon
    <3> QED
      BY <3>1, <3>2, PowerPositive
  <2>8. In(a, E) = (k * m) * (p * q)
    BY <2>3, <2>7 DEF In
  <2>9. h \in Int
    BY <1>2, FactorOf DEF SameQuantity
  <2> HIDE DEF h, m, q, p, k, f, a
  <2>10. h * ((k * m) * (p * q)) = (k * p) * (h * (m * q))
    BY <1>1, <2>2, <2>7, <2>9
  <2>11. h * In(a, E) = (k * p) * (f * 1000)
    BY <2>1, <2>8, <2>10
  <2> QED
    BY <2>6, <2>11 DEF a, h, c
<1> HIDE DEF p, k, f
<1> QED
  BY <1>2 DEF Like

\* A printed figure restated in another unit.
LEMMA FactRescaled ==
  ASSUME NEW v \in Decimals, NEW E \in Int, v.exp - E - 3 \in 0 .. 8,
         NEW g \in Units, NEW u \in Units
  PROVE  Like(v, Quotient(Times(v, Factor(g)), Factor(u)), E, Factor(u).coef, Factor(g).coef)
<1> DEFINE i == v.exp - E - 3
           p == 10^i
           k == v.coef
           f == Factor(g).coef
           h == Factor(u).coef
           a == Times(v, Factor(g))
           r == Quotient(a, Factor(u))
<1>1. i \in 0 .. 8 /\ p \in Int /\ k \in Int /\ v.exp \in Int
  <2>1. i \in 0 .. 11
    OBVIOUS
  <2> QED
    BY <2>1, PowerPositive DEF Decimals
<1>2. /\ f \in {1, 100, 1000} /\ h \in {1, 100, 1000} /\ f \in Int /\ h \in Int
      /\ Factor(g).exp = 0 /\ Factor(u).exp = 0 /\ Factor(u) \in Decimals
  BY FactorOf
<1>3. a \in Decimals /\ a.coef = k * f /\ a.exp = v.exp
  <2>1. k * f \in Int /\ v.exp + Factor(g).exp = v.exp
    BY <1>1, <1>2
  <2> QED
    BY <1>1, <2>1 DEF Times, Decimal, Decimals
<1> HIDE DEF a
<1>4. r \in Decimals
  BY <1>2, <1>3, QuotientExact
<1>5. PICK s \in 0 .. 3 : r.coef * h = (k * f) * 10^s /\ r.exp = v.exp - s
  <2>1. PICK s \in 0 .. 3 : r.coef * h = a.coef * 10^s /\ r.exp = a.exp - Factor(u).exp - s
    BY <1>2, <1>3, QuotientExact
  <2>2. r.exp = v.exp - s
    BY <1>1, <1>2, <1>3, <2>1
  <2> QED
    BY <1>3, <2>1, <2>2
<1> HIDE DEF r
<1> DEFINE j == 3 - s
<1>6. /\ r.exp - E = i + j /\ v.exp - E = i + 3 /\ j \in 0 .. 3
      /\ i + j \in 0 .. 11 /\ i + 3 \in 0 .. 11
  BY <1>1, <1>5
<1>7. Counts(v, E) /\ Counts(r, E)
  BY <1>4, <1>6 DEF Counts
<1>8. 10^(i + j) = p * 10^j /\ 10^(i + 3) = p * 10^3 /\ 10^s * 10^j = 10^3
  <2>1. i \in 0 .. 11 /\ j \in 0 .. 11 /\ s \in 0 .. 11 /\ 3 \in 0 .. 11
    BY <1>1, <1>6
  <2>2. i + j <= 11 /\ i + 3 <= 11 /\ s + j <= 11 /\ s + j = 3
    BY <1>1, <1>6
  <2> HIDE DEF i, j
  <2>3. 10^(i + j) = 10^i * 10^j /\ 10^(i + 3) = 10^i * 10^3
    BY <2>1, <2>2, PowerSum, Zenon
  <2>4. 10^(s + j) = 10^s * 10^j
    BY <2>1, <2>2, PowerSum, Zenon
  <2> QED
    BY <2>2, <2>3, <2>4
<1> DEFINE x == 10^s
           y == 10^j
           z == 10^3
           c == r.coef
<1>9. x \in Int /\ y \in Int /\ z \in Int /\ c \in Int
  <2>1. s \in 0 .. 11 /\ j \in 0 .. 11 /\ 3 \in 0 .. 11
    BY <1>6
  <2> HIDE DEF j
  <2> QED
    BY <1>4, <2>1, PowerPositive DEF Decimals
<1>10. In(r, E) = c * (p * y) /\ In(v, E) = k * (p * z)
  BY <1>6, <1>8 DEF In
<1>11. c * h = (k * f) * x /\ x * y = z
  BY <1>5, <1>8
<1> HIDE DEF x, y, z, c, p, k, f, h
<1>12. h * (c * (p * y)) = f * (k * (p * z))
  <2>1. h * (c * (p * y)) = (c * h) * (p * y)
    BY <1>1, <1>2, <1>9
  <2>2. ((k * f) * x) * (p * y) = (f * (k * p)) * (x * y)
    BY <1>1, <1>2, <1>9
  <2>3. (f * (k * p)) * z = f * (k * (p * z))
    BY <1>1, <1>2, <1>9
  <2> QED
    BY <1>11, <2>1, <2>2, <2>3
<1> QED
  BY <1>7, <1>10, <1>12 DEF Like, f, h, r, a

\* No figure is stated, and none printed, with more than 8 places between its last
\* digit and that of the other; three more are what the units need.
FiguresClose ==
  \A c \in Parses \union Wordings, f \in Facts :
    c.value # None /\ f.value # None => Closer(c.value, f.value)

\* What is known of a claim and a fact that arithmetic decided.
LEMMA DecidedParts ==
  ASSUME NEW c \in Record, NEW f \in Fact, CompareDetailed(c, f).outcome # "incomparable"
  PROVE  /\ c.value \in Decimals /\ f.value \in Decimals
         /\ ~ \E q \in Qualifiers : Report(c, f)[q].blocking
         /\ CompareDetailed(c, f).outcome = IF Agrees(c, f) THEN "match" ELSE "conflict"
<1>1. c.value # None /\ f.value # None
  BY DEF CompareDetailed, Compared
<1>2. c.value \in Decimals /\ f.value \in Decimals
  BY <1>1 DEF Record, Fact
<1>3. ~ \E q \in Qualifiers : Report(c, f)[q].blocking
  BY <1>1 DEF CompareDetailed, Compared
<1> QED
  BY <1>1, <1>2, <1>3 DEF CompareDetailed, Compared

\* A restated fact is, but for its figure and its unit, the fact.
LEMMA RestatedIs ==
  ASSUME NEW f \in Fact, NEW u
  PROVE  LET r == Restated(f, u)
         IN  /\ r.unit = u /\ r.value = Quotient(Times(f.value, Factor(f.unit)), Factor(u))
             /\ r.subject = f.subject /\ r.metric = f.metric /\ r.scope = f.scope
             /\ r.direction = f.direction /\ r.reporting = f.reporting
             /\ r.baseline = f.baseline /\ r.geography = f.geography
  BY DEF Fact, Restated, Factor

\* Nor does a unit of the same quantity change what is said of the comparison.
LEMMA SameReport ==
  ASSUME NEW c, NEW f \in Fact, NEW u, SameQuantity(c.unit, f.unit), SameQuantity(c.unit, u)
  PROVE  Report(c, Restated(f, u)) = Report(c, f)
<1> DEFINE r == Restated(f, u)
<1>1. /\ r.unit = u /\ r.subject = f.subject /\ r.metric = f.metric /\ r.scope = f.scope
      /\ r.reporting = f.reporting /\ r.baseline = f.baseline /\ r.geography = f.geography
  BY RestatedIs
<1> HIDE DEF r
<1>2. ASSUME NEW x, SameQuantity(c.unit, x.unit)
      PROVE  UnitNote(c, x) = Note("match", FALSE)
  <2>1. UnitConversion(c.unit, x.unit) \in Decimals
    BY <1>2, ConversionOf
  <2>2. UnitConversion(c.unit, x.unit) # None /\ c.unit # None /\ x.unit # None
    BY <1>2, <2>1, NoneAssumption DEF SameQuantity
  <2> QED
    BY <2>2 DEF UnitNote
<1>3. UnitNote(c, r) = UnitNote(c, f)
  BY <1>1, <1>2
<1>4. /\ SubjectNote(c, r) = SubjectNote(c, f) /\ ReportingNote(c, r) = ReportingNote(c, f)
      /\ BaselineNote(c, r) = BaselineNote(c, f) /\ ScopeNote(c, r) = ScopeNote(c, f)
      /\ MetricNote(c, r) = MetricNote(c, f) /\ GeographyNote(c, r) = GeographyNote(c, f)
  BY <1>1 DEF SubjectNote, ReportingNote, BaselineNote, ScopeNote, MetricNote, GeographyNote
<1> QED
  BY <1>3, <1>4 DEF Report, r

\* The unit a report prints its figure in decides no claim that is stated outright
\* or as a bound (facts.py compare_detailed), whatever the figures.
THEOREM UnitsAreNeutral ==
  ASSUME FiguresClose
  PROVE  Spec => []RescalingIsNeutral
<1>1. TypeOK /\ ResultIsOfFact /\ ClaimIsStated => RescalingIsNeutral
  <2> SUFFICES ASSUME TypeOK, ResultIsOfFact, ClaimIsStated, Decided, HasUnits,
                      ~claim.approximate, NEW u \in SameUnits(fact.unit)
               PROVE  CompareDetailed(claim, Restated(fact, u)).outcome = result.outcome
    BY DEF RescalingIsNeutral, SameInEveryUnit
  <2> DEFINE r == Restated(fact, u)
             v == claim.value
             w == fact.value
             t == claim.unit
             g == fact.unit
             E == Ground(v, w)
             direction == IF claim.direction # "unknown" THEN claim.direction ELSE fact.direction
             here == Times(v, UnitConversion(t, g))
             there == Times(v, UnitConversion(t, u))
             m == Factor(u).coef
             n == Factor(g).coef
  <2>1. /\ result = CompareDetailed(claim, fact) /\ result.outcome # "incomparable"
        /\ claim \in ParsedClaim /\ claim \in Record /\ fact \in Fact /\ fact \in Facts
    BY ConstantsAssumption DEF TypeOK, ResultIsOfFact, Decided, ParsedClaim, Record
  <2>2. /\ v \in Decimals /\ w \in Decimals
        /\ ~ \E q \in Qualifiers : Report(claim, fact)[q].blocking
        /\ result.outcome = IF Agrees(claim, fact) THEN "match" ELSE "conflict"
    BY <2>1, DecidedParts
  <2>3. claim.comparison \in Bounds \union {"="}
    <3>1. claim.comparison # "~"
      BY <2>1 DEF ParsedClaim
    <3> QED
      BY <2>1, <3>1 DEF Record
  <2>4. t # None /\ g # None /\ t \in Units /\ g \in Units /\ u \in Units
    BY NoneAssumption DEF HasUnits, SameUnits
  <2>5. SameQuantity(t, g) /\ SameQuantity(t, u)
    <3>1. ~UnitNote(claim, fact).blocking
      <4>1. Report(claim, fact)["unit"] = UnitNote(claim, fact) /\ "unit" \in Qualifiers
        BY DEF Report, Qualifiers
      <4> QED
        BY <2>2, <4>1
    <3>2. UnitConversion(t, g) # None
      BY <2>4, <3>1 DEF UnitNote, Note
    <3>3. SameQuantity(t, g)
      BY <2>4, <3>2 DEF UnitConversion, SameQuantity
    <3>4. UnitBase[u].base = UnitBase[g].base
      BY DEF SameUnits
    <3> QED
      BY <2>4, <3>3, <3>4 DEF SameQuantity
  <2>6. Closer(v, w)
    <3>1. PICK c \in Parses \union Wordings : claim.value = c.value
      BY DEF ClaimIsStated, Decided
    <3>2. claim.value # None /\ fact.value # None
      BY <2>2, NoneAssumption
    <3> QED
      BY <2>1, <3>1, <3>2 DEF FiguresClose
  <2>7. /\ E \in Int /\ v.exp - E - 3 \in 0 .. 8 /\ w.exp - E - 3 \in 0 .. 8
        /\ m \in Nat \ {0} /\ n \in Nat \ {0}
    BY <2>2, <2>4, <2>6, GroundUnder, FactorOf
  <2>8. Like(here, there, E, m, n)
    <3> HIDE DEF E
    <3> QED
      BY <2>2, <2>5, <2>7, ClaimRescaled
  <2>9. /\ r.unit = u /\ r.direction = fact.direction
        /\ r.value = Quotient(Times(w, Factor(g)), Factor(u))
    BY <2>1, RestatedIs
  <2>10. Like(w, r.value, E, m, n) /\ r.value \in Decimals
    <3> HIDE DEF E
    <3>1. Like(w, r.value, E, m, n)
      BY <2>2, <2>4, <2>7, <2>9, FactRescaled
    <3> QED
      BY <3>1 DEF Like, Counts
  <2> HIDE DEF r, E, here, there, m, n
  <2>11. Like(SignedChange(here, direction), SignedChange(there, direction), E, m, n)
    BY <2>7, <2>8, LikeSigned
  <2>12. Agrees(claim, fact) <=>
           ApplyOperator(claim.comparison, SignedChange(here, direction), w, direction, FALSE)
    BY <2>1, <2>4 DEF Agrees, here, Record
  <2>13. Agrees(claim, r) <=>
           ApplyOperator(claim.comparison, SignedChange(there, direction), r.value, direction,
                         FALSE)
    BY <2>1, <2>4, <2>9 DEF Agrees, there, Record
  <2>14. Agrees(claim, fact) <=> Agrees(claim, r)
    <3> DEFINE a == SignedChange(here, direction)
               b == SignedChange(there, direction)
               c == r.value
    <3> HIDE DEF direction, v, w, t, g, a, b, c
    <3>1. Like(a, b, E, m, n) /\ Like(w, c, E, m, n)
      BY <2>10, <2>11 DEF a, b, c
    <3>2. ApplyOperator(claim.comparison, a, w, direction, FALSE)
            <=> ApplyOperator(claim.comparison, b, c, direction, FALSE)
      BY <2>3, <2>7, <3>1, LikeApply, Zenon
    <3> QED
      BY <2>12, <2>13, <3>2, Zenon DEF a, b, c
  <2>15. Report(claim, r) = Report(claim, fact)
    BY <2>1, <2>5, SameReport DEF r
  <2>16. claim.value # None /\ r.value # None
    BY <2>2, <2>10, NoneAssumption
  <2>17. CompareDetailed(claim, r).outcome = IF Agrees(claim, r) THEN "match" ELSE "conflict"
    BY <2>2, <2>15, <2>16 DEF CompareDetailed, Compared
  <2> QED
    BY <2>2, <2>14, <2>17 DEF r
<1> QED
  BY <1>1, TypeCorrect, AlwaysOfFact, AlwaysStated, PTL

=============================================================================
