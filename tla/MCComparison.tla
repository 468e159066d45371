----------------------------- MODULE MCComparison -----------------------------
(* Instances of Comparison for TLC. *)
EXTENDS Comparison

MCWithin == {<<"Danone", "Danone URD">>}

Scope12 == [markers |-> {"scope1", "scope2"}, tokens |-> {"emissions", "energy"}]
Scope1 == [markers |-> {"scope1"}, tokens |-> {"emissions"}]
Scope3 == [markers |-> {"scope3"}, tokens |-> {"emissions", "purchased"}]
Unscoped == [markers |-> {}, tokens |-> {"footprint", "total", "company"}]

\* 40, 40.0, 21.3 and 0, as claims write them.
Figures == {Decimal(40, 0), Decimal(400, -1), Decimal(213, -1), Decimal(0, 0)}
Plain ==
  [ subject |-> "Danone", metric |-> Scope12, scope |-> NoText, value |-> Decimal(40, 0),
    unit |-> "percent", direction |-> "decrease", comparison |-> "=", approximate |-> FALSE,
    reporting |-> "2024", baseline |-> None, geography |-> None ]

\* Claims about figures, and claims about other things than the facts are.
MCParses ==
  {[Plain EXCEPT !.value = v, !.unit = u, !.direction = d, !.comparison = o] :
     v \in Figures, u \in {"l", "m3"}, d \in {"decrease", "increase", "unknown"},
     o \in {"=", ">=", "<"}}
  \union
  {[Plain EXCEPT !.value = v, !.comparison = "~", !.approximate = TRUE, !.unit = u] :
     v \in Figures, u \in {"l", "m3"}}
  \union
  {[Plain EXCEPT !.subject = s, !.reporting = r, !.baseline = b] :
     s \in {"Danone URD", "Nestle", None}, r \in {"FY24", "FY2024", None},
     b \in {"FY24", "2020", None}}
  \union
  {[Plain EXCEPT !.scope = s, !.metric = m, !.unit = u, !.geography = g] :
     s \in {NoText, Scope1, Scope3}, m \in {NoText, Scope12, Unscoped},
     u \in {None, "percent", "widgets"}, g \in {None, "France"}}
  \union {[Plain EXCEPT !.value = None], [Plain EXCEPT !.approximate = TRUE]}

\* What the wording of such a claim states.
MCWordings ==
  {[Plain EXCEPT !.comparison = o, !.approximate = a, !.scope = Scope12] :
     o \in {"=", ">=", "<="}, a \in {FALSE}}
  \union {[Plain EXCEPT !.comparison = ">=", !.approximate = TRUE]}

Printed ==
  [ subject |-> "Danone", metric |-> Scope12, scope |-> Scope12, value |-> Decimal(-402, -1),
    unit |-> "percent", direction |-> "decrease", reporting |-> "2024", baseline |-> None,
    geography |-> None ]
MCFacts ==
  {[Printed EXCEPT !.value = v, !.unit = u, !.direction = d] :
     v \in {Decimal(-402, -1), Decimal(395, -1), Decimal(-395, -1), Decimal(4049, -2),
            Decimal(405, -1), Decimal(2134, -2), Decimal(2135, -2), Decimal(40, 0),
            Decimal(21300, 0), Decimal(5, -1), Decimal(4, -1)},
     u \in {"l", "hl", "m3"}, d \in {"decrease", "unknown"}}
  \union
  {[Printed EXCEPT !.subject = s, !.reporting = r, !.baseline = b] :
     s \in {"Danone", "Danone URD", None}, r \in {"FY2024", "2024", None},
     b \in {"FY2024", None}}
  \union
  {[Printed EXCEPT !.scope = s, !.metric = m, !.unit = u, !.geography = g] :
     s \in {NoText, Scope1, Scope12}, m \in {NoText, Scope12, Unscoped},
     u \in {None, "percent", "tco2e"}, g \in {None, "Spain"}}
  \union {[Printed EXCEPT !.value = None]}

\* A report that prints 21.34 m3, and one that prints the same figure as 21340 l.
MCAbout == {[Plain EXCEPT !.value = Decimal(213, -1), !.unit = "m3", !.comparison = "~",
                          !.approximate = TRUE, !.direction = "unknown"]}
MCPrinted == {[Printed EXCEPT !.value = Decimal(2134, -2), !.unit = "m3", !.direction = "unknown"],
              [Printed EXCEPT !.value = Decimal(21340, 0), !.unit = "l", !.direction = "unknown"]}

=============================================================================
