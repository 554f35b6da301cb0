--------------------------- MODULE MCMeasureFund ---------------------------
\* The instances of MeasureFund that TLC checks.  One hundred percent is eight
\* parts.
EXTENDS MeasureFund, TLC

Clause(flat, figure, capBasis, cap) ==
    [flat |-> flat, figure |-> figure, capBasis |-> capBasis, cap |-> cap]
Reserve(basis, category, percent) == [basis |-> basis, category |-> category, percent |-> percent]
Pooled(percent) == [percent |-> percent, factors |-> <<>>, floor |-> NotStated]
ToSource(percent, factors, floor) == [percent |-> percent, factors |-> factors, floor |-> floor]
By(basis, weight) == [basis |-> basis, weight |-> weight]

\* Four quarters, nothing off the top; the default residual category.
Quarters == [offTheTop |-> <<>>, reserves |-> <<>>, residual |-> 4,
             categories |-> <<Pooled(2), Pooled(2), Pooled(2), Pooled(2)>>]

\* An annual cap and a cap per period, reserves of each kind, a split by two
\* bases and a declared residual category.
Mixed == [offTheTop |-> <<Clause(FALSE, 2, "fiscal_year", 3), Clause(TRUE, 2, "per_period", 1)>>,
          reserves |-> <<Reserve("gross", 0, 1), Reserve("after_off_the_top", 0, 1),
                         Reserve("category", 1, 3)>>,
          residual |-> 1,
          categories |-> <<Pooled(3), ToSource(5, <<By(1, 3), By(2, 5)>>, NotStated)>>]

\* Everything returned to source, without and with a minimum for each recipient.
Returned == [offTheTop |-> <<Clause(TRUE, 1, "fiscal_year", 1)>>, reserves |-> <<>>,
             residual |-> 1, categories |-> <<ToSource(8, <<By(1, 8)>>, NotStated)>>]
Floored == [Returned EXCEPT !.categories = <<ToSource(8, <<By(1, 8)>>, 2)>>]

\* Figures of two bases.
Table(first, second) == <<[r \in Recipients |-> first[r]], [r \in Recipients |-> second[r]]>>
Even == Table(<<1, 1, 1, 1, 1, 1>>, <<1, 1, 1, 1, 1, 1>>)
OneWithout == Table(<<0, 3, 3, 3, 3, 3>>, <<0, 0, 0, 0, 0, 7>>)
Uneven == Table(<<9, 1, 2, 0, 4, 6>>, <<1, 2, 3, 4, 5, 0>>)
Missing == Table(<<NotStated, 1, 1, 1, 1, 1>>, <<1, 1, 1, 1, 1, 1>>)

Under(r, f) == [rule |-> r, figures |-> f]
AllSettings == {Under(Quarters, Even), Under(Mixed, OneWithout), Under(Mixed, Uneven),
                Under(Mixed, Missing), Under(Floored, OneWithout), Under(Floored, Uneven),
                Under(Returned, Even), Under(Returned, Uneven)}

\* Nothing tells the requests apart.
Symmetric == Permutations(Requests)
=============================================================================
