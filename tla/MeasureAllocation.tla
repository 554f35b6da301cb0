------------------------- MODULE MeasureAllocation -------------------------
(***************************************************************************)
(* How a local measure fund divides the receipt of one period: the         *)
(* arithmetic of src/lib/measures/allocation.ts, in whole cents.           *)
(*                                                                         *)
(* Percentages are stated in parts of Whole (the code counts ten-          *)
(* thousandths of a percent).  Ids are numbers, in the order the code      *)
(* sorts them in.  An ordinance is a record                                *)
(*   offTheTop  : a sequence of clauses [flat, figure, capBasis, cap]      *)
(*   reserves   : a sequence of [basis, category, percent]                 *)
(*   categories : a sequence of [percent, factors, floor]; one without     *)
(*                factors is pooled, the factors [basis, weight] of the    *)
(*                others return it to source                               *)
(*   residual   : the residual category                                    *)
(* and figures[b][r] is recipient r's recorded value of basis b.           *)
(***************************************************************************)
EXTENDS Integers, Sequences, FiniteSets, FiniteSetsExt, Folds, Functions

CONSTANTS
    Whole,        \* one hundred percent
    Recipients,   \* the ids of the active recipients
    NotStated     \* no floor, no recorded figure

ASSUME WholeAssumption == Whole \in Nat \ {0}
ASSUME RecipientsAssumption == Recipients \subseteq Nat /\ IsFiniteSet(Recipients)

\* Of what parseMeasureAllocationRule checks, what the arithmetic rests on: nothing is
\* negative, and the residual category is one of the rule's.  That percentages add up
\* to Whole, which it checks too, is not needed.
ClauseType == [flat : BOOLEAN, figure : Nat, capBasis : {"none", "per_period", "fiscal_year"}, cap : Nat]
ReserveType == [basis : {"gross", "after_off_the_top", "category"}, category : Nat, percent : Nat]
CategoryType == [percent : Nat, factors : Seq([basis : Nat, weight : Nat]), floor : Nat \cup {NotStated}]
IsOrdinance(rule) ==
    /\ rule \in [offTheTop : Seq(ClauseType), reserves : Seq(ReserveType),
                categories : Seq(CategoryType), residual : Nat]
    /\ rule.residual \in DOMAIN rule.categories

\* Figures are recorded per basis and recipient, or missing.
IsTable(figures, rule) ==
    /\ \A b \in DOMAIN figures : figures[b] \in [Recipients -> Nat \cup {NotStated}]
    /\ \A c \in DOMAIN rule.categories : \A i \in DOMAIN rule.categories[c].factors :
           rule.categories[c].factors[i].basis \in DOMAIN figures

AtMost(amount, limit) == IF amount > limit THEN limit ELSE amount

\* One step for each member of S, in ascending order.
InOrder(Step(_, _), start, S) ==
    MapThenFoldSet(LAMBDA i, done : Step(done, i), start, LAMBDA i : i, Max, S)

\* Round-half-up division.
HalfUp(n, d) == IF 2 * (n % d) >= d THEN n \div d + 1 ELSE n \div d
PercentOf(cents, percent) == HalfUp(cents * percent, Whole)

-----------------------------------------------------------------------------
(***************************************************************************)
(* Off the top, and reserves on the receipt.                               *)
(***************************************************************************)
Uncapped(clause, receipt) ==
    IF clause.flat THEN clause.figure ELSE PercentOf(receipt, clause.figure)

\* prior: what the clause took from the other periods of the fiscal year.
Capped(clause, receipt, prior) ==
    CASE clause.capBasis = "none"        -> Uncapped(clause, receipt)
      [] clause.capBasis = "per_period"  -> AtMost(Uncapped(clause, receipt), clause.cap)
      [] clause.capBasis = "fiscal_year" ->
            AtMost(Uncapped(clause, receipt), IF clause.cap > prior THEN clause.cap - prior ELSE 0)

\* What is asked for, as far as it is left.
Grant(granted, asked, i) ==
    LET step == AtMost(asked[i], granted.left) IN
    [to |-> [granted.to EXCEPT ![i] = step], left |-> granted.left - step]

\* In declaration order, each out of what the earlier ones left.
InTurn(asked, pot) ==
    InOrder(LAMBDA granted, i : Grant(granted, asked, i),
            [to |-> [i \in DOMAIN asked |-> 0], left |-> pot], DOMAIN asked).to

Takes(rule, receipt, prior) ==
    InTurn([i \in DOMAIN rule.offTheTop |-> Capped(rule.offTheTop[i], receipt, prior[i])], receipt)

PoolReserves(rule, receipt, left) ==
    LET onPool == {i \in DOMAIN rule.reserves : rule.reserves[i].basis # "category"}
        BasisOf(i) == IF rule.reserves[i].basis = "gross" THEN receipt ELSE left
    IN  InTurn([i \in onPool |-> PercentOf(BasisOf(i), rule.reserves[i].percent)], left)

CategoryReserves(rule, c, amount) ==
    LET onIt == {i \in DOMAIN rule.reserves : /\ rule.reserves[i].basis = "category"
                                             /\ rule.reserves[i].category = c}
    IN  InTurn([i \in onIt |-> PercentOf(amount, rule.reserves[i].percent)], amount)

-----------------------------------------------------------------------------
(***************************************************************************)
(* The categories.                                                         *)
(***************************************************************************)
\* Variant: the whole residual goes to the residual category.
PlaceAll(placed, c) ==
    [amounts |-> [placed.amounts EXCEPT ![c] = @ + placed.left], left |-> 0]

\* A category that cannot absorb the whole clawback goes to zero.
Place(placed, c) ==
    LET next == placed.amounts[c] + placed.left IN
    IF placed.left = 0 THEN placed
    ELSE IF next >= 0 THEN [amounts |-> [placed.amounts EXCEPT ![c] = next], left |-> 0]
    ELSE [amounts |-> [placed.amounts EXCEPT ![c] = 0], left |-> next]

\* The residual category first, then the others in id order.
CategoryAmounts(rule, allocable) ==
    LET naive == [c \in DOMAIN rule.categories |->
                     PercentOf(allocable, rule.categories[c].percent)]
        start == [amounts |-> naive, left |-> allocable - SumFunction(naive)]
    IN  InOrder(Place, Place(start, rule.residual), DOMAIN naive \ {rule.residual}).amounts

-----------------------------------------------------------------------------
(***************************************************************************)
(* Return to source.                                                       *)
(***************************************************************************)
BasisTotal(figures, b) == SumFunctionOnSet(figures[b], Recipients)

\* Why a category cannot be distributed: nobody to give to, a figure that is
\* missing, a divisor of zero, or floors that exceed the pool.
Undistributed(category, figures, pool) ==
    \/ Recipients = {}
    \/ \E i \in DOMAIN category.factors, r \in Recipients :
          figures[category.factors[i].basis][r] = NotStated
    \/ \E i \in DOMAIN category.factors : BasisTotal(figures, category.factors[i].basis) = 0
    \/ category.floor # NotStated /\ category.floor * Cardinality(Recipients) > pool

\* One rational for each recipient over one denominator, rounded once; the
\* residual of the pool goes to the last recipient.
FormulaShares(category, figures, pool) ==
    LET factors == category.factors
        totals == [i \in DOMAIN factors |-> BasisTotal(figures, factors[i].basis)]
        product == FoldFunction(LAMBDA x, y : x * y, 1, totals)
        Numerator(r) == SumFunction([i \in DOMAIN factors |->
            factors[i].weight * figures[factors[i].basis][r] * (product \div totals[i])])
        naive == [r \in Recipients |-> HalfUp(pool * Numerator(r), Whole * product)]
        residual == pool - SumFunction(naive)
    IN  [naive EXCEPT ![Max(Recipients)] = @ + residual]

\* Variant: the leftover of the contributions is the first donor's, whatever it has.
GiveAll(given, headroom, r) ==
    [by |-> [given.by EXCEPT ![r] = @ + given.left], left |-> 0]

\* The leftover of the contributions, as far as this donor has room for it.
Give(given, headroom, r) ==
    LET room == IF given.left > 0 THEN headroom[r] - given.by[r] ELSE given.by[r]
        step == IF given.left > 0 THEN AtMost(given.left, room) ELSE -AtMost(-given.left, room)
    IN  [by |-> [given.by EXCEPT ![r] = @ + step], left |-> given.left - step]

\* The donors pay for the floor pro rata to their headroom.
Contributions(shares, floor) ==
    LET deficient == {r \in Recipients : shares[r] < floor}
        donors == {r \in Recipients : shares[r] > floor}
        headroom == [r \in donors |-> shares[r] - floor]
        shortfall == SumFunction([r \in deficient |-> floor - shares[r]])
        prorata == [r \in donors |-> HalfUp(shortfall * headroom[r], SumFunction(headroom))]
    IN  InOrder(LAMBDA given, r : Give(given, headroom, r),
                [by |-> prorata, left |-> shortfall - SumFunction(prorata)], donors).by

Shares(category, figures, pool) ==
    LET shares == FormulaShares(category, figures, pool)
        floor == category.floor
        given == Contributions(shares, floor)
    IN  IF floor = NotStated \/ \A r \in Recipients : shares[r] >= floor THEN shares
        ELSE [r \in Recipients |-> CASE shares[r] < floor -> floor
                                     [] shares[r] > floor -> shares[r] - given[r]
                                     [] OTHER             -> floor]

-----------------------------------------------------------------------------
\* allocateMeasureReceipt, and the rows the route makes of what it returns: one
\* for a category that is pooled or held, one for each recipient otherwise.
Allocation(rule, figures, receipt, prior) ==
    LET takes == Takes(rule, receipt, prior)
        afterOffTheTop == receipt - SumFunction(takes)
        pool == PoolReserves(rule, receipt, afterOffTheTop)
        amounts == CategoryAmounts(rule, afterOffTheTop - SumFunction(pool))
        held == [c \in DOMAIN amounts |-> SumFunction(CategoryReserves(rule, c, amounts[c]))]
        programmable == [c \in DOMAIN amounts |-> amounts[c] - held[c]]
        Returned(c) == /\ rule.categories[c].factors # <<>>
                       /\ ~Undistributed(rule.categories[c], figures, programmable[c])
    IN  [takes    |-> takes,
         reserves |-> SumFunction(pool) + SumFunction(held),
         pooled   |-> [c \in DOMAIN amounts |-> IF Returned(c) THEN 0 ELSE programmable[c]],
         shares   |-> [c \in {c \in DOMAIN amounts : Returned(c)} |->
                          Shares(rule.categories[c], figures, programmable[c])]]
=============================================================================
