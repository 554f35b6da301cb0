---------------------------- MODULE MeasureFund ----------------------------
(***************************************************************************)
(* The periods of one fiscal year of a local measure fund, and the         *)
(* requests that divide their receipts.  A request reads its period, then  *)
(* what the other periods of the year gave up off the top, computes        *)
(* (MeasureAllocation), and replaces everything the period holds in one    *)
(* transaction.  Nothing serialises two requests, and a receipt may be     *)
(* corrected at any time.                                                  *)
(***************************************************************************)
EXTENDS MeasureAllocation

CONSTANTS
    Periods,      \* the periods of the year, in order
    Requests,     \* requests to allocate
    Receipts,     \* the amounts a period may receive
    Stated,       \* the amounts a person may state for a period
    Settings,     \* the ordinances the fund may be under, each with the figures in force
    MaxReports    \* bound: how often a receipt is recorded or corrected

ASSUME PeriodsAssumption == Periods \subseteq Nat /\ IsFiniteSet(Periods)
ASSUME SettingsAssumption ==
    \A setting \in Settings : IsOrdinance(setting.rule) /\ IsTable(setting.figures, setting.rule)
ASSUME ReceiptsAssumption == Receipts \cup Stated \subseteq Nat /\ NotStated \notin Nat
ASSUME MaxReportsAssumption == MaxReports \in Nat

VARIABLES
    rule,      \* the ordinance and
    figures,   \* the figures in force
    receipt,   \* measure_fund_periods.received_amount
    booked,    \* what each period holds in measure_allocations, _off_the_top and _reserve
    request,   \* each request: its next step, its period, and what it read
    reports,   \* how often a receipt was recorded
    raced      \* history: a period was replaced on takes that were no longer the year's

vars == <<rule, figures, receipt, booked, request, reports, raced>>

Clauses == DOMAIN rule.offTheTop
NoTakes == [i \in Clauses |-> 0]
Unallocated == [by |-> "nobody", receipt |-> 0, takes |-> NoTakes, reserves |-> 0,
                pooled |-> <<>>, shares |-> <<>>]
NewRequest == [pc |-> "new", period |-> NotStated, receipt |-> 0, prior |-> NoTakes]

Init ==
    /\ \E setting \in Settings : rule = setting.rule /\ figures = setting.figures
    /\ receipt = [p \in Periods |-> NotStated]
    /\ booked = [p \in Periods |-> Unallocated]
    /\ request = [q \in Requests |-> NewRequest]
    /\ reports = 0
    /\ raced = FALSE

\* periods route, POST and PATCH: the allocation that stands is left alone.
RecordReceipt(p, amount) ==
    /\ reports < MaxReports
    /\ receipt[p] # amount
    /\ receipt' = [receipt EXCEPT ![p] = amount]
    /\ reports' = reports + 1
    /\ UNCHANGED <<rule, figures, booked, request, raced>>

-----------------------------------------------------------------------------
\* A period without a receipt is refused by the allocator.
ReadPeriod(q, p) ==
    /\ request[q].pc = "new"
    /\ receipt[p] # NotStated
    /\ request' = [request EXCEPT ![q].pc = "takes", ![q].period = p, ![q].receipt = receipt[p]]
    /\ UNCHANGED <<rule, figures, receipt, booked, reports, raced>>

\* Variant: only the periods before this one count.
EarlierTakes(p) == [i \in Clauses |-> SumFunction([o \in {o \in Periods : o < p} |->
                                                      booked[o].takes[i]])]

\* buildMeasureCapWindow: the period's own take is about to be replaced.
PriorTakes(p) == [i \in Clauses |-> SumFunction([o \in Periods \ {p} |-> booked[o].takes[i]])]

ReadTakes(q) ==
    /\ request[q].pc = "takes"
    /\ request' = [request EXCEPT ![q].pc = "write", ![q].prior = PriorTakes(request[q].period)]
    /\ UNCHANGED <<rule, figures, receipt, booked, reports, raced>>

\* A read that fails ends the request: a short answer would understate the takes.
ReadFails(q) ==
    /\ request[q].pc \in {"new", "takes"}
    /\ request' = [request EXCEPT ![q].pc = "refused"]
    /\ UNCHANGED <<rule, figures, receipt, booked, reports, raced>>

Computed(q) == Allocation(rule, figures, request[q].receipt, request[q].prior)
SharesOf(out) == UNION {{<<c, r>> : r \in Recipients} : c \in DOMAIN out.shares}

\* Variant: the CHECK of the categories' rows alone.
AcceptedPooled(out) == \A c \in DOMAIN out.pooled : out.pooled[c] >= 0

\* The CHECKs on the amounts.
Accepted(out) ==
    /\ \A c \in DOMAIN out.pooled : out.pooled[c] >= 0
    /\ \A s \in SharesOf(out) : out.shares[s[1]][s[2]] >= 0

\* Variant: a replacement that leaves the reserves of the period alone.
ReplaceButReserves(q) ==
    LET out == Computed(q) p == request[q].period IN
    /\ request[q].pc = "write"
    /\ Accepted(out)
    /\ booked' = [booked EXCEPT ![p] =
                     [by |-> "descriptor", receipt |-> request[q].receipt, takes |-> out.takes,
                      reserves |-> @.reserves, pooled |-> out.pooled, shares |-> out.shares]]
    /\ request' = [request EXCEPT ![q].pc = "done"]
    /\ UNCHANGED <<rule, figures, receipt, reports, raced>>

\* replace_measure_period_allocation: allocations, takes and reserves at once.
Replace(q) ==
    LET out == Computed(q) p == request[q].period IN
    /\ request[q].pc = "write"
    /\ Accepted(out)
    /\ booked' = [booked EXCEPT ![p] =
                     [by |-> "descriptor", receipt |-> request[q].receipt, takes |-> out.takes,
                      reserves |-> out.reserves, pooled |-> out.pooled, shares |-> out.shares]]
    /\ request' = [request EXCEPT ![q].pc = "done"]
    /\ raced' = (raced \/ PriorTakes(p) # request[q].prior)
    /\ UNCHANGED <<rule, figures, receipt, reports>>

\* A row the database refuses rolls the whole replacement back; so does a lost
\* connection.
ReplaceFails(q) ==
    /\ request[q].pc = "write"
    /\ request' = [request EXCEPT ![q].pc = "refused"]
    /\ UNCHANGED <<rule, figures, receipt, booked, reports, raced>>

\* Manual mode: what a person states, and no takes or reserves.
ReplaceByHand(q, p, amount) ==
    /\ request[q].pc = "new"
    /\ booked' = [booked EXCEPT ![p] = [Unallocated EXCEPT !.by = "hand", !.pooled = <<amount>>]]
    /\ request' = [request EXCEPT ![q].pc = "done"]
    /\ UNCHANGED <<rule, figures, receipt, reports, raced>>

-----------------------------------------------------------------------------
Next ==
    \/ \E p \in Periods, amount \in Receipts \cup {NotStated} : RecordReceipt(p, amount)
    \/ \E q \in Requests, p \in Periods : ReadPeriod(q, p)
    \/ \E q \in Requests : ReadTakes(q) \/ ReadFails(q) \/ Replace(q) \/ ReplaceFails(q)
    \/ \E q \in Requests, p \in Periods, amount \in Stated : ReplaceByHand(q, p, amount)

Spec == Init /\ [][Next]_vars

-----------------------------------------------------------------------------
(***************************************************************************)
(* Properties.                                                             *)
(***************************************************************************)
Cents(amounts) == \A i \in DOMAIN amounts : amounts[i] \in Nat

\* What a period may hold under an ordinance: money, and nothing below zero.
IsBooking(held, law) ==
    /\ held.by \in {"nobody", "descriptor", "hand"}
    /\ held.receipt \in Nat /\ held.reserves \in Nat
    /\ held.takes \in [DOMAIN law.offTheTop -> Nat] /\ held.pooled \in Seq(Nat)
    /\ \E C \in SUBSET DOMAIN law.categories : held.shares \in [C -> [Recipients -> Nat]]

RequestType(law) ==
    [pc : {"new", "takes", "write", "done", "refused"}, period : Periods \cup {NotStated},
     receipt : Nat, prior : [DOMAIN law.offTheTop -> Nat]]

\* Every variable has its type; what is booked is money.
TypeOK ==
    /\ \E setting \in Settings : rule = setting.rule /\ figures = setting.figures
    /\ receipt \in [Periods -> Receipts \cup {NotStated}]
    /\ DOMAIN booked = Periods /\ \A p \in Periods : IsBooking(booked[p], rule)
    /\ request \in [Requests -> RequestType(rule)]
    /\ reports \in 0..MaxReports
    /\ raced \in BOOLEAN

Given(out) ==
    SumFunction(out.pooled) + SumFunction([c \in DOMAIN out.shares |-> SumFunction(out.shares[c])])

\* What the public page prints adds up to the cent: received, less what came out
\* first, less what is held back, is what the purposes were given, whatever was
\* rounded, capped, floored or replaced on the way.
BooksClose ==
    \A p \in Periods : booked[p].by = "descriptor" =>
        booked[p].receipt - SumFunction(booked[p].takes) - booked[p].reserves = Given(booked[p])

Writing == {q \in Requests : request[q].pc = "write"}

\* However small the pool, clawing back what half-up rounding gave too much
\* leaves no category, and no clause, with less than nothing.
NoCategoryBelowZero ==
    \A q \in Writing :
        LET out == Computed(q) IN
        /\ Cents(out.takes) /\ Cents(out.pooled) /\ out.reserves \in Nat
        /\ \A c \in DOMAIN out.shares : SumFunction(out.shares[c]) >= 0

\* Where the ordinance guarantees a minimum, nobody ends below it: neither the
\* recipients that are raised nor the ones that pay for them.
FloorsAreMet ==
    \A q \in Writing :
        LET out == Computed(q) IN
        \A c \in DOMAIN out.shares : rule.categories[c].floor # NotStated =>
            \A r \in Recipients : out.shares[c][r] >= rule.categories[c].floor

\* In whatever order and however often the periods of a year are allocated, the
\* year's takes under an annual cap stay within it, unless one request computed
\* on takes that another was replacing.
AnnualCapHolds ==
    raced \/ \A i \in Clauses : rule.offTheTop[i].capBasis = "fiscal_year" =>
                SumFunction([p \in Periods |-> booked[p].takes[i]]) <= rule.offTheTop[i].cap

\* No recipient is allocated a negative amount of money.
NoShareBelowZero ==
    \A q \in Writing :
        LET out == Computed(q) IN
        \A c \in DOMAIN out.shares : Cents(out.shares[c])
=============================================================================
