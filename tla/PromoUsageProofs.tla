-------------------------- MODULE PromoUsageProofs --------------------------
(***************************************************************************)
(* Proofs about PromoUsage and Pricing, for every set of bookings, codes,  *)
(* requests and rules, every limit and every fare: a code is used within   *)
(* its limit, and the price rows add up to the total.                      *)
(***************************************************************************)
EXTENDS PromoUsage, FiniteSetTheorems, WellFoundedInduction, TLAPS

-----------------------------------------------------------------------------
(* Prices.  The discount a code promises and the markup are any integers:   *)
(* what follows does not depend on how they are rounded.                    *)

\* A discount is never negative and, where the fare allows it, leaves the minimum.
LEMMA DiscountBounds ==
    ASSUME NEW promised \in Int, NEW amount \in Int, MinimumTotal \in Nat
    PROVE  /\ Discount(promised, amount) \in Nat
           /\ amount >= MinimumTotal => amount - Discount(promised, amount) >= MinimumTotal
BY DEF Discount, Greatest, Least

\* The total that is charged is at least the minimum, whatever a code promises.
THEOREM TotalIsCharged ==
    ASSUME NEW promised \in Int, NEW amount \in Int
    PROVE  TotalOf(amount, Discount(promised, amount)) >= MinimumTotal
BY PricingAssumption DEF TotalOf, Greatest, Discount, Least

\* A code never raises the price.
THEOREM PromoNeverRaisesThePrice ==
    ASSUME NEW promised \in Int, NEW amount \in Int
    PROVE  TotalOf(amount, Discount(promised, amount)) <= TotalOf(amount, Discount(0, amount))
BY PricingAssumption DEF TotalOf, Greatest, Discount, Least

\* The five parts of a quote add up to its total when the fare is not below the minimum.
THEOREM QuoteAddsUp ==
    ASSUME NEW fare \in [base : Int, tax : Int, fee : Int, airline : STRING, passengers : Nat],
           NEW markup \in Nat, NEW promised \in Int,
           fare.base + fare.tax + fare.fee >= MinimumTotal
    PROVE  LET quote == QuoteOf(fare, markup, promised)
           IN  quote.total = quote.base + quote.tax + quote.fee + quote.markup - quote.discount
BY PricingAssumption DEF QuoteOf, Subtotal, TotalOf, Discount, Greatest, Least

\* formatMoney is less than one unit away from the amount ...
LEMMA DisplayedIsNear ==
    ASSUME NEW minor \in Int
    PROVE  /\ Displayed(minor) \in Int
           /\ 100 * Displayed(minor) - minor <= 50
           /\ minor - 100 * Displayed(minor) <= 50
<1>1. CASE minor >= 0
  BY <1>1 DEF Displayed, RoundDiv
<1>2. CASE minor < 0
  BY <1>2 DEF Displayed, RoundDiv
<1> QED BY <1>1, <1>2

\* ... so the rows a customer reads, each rounded on its own, add up to the rounded total
\* within three units of the currency.
THEOREM DisplayedRowsAddUp ==
    ASSUME NEW quote \in [base : Int, tax : Int, fee : Int, markup : Int, discount : Int,
                          total : Int],
           quote.total = quote.base + quote.tax + quote.fee + quote.markup - quote.discount
    PROVE  LET rows == DisplayedRows(quote)
           IN  rows[1] + rows[2] + rows[3] + rows[4] + rows[5] - Displayed(quote.total)
                   \in -3 .. 3
<1>1. PICK less \in Int : less = -quote.discount
  OBVIOUS
<1>2. quote.total = quote.base + quote.tax + quote.fee + quote.markup + less
  BY <1>1
<1>3. /\ DisplayedRows(quote)[1] = Displayed(quote.base)
      /\ DisplayedRows(quote)[2] = Displayed(quote.tax)
      /\ DisplayedRows(quote)[3] = Displayed(quote.fee)
      /\ DisplayedRows(quote)[4] = Displayed(quote.markup)
      /\ DisplayedRows(quote)[5] = Displayed(less)
  BY <1>1 DEF DisplayedRows, RowsOf
<1>4. Displayed(quote.base) + Displayed(quote.tax) + Displayed(quote.fee)
        + Displayed(quote.markup) + Displayed(less) - Displayed(quote.total) \in -3 .. 3
  <2>1. /\ quote.base \in Int /\ quote.tax \in Int /\ quote.fee \in Int
        /\ quote.markup \in Int /\ quote.total \in Int
    OBVIOUS
  <2> DEFINE Near(minor) ==
                 /\ Displayed(minor) \in Int
                 /\ 100 * Displayed(minor) - minor <= 50
                 /\ minor - 100 * Displayed(minor) <= 50
  <2>2. Near(quote.base) /\ Near(quote.tax) /\ Near(quote.fee) /\ Near(quote.markup)
    BY <2>1, DisplayedIsNear
  <2>3. Near(less) /\ Near(quote.total)
    BY <2>1, DisplayedIsNear
  <2>4. PICK a \in Int, b \in Int, c \in Int, d \in Int, t \in Int :
           /\ a = quote.base /\ b = quote.tax /\ c = quote.fee /\ d = quote.markup
           /\ t = quote.total
    BY <2>1
  <2>5. t = a + b + c + d + less
    BY <1>2, <2>4
  <2>6. Near(a) /\ Near(b) /\ Near(c) /\ Near(d) /\ Near(less) /\ Near(t)
    BY <2>2, <2>3, <2>4
  <2>7. PICK A \in Int, B \in Int, C \in Int, D \in Int, E \in Int, T \in Int :
           /\ A = Displayed(a) /\ B = Displayed(b) /\ C = Displayed(c)
           /\ D = Displayed(d) /\ E = Displayed(less) /\ T = Displayed(t)
    BY <2>6
  <2>8. /\ 100 * A - a <= 50 /\ a - 100 * A <= 50 /\ 100 * B - b <= 50 /\ b - 100 * B <= 50
        /\ 100 * C - c <= 50 /\ c - 100 * C <= 50 /\ 100 * D - d <= 50 /\ d - 100 * D <= 50
        /\ 100 * E - less <= 50 /\ less - 100 * E <= 50
        /\ 100 * T - t <= 50 /\ t - 100 * T <= 50
    BY <2>6, <2>7
  <2>9. A + B + C + D + E - T \in -3 .. 3
    BY <2>5, <2>8
  <2> QED BY <2>4, <2>7, <2>9
<1> QED BY <1>3, <1>4

-----------------------------------------------------------------------------
(* Sums.  Markup and RowsTotal are folds: they take the elements in an      *)
(* order that CHOOSE picks.  What they compute is the sum in any order.     *)

\* g gives every part of S the sum of f over it, whichever element is taken first.
SumOf(f, g, S) ==
    /\ g[{}] = 0
    /\ \A U \in SUBSET S : \A x \in U : g[U] = f[x] + g[U \ {x}]

\* A nonempty set of numbers has a least one.
LEMMA LeastNumber ==
    ASSUME NEW N, N \subseteq Nat, N # {}
    PROVE  \E m \in N : \A n \in N : m <= n
<1>1. IsWellFoundedOn(OpToRel(<, Nat), Nat)
  BY NatLessThanWellFounded
<1>2. PICK m \in N : \A n \in N : <<n, m>> \notin OpToRel(<, Nat)
  BY <1>1, WFMin
<1>3. \A n \in N : ~(n < m)
  BY <1>2 DEF OpToRel
<1> QED BY <1>3

\* A finite set without one of its elements is smaller.
LEMMA OneLess ==
    ASSUME NEW T, IsFiniteSet(T), NEW z \in T
    PROVE  /\ Cardinality(T) \in Nat /\ Cardinality(T \ {z}) \in Nat
           /\ ~(Cardinality(T) <= Cardinality(T \ {z}))
<1>1. IsFiniteSet(T \ {z}) /\ Cardinality(T \ {z}) = Cardinality(T) - 1
  BY FS_RemoveElement
<1>2. Cardinality(T) \in Nat /\ Cardinality(T \ {z}) \in Nat
  BY <1>1, FS_CardinalityType
<1>3. \A c \in Nat : ~(c <= c - 1)
  OBVIOUS
<1> QED BY <1>1, <1>2, <1>3

\* Finite sums exist.
LEMMA SumExists ==
    ASSUME NEW S, IsFiniteSet(S), NEW V \in {Nat, Int}, NEW f \in [S -> V]
    PROVE  \E g \in [SUBSET S -> V] : SumOf(f, g, S)
<1> DEFINE HasSum(T) == \E g \in [SUBSET T -> V] : SumOf(f, g, T)
           Bad == {n \in Nat : \E T \in SUBSET S : Cardinality(T) = n /\ ~HasSum(T)}
<1>1. SUFFICES Bad = {}
  BY FS_CardinalityType
<1>2. SUFFICES ASSUME Bad # {} PROVE FALSE
  OBVIOUS
<1>3. PICK n \in Bad : \A m \in Bad : n <= m
  BY <1>2, LeastNumber
<1>4. PICK T \in SUBSET S : Cardinality(T) = n /\ ~HasSum(T)
  OBVIOUS
<1>5. IsFiniteSet(T) /\ n \in Nat
  BY FS_Subset
<1>6. T # {}
  <2> DEFINE zero == [U \in SUBSET {} |-> 0]
  <2>1. zero \in [SUBSET {} -> V] /\ zero[{}] = 0
    OBVIOUS
  <2>2. SumOf(f, zero, {})
    BY <2>1 DEF SumOf
  <2>3. HasSum({})
    <3> HIDE DEF zero
    <3> QED BY <2>1, <2>2
  <2> QED BY <1>4, <2>3
<1>7. PICK z \in T : TRUE
  BY <1>6
<1>8. HasSum(T \ {z})
  <2>1. Cardinality(T \ {z}) \in Nat /\ ~(n <= Cardinality(T \ {z}))
    BY <1>4, <1>5, OneLess
  <2>2. Cardinality(T \ {z}) \notin Bad
    BY <1>3, <2>1
  <2> QED BY <2>1, <2>2
<1>9. PICK g \in [SUBSET (T \ {z}) -> V] : SumOf(f, g, T \ {z})
  BY <1>8
<1> DEFINE h == [U \in SUBSET T |-> IF z \in U THEN f[z] + g[U \ {z}] ELSE g[U]]
<1>10. h \in [SUBSET T -> V]
  <2> SUFFICES ASSUME NEW U \in SUBSET T PROVE h[U] \in V
    OBVIOUS
  <2>1. CASE z \in U
    <3>1. U \ {z} \in SUBSET (T \ {z}) /\ f[z] \in V
      OBVIOUS
    <3>2. g[U \ {z}] \in V
      BY <3>1
    <3>3. f[z] + g[U \ {z}] \in V
      BY <3>1, <3>2
    <3> QED BY <2>1, <3>3
  <2>2. CASE z \notin U
    <3>1. U \in SUBSET (T \ {z})
      BY <2>2
    <3> QED BY <2>2, <3>1
  <2> QED BY <2>1, <2>2
<1>11. SumOf(f, h, T)
  <2>1. h[{}] = 0
    BY <1>9 DEF SumOf
  <2>2. ASSUME NEW U \in SUBSET T, NEW x \in U PROVE h[U] = f[x] + h[U \ {x}]
    <3>1. CASE x = z
      BY <3>1
    <3>2. CASE x # z /\ z \in U
      <4>1. /\ h[U] = f[z] + g[U \ {z}]
            /\ h[U \ {x}] = f[z] + g[(U \ {x}) \ {z}]
        BY <3>2
      <4>2. U \ {z} \in SUBSET (T \ {z}) /\ x \in U \ {z}
        BY <3>2
      <4>3. g[U \ {z}] = f[x] + g[(U \ {z}) \ {x}]
        BY <1>9, <4>2 DEF SumOf
      <4>4. (U \ {z}) \ {x} = (U \ {x}) \ {z} /\ (U \ {x}) \ {z} \in SUBSET (T \ {z})
        OBVIOUS
      <4>5. f[z] \in Int /\ f[x] \in Int /\ g[(U \ {x}) \ {z}] \in Int
        BY <4>4
      <4>6. \A a, b, c \in Int : a + (b + c) = b + (a + c)
        OBVIOUS
      <4> HIDE DEF h
      <4>7. PICK i \in Int, j \in Int, k \in Int :
               i = f[z] /\ j = f[x] /\ k = g[(U \ {x}) \ {z}]
        BY <4>5
      <4>8. g[U \ {z}] = j + k
        BY <4>3, <4>4, <4>7
      <4>9. h[U] = i + (j + k)
        BY <4>1, <4>7, <4>8
      <4>10. h[U \ {x}] = i + k
        BY <4>1, <4>7
      <4>11. i + (j + k) = j + (i + k)
        BY <4>6
      <4> QED BY <4>7, <4>9, <4>10, <4>11
    <3>3. CASE x # z /\ z \notin U
      <4>1. U \in SUBSET (T \ {z})
        BY <3>3
      <4>2. g[U] = f[x] + g[U \ {x}]
        BY <1>9, <4>1 DEF SumOf
      <4> QED BY <3>3, <4>2
    <3> QED BY <3>1, <3>2, <3>3
  <2> QED BY <2>1, <2>2 DEF SumOf
<1> QED BY <1>4, <1>10, <1>11

\* h takes the elements of a set one by one, in an order of its own.
OneByOne(f, h, S) ==
    /\ h[{}] = 0
    /\ \A U \in SUBSET S :
          U # {} => \E x \in U : h[U \ {x}] \in Int => h[U] = f[x] + h[U \ {x}]

\* Such a function computes the sum.
LEMMA SumIsUnique ==
    ASSUME NEW S, IsFiniteSet(S), NEW f, NEW g \in [SUBSET S -> Int], SumOf(f, g, S),
           NEW h, OneByOne(f, h, S)
    PROVE  \A U \in SUBSET S : h[U] = g[U]
<1> DEFINE Bad == {n \in Nat : \E U \in SUBSET S : Cardinality(U) = n /\ h[U] # g[U]}
<1>1. \A U \in SUBSET S : IsFiniteSet(U) /\ Cardinality(U) \in Nat
  BY FS_Subset, FS_CardinalityType
<1>2. SUFFICES Bad = {}
  BY <1>1
<1>3. SUFFICES ASSUME Bad # {} PROVE FALSE
  OBVIOUS
<1>4. PICK n \in Bad : \A m \in Bad : n <= m
  BY <1>3, LeastNumber
<1>5. PICK U \in SUBSET S : Cardinality(U) = n /\ h[U] # g[U]
  OBVIOUS
<1>6. U # {}
  BY <1>5 DEF SumOf, OneByOne
<1>7. PICK x \in U : h[U \ {x}] \in Int => h[U] = f[x] + h[U \ {x}]
  BY <1>6 DEF OneByOne
<1>8. h[U \ {x}] = g[U \ {x}]
  <2>1. Cardinality(U \ {x}) \in Nat /\ ~(n <= Cardinality(U \ {x}))
    BY <1>1, <1>5, OneLess
  <2>2. Cardinality(U \ {x}) \notin Bad
    BY <1>4, <2>1
  <2>3. U \ {x} \in SUBSET S
    OBVIOUS
  <2> QED BY <2>1, <2>2, <2>3
<1>9. g[U \ {x}] \in Int
  OBVIOUS
<1> QED BY <1>5, <1>7, <1>8, <1>9 DEF SumOf


\* The sum of natural numbers is one.
LEMMA SumOfNaturals ==
    ASSUME NEW S, IsFiniteSet(S), NEW f \in [S -> Nat], NEW h, OneByOne(f, h, S)
    PROVE  h[S] \in Nat
<1>1. PICK g \in [SUBSET S -> Nat] : SumOf(f, g, S)
  BY SumExists
<1>2. PICK k \in [SUBSET S -> Int] : k = g
  <2>1. \A U \in SUBSET S : g[U] \in Int
    OBVIOUS
  <2> QED BY <2>1
<1>3. SumOf(f, k, S)
  BY <1>1, <1>2
<1>4. \A U \in SUBSET S : h[U] = k[U]
  BY <1>3, SumIsUnique
<1>5. S \in SUBSET S
  OBVIOUS
<1> QED BY <1>2, <1>4, <1>5

-----------------------------------------------------------------------------
(* What is added up.                                                        *)

\* Rounding gives an integer.
LEMMA RoundDivType ==
    ASSUME NEW n \in Int, NEW d \in Nat \ {0} PROVE RoundDiv(n, d) \in Int
<1>1. 2 * d \in Nat \ {0} /\ 2 * n + d \in Int /\ 2 * d - 2 * n - d \in Int
  OBVIOUS
<1>2. \A a \in Int, e \in Nat \ {0} : a \div e \in Int
  OBVIOUS
<1>3. (2 * n + d) \div (2 * d) \in Int /\ (2 * d - 2 * n - d) \div (2 * d) \in Int
  BY <1>1, <1>2
<1>4. \A a \in Int : -a \in Int
  OBVIOUS
<1> QED BY <1>3, <1>4 DEF RoundDiv

Fares == [base : Nat, tax : Nat, fee : Nat, airline : STRING, passengers : Nat]
Rules == [calculation : Calculations, value : Int, airline : STRING]

\* A rule adds a natural number, whatever its value.
LEMMA RuleAmountType ==
    ASSUME NEW rule \in Rules, NEW fare \in Fares
    PROVE  RuleAmount(rule, fare) \in Nat
<1>1. FixedAmount(rule.value) \in Int
  BY RoundDivType DEF FixedAmount, Rules
<1>2. Subtotal(fare) \in Int
  BY DEF Subtotal, Greatest, Fares
<1>3. PercentageOf(Subtotal(fare), rule.value) \in Int
  <2>1. \A a, b \in Int : a * b \in Int
    OBVIOUS
  <2>2. Subtotal(fare) * rule.value \in Int
    BY <1>2, <2>1 DEF Rules
  <2> QED BY <2>2, RoundDivType DEF PercentageOf
<1>4. FixedAmount(rule.value) * Greatest(1, fare.passengers) \in Int
  <2>1. \A a, b \in Int : a * b \in Int
    OBVIOUS
  <2>2. Greatest(1, fare.passengers) \in Int
    BY DEF Greatest, Fares
  <2> QED BY <1>1, <2>1, <2>2
<1>5. \A a \in Int : Greatest(0, a) \in Nat
  BY DEF Greatest
<1>6. rule.calculation \in {"fixed", "percentage", "per_passenger_fixed"}
  BY DEF Rules, Calculations
<1> QED BY <1>1, <1>3, <1>4, <1>5, <1>6 DEF RuleAmount

\* A code promises an integer.
LEMMA PromoAmountType ==
    ASSUME NEW terms \in [type : {"fixed", "percentage"}, value : Int, max : Nat],
           NEW amount \in Int
    PROVE  PromoAmount(terms, amount) \in Int
<1>1. FixedAmount(terms.value) \in Int
  BY RoundDivType DEF FixedAmount
<1>2. PercentageOf(amount, Least(terms.value, MaxPercentage)) \in Int
  <2>1. \A a, b \in Int : a * b \in Int
    OBVIOUS
  <2>2. Least(terms.value, MaxPercentage) \in Int
    BY PricingAssumption DEF Least
  <2>3. amount * Least(terms.value, MaxPercentage) \in Int
    BY <2>1, <2>2
  <2> QED BY <2>3, RoundDivType DEF PercentageOf
<1>3. \A a, b \in Int : Least(a, b) \in Int
  BY DEF Least
<1>4. PICK fixed \in Int, percent \in Int :
         /\ fixed = FixedAmount(terms.value)
         /\ percent = PercentageOf(amount, Least(terms.value, MaxPercentage))
  BY <1>1, <1>2
<1>5. terms.max \in Int
  OBVIOUS
<1>6. Least(fixed, terms.max) \in Int /\ Least(percent, terms.max) \in Int
  BY <1>3, <1>5
<1> QED BY <1>4, <1>6 DEF PromoAmount

\* FoldFunction takes the elements one by one, so the markup is a sum of natural numbers.
LEMMA MarkupType ==
    ASSUME NEW active, IsFiniteSet(active), active \subseteq Rules, NEW fare \in Fares
    PROVE  Markup(active, fare) \in Nat
<1> DEFINE f == [rule \in active |-> RuleAmount(rule, fare)]
           Step(h) == [U \in SUBSET active |->
                         IF U = {} THEN 0
                         ELSE f[CHOOSE x \in U : TRUE] + h[U \ {CHOOSE x \in U : TRUE}]]
           iter == CHOOSE h : h = Step(h)
<1>1. Markup(active, fare) = iter[active]
  BY DEF Markup, FoldFunction, FoldFunctionOnSet, MapThenFoldSet
<1>2. f \in [active -> Nat]
  BY RuleAmountType
<1> HIDE DEF f
<1>3. PICK g \in [SUBSET active -> Nat] : SumOf(f, g, active)
  BY <1>2, SumExists
<1>4. g = Step(g)
  <2> SUFFICES ASSUME NEW U \in SUBSET active
               PROVE  g[U] = IF U = {} THEN 0
                             ELSE f[CHOOSE x \in U : TRUE] + g[U \ {CHOOSE x \in U : TRUE}]
    OBVIOUS
  <2>1. U # {} => (CHOOSE x \in U : TRUE) \in U
    OBVIOUS
  <2> QED BY <1>3, <2>1 DEF SumOf
<1>5. iter = Step(iter)
  BY <1>4
<1> HIDE DEF iter
<1>6. \A U \in SUBSET active :
         /\ iter[U] = Step(iter)[U]
         /\ U # {} => (CHOOSE x \in U : TRUE) \in U
  BY <1>5
<1>7. iter[{}] = 0
  BY <1>6
<1>8. \A U \in SUBSET active : U # {} =>
         \E x \in U : iter[U \ {x}] \in Int => iter[U] = f[x] + iter[U \ {x}]
  BY <1>6
<1>9. OneByOne(f, iter, active)
  BY <1>7, <1>8 DEF OneByOne
<1>10. iter[active] \in Nat
  BY <1>2, <1>9, SumOfNaturals
<1> QED BY <1>1, <1>10

Quotes == [base : Int, tax : Int, fee : Int, markup : Int, discount : Int, total : Int]

\* The rows without the total add up to the five parts, in whatever order they are added.
LEMMA RowsTotalIs ==
    ASSUME NEW quote \in Quotes
    PROVE  RowsTotal(RowsOf(quote))
              = quote.base + quote.tax + quote.fee + quote.markup - quote.discount
<1> DEFINE rows == RowsOf(quote)
           S == 1 .. 6
           f == [i \in S |-> IF rows[i].type = "total" THEN 0 ELSE rows[i].amount]
           Step(h) == [U \in SUBSET S |->
                         IF U = {} THEN 0
                         ELSE IF rows[CHOOSE x \in U : TRUE].type = "total"
                              THEN h[U \ {CHOOSE x \in U : TRUE}]
                              ELSE h[U \ {CHOOSE x \in U : TRUE}]
                                     + rows[CHOOSE x \in U : TRUE].amount]
           iter == CHOOSE h : h = Step(h)
<1>1. DOMAIN rows = S
  BY DEF RowsOf
<1>2. RowsTotal(rows) = iter[S]
  BY <1>1 DEF RowsTotal, FoldFunction, FoldFunctionOnSet, MapThenFoldSet
<1>3. /\ f[1] = quote.base /\ f[2] = quote.tax /\ f[3] = quote.fee /\ f[4] = quote.markup
      /\ f[5] = -quote.discount /\ f[6] = 0
  BY DEF RowsOf
<1>4. \A i \in S : rows[i].amount \in Int
  <2>1. \A i \in S : i = 1 \/ i = 2 \/ i = 3 \/ i = 4 \/ i = 5 \/ i = 6
    OBVIOUS
  <2>2. -quote.discount \in Int
    BY DEF Quotes
  <2> QED BY <2>1, <2>2 DEF RowsOf, Quotes
<1> HIDE DEF rows
<1>5. \A i \in S : f[i] = IF rows[i].type = "total" THEN 0 ELSE rows[i].amount
  OBVIOUS
<1>6. f \in [S -> Int]
  BY <1>4
<1> HIDE DEF f
<1>7. IsFiniteSet(S)
  <2>1. 1 \in Int /\ 6 \in Int
    OBVIOUS
  <2> QED BY <2>1, FS_Interval
<1>17. /\ S = 1 .. 6
       /\ S \in SUBSET S
       /\ f \in [S -> Int]
  BY <1>6
<1> HIDE DEF S
<1>8. PICK g \in [SUBSET S -> Int] : SumOf(f, g, S)
  BY <1>7, <1>17, SumExists
<1>9. g = Step(g)
  <2> SUFFICES ASSUME NEW U \in SUBSET S PROVE g[U] = Step(g)[U]
    OBVIOUS
  <2>1. CASE U = {}
    BY <1>8, <2>1 DEF SumOf
  <2>2. CASE U # {}
    <3> DEFINE x == CHOOSE x \in U : TRUE
    <3>1. x \in U
      BY <2>2
    <3>2. Step(g)[U] = IF rows[x].type = "total" THEN g[U \ {x}]
                       ELSE g[U \ {x}] + rows[x].amount
      BY <2>2
    <3> HIDE DEF x, Step
    <3>3. g[U] = f[x] + g[U \ {x}] /\ g[U \ {x}] \in Int
      BY <1>8, <3>1 DEF SumOf
    <3>4. f[x] = IF rows[x].type = "total" THEN 0 ELSE rows[x].amount
      BY <1>5, <3>1
    <3>5. rows[x].amount \in Int
      BY <1>4, <3>1
    <3>6. PICK m \in Int, n \in Int : m = g[U \ {x}] /\ n = rows[x].amount
      BY <3>3, <3>5
    <3>7. g[U] = f[x] + m /\ f[x] = IF rows[x].type = "total" THEN 0 ELSE n
      BY <3>3, <3>4, <3>6
    <3>8. 0 + m = m /\ n + m = m + n
      OBVIOUS
    <3> QED BY <3>2, <3>6, <3>7, <3>8
  <2> QED BY <2>1, <2>2
<1>10. iter = Step(iter)
  BY <1>9
<1> HIDE DEF iter
<1>11. \A U \in SUBSET S :
         /\ iter[U] = Step(iter)[U]
         /\ U # {} => (CHOOSE x \in U : TRUE) \in U
  BY <1>10
<1>12. iter[{}] = 0
  BY <1>11
<1>13. \A U \in SUBSET S : U # {} =>
         \E x \in U : iter[U \ {x}] \in Int => iter[U] = f[x] + iter[U \ {x}]
  <2> SUFFICES ASSUME NEW U \in SUBSET S, U # {}
               PROVE  \E x \in U : iter[U \ {x}] \in Int => iter[U] = f[x] + iter[U \ {x}]
    OBVIOUS
  <2> DEFINE x == CHOOSE x \in U : TRUE
  <2>1. x \in U
    BY <1>11
  <2>2. iter[U] = IF rows[x].type = "total" THEN iter[U \ {x}]
                  ELSE iter[U \ {x}] + rows[x].amount
    BY <1>11
  <2> HIDE DEF x
  <2>3. ASSUME iter[U \ {x}] \in Int PROVE iter[U] = f[x] + iter[U \ {x}]
    <3>1. f[x] = IF rows[x].type = "total" THEN 0 ELSE rows[x].amount
      BY <1>5, <2>1
    <3>2. PICK m \in Int, n \in Int : m = iter[U \ {x}] /\ n = rows[x].amount
      BY <2>3, <1>4, <2>1
    <3>3. 0 + m = m /\ n + m = m + n
      OBVIOUS
    <3> QED BY <2>2, <3>1, <3>2, <3>3
  <2> QED BY <2>1, <2>3
<1>14. \A U \in SUBSET S : iter[U] = g[U]
  <2>1. g \in [SUBSET S -> Int] /\ SumOf(f, g, S)
    BY <1>8
  <2>2. OneByOne(f, iter, S)
    BY <1>12, <1>13 DEF OneByOne
  <2> QED BY <1>7, <2>1, <2>2, SumIsUnique
<1>15. g[S] = quote.base + quote.tax + quote.fee + quote.markup - quote.discount
  <2>1. g[S] = f[6] + g[1 .. 5]
    <3>1. S \ {6} = 1 .. 5 /\ 6 \in S
      BY <1>17
    <3> QED BY <1>8, <3>1 DEF SumOf
  <2>2. g[1 .. 5] = f[5] + g[1 .. 4]
    <3>1. (1 .. 5) \ {5} = 1 .. 4 /\ 5 \in 1 .. 5 /\ 1 .. 5 \in SUBSET S
      BY <1>17
    <3> QED BY <1>8, <3>1 DEF SumOf
  <2>3. g[1 .. 4] = f[4] + g[1 .. 3]
    <3>1. (1 .. 4) \ {4} = 1 .. 3 /\ 4 \in 1 .. 4 /\ 1 .. 4 \in SUBSET S
      BY <1>17
    <3> QED BY <1>8, <3>1 DEF SumOf
  <2>4. g[1 .. 3] = f[3] + g[{1, 2}]
    <3>1. (1 .. 3) \ {3} = {1, 2} /\ 3 \in 1 .. 3 /\ 1 .. 3 \in SUBSET S
      BY <1>17
    <3> QED BY <1>8, <3>1 DEF SumOf
  <2>5. g[{1, 2}] = f[2] + g[{1}]
    <3>1. {1, 2} \ {2} = {1} /\ 2 \in {1, 2} /\ {1, 2} \in SUBSET S
      BY <1>17
    <3> QED BY <1>8, <3>1 DEF SumOf
  <2>6. g[{1}] = f[1] + g[{}] /\ g[{}] = 0
    <3>1. {1} \ {1} = {} /\ 1 \in {1} /\ {1} \in SUBSET S
      BY <1>17
    <3> QED BY <1>8, <3>1 DEF SumOf
  <2>7. PICK a \in Int, b \in Int, c \in Int, d \in Int, e \in Int :
           /\ a = quote.base /\ b = quote.tax /\ c = quote.fee /\ d = quote.markup
           /\ e = quote.discount
    BY DEF Quotes
  <2>8. g[S] = 0 + (-e + (d + (c + (b + (a + 0)))))
    BY <1>3, <2>1, <2>2, <2>3, <2>4, <2>5, <2>6, <2>7
  <2>9. 0 + (-e + (d + (c + (b + (a + 0))))) = a + b + c + d - e
    OBVIOUS
  <2> QED BY <2>7, <2>8, <2>9
<1> QED BY <1>2, <1>14, <1>15, <1>17 DEF rows

-----------------------------------------------------------------------------
(* Usage.  The invariant: what is stored is of its type, and a request that *)
(* found a code is about a booking and a code.                              *)

CodesOK == codes \in [Codes -> [active : BOOLEAN, used : Nat]]

BookingsOK ==
    /\ DOMAIN bookings = Bookings
    /\ \A b \in Bookings : {"code", "quote"} \subseteq DOMAIN bookings[b]

Found == [booking : Bookings, code : Codes]

RequestsOK == requests \in [Requests -> Found \union {Idle}]

UsageInv == CodesOK /\ BookingsOK /\ RequestsOK /\ UsedWithinLimit /\ HoldersAreCounted

\* The holders of a code can be counted.
LEMMA HoldersAreFinite ==
    ASSUME NEW c PROVE IsFiniteSet(Holders(c)) /\ Cardinality(Holders(c)) \in Nat
BY PromoAssumption, FS_Subset, FS_CardinalityType DEF Holders

\* A step that leaves the codes that bookings hold and how often they were used.
LEMMA UsageUnchanged ==
    ASSUME UsageInv, CodesOK', BookingsOK', RequestsOK',
           \A b \in Bookings : bookings'[b].code = bookings[b].code,
           \A c \in Codes : codes'[c].used = codes[c].used
    PROVE  UsageInv'
<1>1. \A c \in Codes : Holders(c)' = Holders(c)
  BY DEF Holders
<1>2. HoldersAreCounted'
  BY <1>1 DEF UsageInv, HoldersAreCounted
<1>3. UsedWithinLimit'
  BY DEF UsageInv, UsedWithinLimit
<1> QED BY <1>2, <1>3 DEF UsageInv

\* Nothing is counted and no code is held at the start.
LEMMA UsageInit == Init => UsageInv
<1> SUFFICES ASSUME Init PROVE UsageInv
  OBVIOUS
<1>1. CodesOK /\ BookingsOK /\ RequestsOK
  BY DEF Init, CodesOK, BookingsOK, RequestsOK, NewBooking
<1>2. UsedWithinLimit
  BY PromoAssumption DEF Init, UsedWithinLimit
<1>3. HoldersAreCounted
  <2> SUFFICES ASSUME NEW c \in Codes PROVE Cardinality(Holders(c)) <= codes[c].used
    BY DEF HoldersAreCounted
  <2>1. Holders(c) = {}
    BY PromoAssumption DEF Init, Holders, NewBooking
  <2> QED BY <2>1, FS_EmptySet DEF Init
<1> QED BY <1>1, <1>2, <1>3 DEF UsageInv

\* The transaction: a code that is new to the booking is counted and has a use left, and
\* the booking leaves the code it held.
LEMMA ApplyKeepsUsage ==
    ASSUME UsageInv, NEW r \in Requests, Apply(r) PROVE UsageInv'
<1> DEFINE b == requests[r].booking
           c == requests[r].code
<1>1. b \in Bookings /\ c \in Codes
  BY DEF Apply, UsageInv, RequestsOK, Found
<1>2. RequestsOK'
  BY DEF Apply, UsageInv, RequestsOK
<1>3. CASE Refused(b, c)
  <2>1. UNCHANGED <<bookings, codes>>
    BY <1>3 DEF Apply
  <2>2. CodesOK' /\ BookingsOK'
    BY <2>1 DEF UsageInv, CodesOK, BookingsOK
  <2> QED BY <2>1, <2>2, <1>2, UsageUnchanged
<1>4. CASE ~Refused(b, c)
  <2>1. /\ codes' = [codes EXCEPT ![c].used = @ + (IF Counts(b, c) THEN 1 ELSE 0)]
        /\ DOMAIN bookings' = Bookings
        /\ \A a \in Bookings : {"code", "quote"} \subseteq DOMAIN bookings'[a]
        /\ bookings'[b].code = c
        /\ \A a \in Bookings \ {b} : bookings'[a] = bookings[a]
    <3>1. PICK quote, rows :
            bookings' = [bookings EXCEPT ![b].code = c, ![b].quote = quote, ![b].rows = rows]
      BY <1>4 DEF Apply
    <3>2. codes' = [codes EXCEPT ![c].used = @ + (IF Counts(b, c) THEN 1 ELSE 0)]
      BY <1>4 DEF Apply
    <3> HIDE DEF b, c
    <3> QED BY <1>1, <3>1, <3>2 DEF UsageInv, BookingsOK
  <2>2. BookingsOK'
    BY <2>1 DEF BookingsOK
  <2>3. CodesOK'
    BY <1>1, <2>1 DEF UsageInv, CodesOK
  <2>4. IsCurrentlyActive(c)
    BY <1>4 DEF Refused, StillUsable
  <2> HIDE DEF b, c
  <2>5. CASE ~Counts(b, c)
    <3>1. \A a \in Bookings : bookings'[a].code = bookings[a].code
      BY <1>1, <2>1, <2>5 DEF Counts
    <3>2. \A d \in Codes : codes'[d].used = codes[d].used
      BY <1>1, <2>1, <2>5 DEF UsageInv, CodesOK
    <3> QED BY <3>1, <3>2, <1>2, <2>2, <2>3, UsageUnchanged
  <2>6. CASE Counts(b, c)
    <3>1. codes'[c].used = codes[c].used + 1
          /\ \A d \in Codes \ {c} : codes'[d].used = codes[d].used
      BY <1>1, <2>1, <2>6 DEF UsageInv, CodesOK
    <3>2. UsedWithinLimit'
      BY <1>1, <2>4, <3>1, PromoAssumption
         DEF UsageInv, CodesOK, UsedWithinLimit, IsCurrentlyActive, LimitReached
    <3>3. HoldersAreCounted'
      <4> SUFFICES ASSUME NEW d \in Codes PROVE Cardinality(Holders(d)') <= codes'[d].used
        BY DEF HoldersAreCounted
      <4>1. Cardinality(Holders(d)) <= codes[d].used /\ codes[d].used \in Nat
        BY DEF UsageInv, HoldersAreCounted, CodesOK
      <4>2. IsFiniteSet(Holders(d)) /\ Cardinality(Holders(d)) \in Nat
        BY HoldersAreFinite
      <4>3. CASE d = c
        <5>1. Holders(d)' = Holders(d) \union {b} /\ b \notin Holders(d)
          BY <1>1, <2>1, <2>6, <4>3 DEF Holders, Counts
        <5>2. Cardinality(Holders(d)') = Cardinality(Holders(d)) + 1
          BY <5>1, <4>2, FS_AddElement
        <5> QED BY <5>2, <3>1, <4>1, <4>2, <4>3
      <4>4. CASE d # c
        <5>1. Holders(d)' \subseteq Holders(d)
          BY <1>1, <2>1, <4>4 DEF Holders
        <5>2. Cardinality(Holders(d)') <= Cardinality(Holders(d))
              /\ Cardinality(Holders(d)') \in Nat
          BY <5>1, <4>2, FS_Subset, FS_CardinalityType
        <5>3. codes'[d].used = codes[d].used
          BY <3>1, <4>4
        <5> QED BY <5>2, <5>3, <4>1, <4>2
      <4> QED BY <4>3, <4>4
    <3> QED BY <3>2, <3>3, <1>2, <2>2, <2>3 DEF UsageInv
  <2> QED BY <2>5, <2>6
<1> QED BY <1>3, <1>4

\* No step counts a use beyond the limit, and none makes an uncounted holder.
LEMMA UsageStep == UsageInv /\ [Next]_vars => UsageInv'
<1> SUFFICES ASSUME UsageInv, [Next]_vars PROVE UsageInv'
  OBVIOUS
<1>1. ASSUME NEW r \in Requests, NEW b \in Bookings, NEW c \in Codes, FindUsable(r, b, c)
      PROVE  UsageInv'
  <2>1. CodesOK' /\ BookingsOK' /\ RequestsOK'
    BY <1>1 DEF FindUsable, UsageInv, CodesOK, BookingsOK, RequestsOK, Found
  <2> QED BY <1>1, <2>1, UsageUnchanged DEF FindUsable
<1>2. ASSUME NEW r \in Requests, Apply(r) PROVE UsageInv'
  BY <1>2, ApplyKeepsUsage
<1>3. ASSUME NEW b \in Bookings, NEW from, NEW to, SetStatus(b, from, to) PROVE UsageInv'
  <2>1. /\ CodesOK' /\ BookingsOK' /\ RequestsOK'
        /\ \A a \in Bookings : bookings'[a].code = bookings[a].code
    BY <1>3 DEF SetStatus, UsageInv, CodesOK, BookingsOK, RequestsOK
  <2> QED BY <1>3, <2>1, UsageUnchanged DEF SetStatus
<1>4. ASSUME NEW b \in Bookings, OfferExpires(b) PROVE UsageInv'
  <2>1. /\ CodesOK' /\ BookingsOK' /\ RequestsOK'
        /\ \A a \in Bookings : bookings'[a].code = bookings[a].code
    BY <1>4 DEF OfferExpires, UsageInv, CodesOK, BookingsOK, RequestsOK
  <2> QED BY <1>4, <2>1, UsageUnchanged DEF OfferExpires
<1>5. ASSUME NEW c \in Codes, SwitchCode(c) PROVE UsageInv'
  <2>1. /\ CodesOK' /\ BookingsOK' /\ RequestsOK'
        /\ \A d \in Codes : codes'[d].used = codes[d].used
    BY <1>5 DEF SwitchCode, UsageInv, CodesOK, BookingsOK, RequestsOK
  <2> QED BY <1>5, <2>1, UsageUnchanged DEF SwitchCode
<1>6. CASE ChangeRules \/ UNCHANGED vars
  <2>1. UNCHANGED <<bookings, codes, requests>>
    BY <1>6 DEF ChangeRules, vars
  <2>2. CodesOK' /\ BookingsOK' /\ RequestsOK'
    BY <2>1 DEF UsageInv, CodesOK, BookingsOK, RequestsOK
  <2> QED BY <2>1, <2>2, UsageUnchanged
<1> QED BY <1>1, <1>2, <1>3, <1>4, <1>5, <1>6 DEF Next, Prepare, Pay

\* The invariant of usage, whatever the requests do at once.
THEOREM UsageInvariant == Spec => []UsageInv
<1> QED BY UsageInit, UsageStep, PTL DEF Spec

\* No code is used beyond its limit, for any number of bookings and requests.
THEOREM LimitIsKept == Spec => []UsedWithinLimit
<1>1. UsageInv => UsedWithinLimit
  BY DEF UsageInv
<1> QED BY <1>1, UsageInvariant, PTL

\* Every booking that holds a code was counted.
THEOREM HoldersCounted == Spec => []HoldersAreCounted
<1>1. UsageInv => HoldersAreCounted
  BY DEF UsageInv
<1> QED BY <1>1, UsageInvariant, PTL

\* A paid booking keeps its quote, whatever codes were found for it before it was paid and
\* however the rules change: the transaction reads the status again.
THEOREM PaidPrice == Spec => PaidPriceIsFixed
<1> DEFINE A == \A b \in Bookings :
                  bookings[b].status = "payment_succeeded"
                      => bookings'[b].quote = bookings[b].quote
<1>1. UsageInv /\ [Next]_vars => [A]_vars
  <2> SUFFICES ASSUME UsageInv, Next, NEW b \in Bookings,
                      bookings[b].status = "payment_succeeded"
               PROVE  bookings'[b].quote = bookings[b].quote
    OBVIOUS
  <2>1. ASSUME NEW r \in Requests, Apply(r) PROVE bookings'[b].quote = bookings[b].quote
    <3>1. CASE Refused(requests[r].booking, requests[r].code)
      BY <2>1, <3>1 DEF Apply
    <3>2. CASE ~Refused(requests[r].booking, requests[r].code)
      <4>1. requests[r].booking # b
        BY <3>2 DEF Refused, StillUnpaid
      <4> QED BY <2>1, <3>2, <4>1 DEF Apply, UsageInv, BookingsOK
    <3> QED BY <3>1, <3>2
  <2>2. ASSUME NEW d \in Bookings, Prepare(d) \/ Pay(d)
        PROVE  bookings'[b].quote = bookings[b].quote
    <3>1. b # d
      BY <2>2 DEF Prepare, Pay, SetStatus
    <3> QED BY <2>2, <3>1 DEF Prepare, Pay, SetStatus, UsageInv, BookingsOK
  <2>3. ASSUME NEW d \in Bookings, OfferExpires(d)
        PROVE  bookings'[b].quote = bookings[b].quote
    <3>1. b # d => bookings'[b] = bookings[b]
      BY <2>3 DEF OfferExpires, UsageInv, BookingsOK
    <3>2. b = d => bookings'[b] = [bookings[b] EXCEPT !.expired = TRUE]
      BY <2>3 DEF OfferExpires, UsageInv, BookingsOK
    <3>3. "quote" \in DOMAIN bookings[b]
      BY DEF UsageInv, BookingsOK
    <3> QED BY <3>1, <3>2, <3>3
  <2>4. CASE \/ \E r \in Requests, d \in Bookings, c \in Codes : FindUsable(r, d, c)
             \/ \E c \in Codes : SwitchCode(c)
             \/ ChangeRules
    BY <2>4 DEF FindUsable, SwitchCode, ChangeRules
  <2> QED BY <2>1, <2>2, <2>3, <2>4 DEF Next
<1> QED BY <1>1, UsageInvariant, PTL DEF Spec, PaidPriceIsFixed

-----------------------------------------------------------------------------
(* The stored price.  The invariant: what is stored for a booking is a      *)
(* quote that adds up, and the rows of that quote and of no earlier one.    *)

AddsUp(quote) ==
    quote.total = quote.base + quote.tax + quote.fee + quote.markup - quote.discount

StoredPrice(b, booking) ==
    /\ {"quote", "rows"} \subseteq DOMAIN booking
    /\ booking.quote \in Quotes
    /\ booking.rows = RowsOf(booking.quote)
    /\ Subtotal(Fare[b]) >= MinimumTotal => AddsUp(booking.quote)

PriceInv ==
    /\ rules \in RuleSets
    /\ \A b \in Bookings : StoredPrice(b, bookings[b])

\* Every quote of a booking, under any set of rules and with any terms, adds up.
LEMMA QuotesAddUp ==
    ASSUME NEW b \in Bookings, NEW active \in RuleSets,
           NEW terms \in [type : {"fixed", "percentage"}, value : Int, max : Nat]
    PROVE  /\ Quote(Fare[b], active, terms) \in Quotes
           /\ Subtotal(Fare[b]) >= MinimumTotal => AddsUp(Quote(Fare[b], active, terms))
<1> DEFINE fare == Fare[b]
           markup == Markup(active, fare)
           promised == PromoAmount(terms, Subtotal(fare) + markup)
<1>1. fare \in Fares
  BY PriceAssumption DEF Fares
<1>2. markup \in Nat
  <2>1. IsFiniteSet(active) /\ active \subseteq Rules
    BY PriceAssumption DEF Rules
  <2> QED BY <1>1, <2>1, MarkupType
<1>3. Subtotal(fare) = fare.base + fare.tax + fare.fee /\ Subtotal(fare) \in Nat
  BY <1>1 DEF Fares, Subtotal, Greatest
<1>4. promised \in Int
  <2>1. Subtotal(fare) + markup \in Int
    BY <1>2, <1>3
  <2> QED BY <2>1, PromoAmountType
<1>5. Quote(fare, active, terms) = QuoteOf(fare, markup, promised)
  BY DEF Quote
<1>6. fare \in [base : Int, tax : Int, fee : Int, airline : STRING, passengers : Nat]
  BY <1>1 DEF Fares
<1> HIDE DEF fare, markup, promised
<1>7. QuoteOf(fare, markup, promised) \in Quotes
  <2>1. \A a, c \in Int : Least(a, c) \in Int /\ Greatest(a, c) \in Int
    BY DEF Least, Greatest
  <2>2. MinimumTotal \in Int
    BY PricingAssumption
  <2>3. Subtotal(fare) + markup \in Int /\ Subtotal(fare) + markup - MinimumTotal \in Int
    BY <1>2, <1>3, <2>2
  <2>4. Discount(promised, Subtotal(fare) + markup) \in Int
    <3>1. PICK amount \in Int : amount = Subtotal(fare) + markup
      BY <2>3
    <3>2. Discount(promised, amount) \in Nat
      BY <1>4, PricingAssumption, DiscountBounds
    <3> QED BY <3>1, <3>2
  <2>5. TotalOf(Subtotal(fare) + markup, Discount(promised, Subtotal(fare) + markup)) \in Int
    BY <2>1, <2>2, <2>3, <2>4 DEF TotalOf
  <2>6. PICK discount \in Int, total \in Int :
           /\ discount = Discount(promised, Subtotal(fare) + markup)
           /\ total = TotalOf(Subtotal(fare) + markup, discount)
    BY <2>4, <2>5
  <2>7. QuoteOf(fare, markup, promised)
          = [base |-> fare.base, tax |-> fare.tax, fee |-> fare.fee, markup |-> markup,
             discount |-> discount, total |-> total]
    BY <2>6 DEF QuoteOf
  <2>8. /\ fare.base \in Int /\ fare.tax \in Int /\ fare.fee \in Int /\ markup \in Int
    BY <1>2, <1>6
  <2> QED BY <2>7, <2>8 DEF Quotes
<1>8. Subtotal(fare) >= MinimumTotal => AddsUp(QuoteOf(fare, markup, promised))
  BY <1>2, <1>3, <1>4, <1>6, QuoteAddsUp DEF AddsUp
<1> QED BY <1>5, <1>7, <1>8 DEF fare

\* A step that leaves the quote and the rows of every booking.
LEMMA PriceUnchanged ==
    ASSUME PriceInv, rules' \in RuleSets,
           \A b \in Bookings : /\ DOMAIN bookings'[b] = DOMAIN bookings[b]
                               /\ bookings'[b].quote = bookings[b].quote
                               /\ bookings'[b].rows = bookings[b].rows
    PROVE  PriceInv'
BY DEF PriceInv, StoredPrice

\* A new booking stores the quote without a code, and its rows.
LEMMA PriceInit == Init => PriceInv
<1> SUFFICES ASSUME Init, NEW b \in Bookings PROVE StoredPrice(b, bookings[b])
  BY DEF Init, PriceInv
<1>1. rules \in RuleSets /\ bookings[b] = NewBooking(b, rules)
  BY DEF Init
<1>2. NoTerms \in [type : {"fixed", "percentage"}, value : Int, max : Nat]
  BY DEF NoTerms
<1> DEFINE quote == Quote(Fare[b], rules, NoTerms)
<1>3. quote \in Quotes /\ (Subtotal(Fare[b]) >= MinimumTotal => AddsUp(quote))
  BY <1>1, <1>2, QuotesAddUp
<1>4. /\ {"quote", "rows"} \subseteq DOMAIN bookings[b]
      /\ bookings[b].quote = quote /\ bookings[b].rows = RowsOf(quote)
  BY <1>1 DEF NewBooking
<1> QED BY <1>3, <1>4 DEF StoredPrice

\* Only the transaction of a code writes a quote, and it replaces the rows with it.
LEMMA PriceStep == UsageInv /\ PriceInv /\ [Next]_vars => PriceInv'
<1> SUFFICES ASSUME UsageInv, PriceInv, [Next]_vars PROVE PriceInv'
  OBVIOUS
<1>1. rules \in RuleSets /\ DOMAIN bookings = Bookings
  BY DEF PriceInv, UsageInv, BookingsOK
<1>2. ASSUME NEW r \in Requests, Apply(r) PROVE PriceInv'
  <2> DEFINE b == requests[r].booking
             c == requests[r].code
             quote == Quote(Fare[b], rules, Terms[c])
  <2>1. b \in Bookings /\ c \in Codes
    BY <1>2 DEF Apply, UsageInv, RequestsOK, Found
  <2>2. UNCHANGED rules
    BY <1>2 DEF Apply
  <2>3. CASE Refused(b, c)
    <3>1. UNCHANGED bookings
      BY <1>2, <2>3 DEF Apply
    <3> QED BY <3>1, <2>2, <1>1, PriceUnchanged
  <2>4. CASE ~Refused(b, c)
    <3>1. bookings' = [bookings EXCEPT ![b].code = c, ![b].quote = quote,
                                       ![b].rows = RowsOf(quote)]
      BY <1>2, <2>4 DEF Apply, StoredRows
    <3>2. Terms[c] \in [type : {"fixed", "percentage"}, value : Int, max : Nat]
      BY <2>1, PriceAssumption
    <3>3. quote \in Quotes /\ (Subtotal(Fare[b]) >= MinimumTotal => AddsUp(quote))
      BY <1>1, <2>1, <3>2, QuotesAddUp
    <3> HIDE DEF b, c, quote
    <3>4. \A a \in Bookings \ {b} : bookings'[a] = bookings[a]
      BY <1>1, <2>1, <3>1
    <3>5. bookings'[b] = [bookings[b] EXCEPT !.code = c, !.quote = quote,
                                             !.rows = RowsOf(quote)]
      BY <1>1, <2>1, <3>1
    <3>6. {"quote", "rows"} \subseteq DOMAIN bookings[b]
      BY <2>1 DEF PriceInv, StoredPrice
    <3>7. /\ {"quote", "rows"} \subseteq DOMAIN bookings'[b]
          /\ bookings'[b].quote = quote /\ bookings'[b].rows = RowsOf(quote)
      BY <3>5, <3>6
    <3>8. StoredPrice(b, bookings'[b])
      BY <3>3, <3>7 DEF StoredPrice
    <3>9. \A a \in Bookings : StoredPrice(a, bookings'[a])
      BY <3>4, <3>8 DEF PriceInv
    <3> QED BY <1>1, <2>2, <3>9 DEF PriceInv, StoredPrice
  <2> QED BY <2>3, <2>4
<1>3. ASSUME NEW b \in Bookings, NEW from, NEW to, SetStatus(b, from, to) PROVE PriceInv'
  <2>1. \A a \in Bookings : /\ DOMAIN bookings'[a] = DOMAIN bookings[a]
                            /\ bookings'[a].quote = bookings[a].quote
                            /\ bookings'[a].rows = bookings[a].rows
    BY <1>1, <1>3 DEF SetStatus, PriceInv, StoredPrice
  <2> QED BY <1>1, <1>3, <2>1, PriceUnchanged DEF SetStatus
<1>4. ASSUME NEW b \in Bookings, OfferExpires(b) PROVE PriceInv'
  <2>1. \A a \in Bookings : /\ DOMAIN bookings'[a] = DOMAIN bookings[a]
                            /\ bookings'[a].quote = bookings[a].quote
                            /\ bookings'[a].rows = bookings[a].rows
    BY <1>1, <1>4 DEF OfferExpires, PriceInv, StoredPrice
  <2> QED BY <1>1, <1>4, <2>1, PriceUnchanged DEF OfferExpires
<1>5. CASE \/ \E r \in Requests, b \in Bookings, c \in Codes : FindUsable(r, b, c)
           \/ \E c \in Codes : SwitchCode(c)
           \/ ChangeRules
           \/ UNCHANGED vars
  <2>1. UNCHANGED bookings /\ rules' \in RuleSets
    BY <1>1, <1>5 DEF FindUsable, SwitchCode, ChangeRules, vars
  <2> QED BY <2>1, PriceUnchanged
<1> QED BY <1>2, <1>3, <1>4, <1>5 DEF Next, Prepare, Pay

\* The rows on the checkout page add up to the total that is charged, for every fare, every
\* set of markup rules and every code: creating a booking and applying a code both store
\* the rows of the quote they store.
THEOREM RowsAddUp == Spec => []PriceRowsAddUp
<1>1. PriceInv => PriceRowsAddUp
  <2> SUFFICES ASSUME PriceInv, NEW b \in Bookings, Subtotal(Fare[b]) >= MinimumTotal
               PROVE  RowsTotal(bookings[b].rows) = bookings[b].quote.total
    BY DEF PriceRowsAddUp
  <2>1. StoredPrice(b, bookings[b])
    BY DEF PriceInv
  <2> QED BY <2>1, RowsTotalIs DEF StoredPrice, AddsUp
<1> QED BY <1>1, PriceInit, PriceStep, UsageInvariant, PTL DEF Spec

\* A customer who adds the rows he reads, each rounded to whole units, misses the total he
\* reads by three units at most.
DisplayedAddsUp ==
    \A b \in Bookings :
        LET rows == DisplayedRows(bookings[b].quote)
        IN  Subtotal(Fare[b]) >= MinimumTotal =>
                rows[1] + rows[2] + rows[3] + rows[4] + rows[5]
                    - Displayed(bookings[b].quote.total) \in -3 .. 3

\* It is so for every price the program stores: the pages format what is stored.
THEOREM DisplayedPrice == Spec => []DisplayedAddsUp
<1>1. PriceInv => DisplayedAddsUp
  <2> SUFFICES ASSUME PriceInv, NEW b \in Bookings, Subtotal(Fare[b]) >= MinimumTotal
               PROVE  LET rows == DisplayedRows(bookings[b].quote)
                      IN  rows[1] + rows[2] + rows[3] + rows[4] + rows[5]
                              - Displayed(bookings[b].quote.total) \in -3 .. 3
    BY DEF DisplayedAddsUp
  <2>1. /\ bookings[b].quote \in [base : Int, tax : Int, fee : Int, markup : Int,
                                  discount : Int, total : Int]
        /\ AddsUp(bookings[b].quote)
    BY DEF PriceInv, StoredPrice, Quotes
  <2> QED BY <2>1, DisplayedRowsAddUp DEF AddsUp
<1> QED BY <1>1, PriceInit, PriceStep, UsageInvariant, PTL DEF Spec
=============================================================================
