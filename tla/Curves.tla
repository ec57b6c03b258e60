------------------------------- MODULE Curves -------------------------------
(***************************************************************************)
(* Interpolation (include/epykos/maths/curve/): the schemes, the variable  *)
(* a scheme interpolates, and the composite curve, whose regions each have *)
(* their own scheme and variable and agree where they meet.  A curve is    *)
(* constructed from a definition, which may be refused, and a state of it  *)
(* prepared region by region, a region's anchors being taken from its      *)
(* neighbours.                                                             *)
(*   Times are integers; values are exact fractions, so what is said here  *)
(* of equality is said of the real functions.  A discount factor is its    *)
(* logarithm.                                                              *)
(***************************************************************************)
EXTENDS Integers, Sequences, FiniteSets

CONSTANTS Definitions,  \* what curves are asked for: knot times and regions
          Levels,       \* the values a knot may have, integers
          Infinity      \* later than any time

CurvesAssumption ==
  /\ Levels \subseteq Int /\ Infinity \in Nat
  /\ \A d \in Definitions :
       /\ d.knots \in Seq(Int) /\ \A k \in DOMAIN d.knots : d.knots[k] < Infinity
       /\ d.regions \in Seq([ta : Int, tb : Int, scheme : STRING, variable : STRING])

VARIABLES definition,  \* the definition given to the constructor
          built,       \* "no", "refused", "built" ("idle" when no curve is made)
          values,      \* the knot values of the state prepared, none before
          prepared     \* the regions prepared so far: knot values, coefficients, level
-----------------------------------------------------------------------------
(* Fractions in lowest terms, the denominator positive.                    *)
Gcd[a \in Nat, b \in Nat] == IF b = 0 THEN a ELSE Gcd[b, a % b]
Abs(n) == IF n < 0 THEN -n ELSE n
Lowered(n, d, g) == IF d < 0 THEN <<-(n \div g), -(d \div g)>> ELSE <<n \div g, d \div g>>
Fraction(n, d) == Lowered(n, d, Gcd[Abs(n), Abs(d)])
Whole(n) == <<n, 1>>
Zero == Whole(0)
x \oplus y == Fraction(x[1] * y[2] + y[1] * x[2], x[2] * y[2])
x \ominus y == Fraction(x[1] * y[2] - y[1] * x[2], x[2] * y[2])
x \otimes y == Fraction(x[1] * y[1], x[2] * y[2])
x \oslash y == Fraction(x[1] * y[2], x[2] * y[1])
Below(x, y) == x[1] * y[2] < y[1] * x[2]
Lesser(x, y) == IF Below(x, y) THEN x ELSE y
Negated(x) == Zero \ominus x
Least(m, n) == IF m < n THEN m ELSE n
Greatest(m, n) == IF m < n THEN n ELSE m

(* The sum of what f is at 1 .. n.                                         *)
SumTo(n, f) == LET sum[i \in 0 .. n] == IF i = 0 THEN Zero ELSE sum[i - 1] \oplus f[i] IN sum[n]
-----------------------------------------------------------------------------
(* The grid of a scheme: a sequence of times, the knots of v.              *)
First(g) == g[1]
Final(g) == g[Len(g)]
Step(g, k) == g[k + 1] - g[k]
Segment(g, t) == CHOOSE k \in 1 .. Len(g) - 1 : g[k] <= t /\ t < g[k + 1]
IsGrid(g) == g # <<>> /\ \A k \in 1 .. Len(g) - 1 : g[k] < g[k + 1]

Secant(g, v, k) == (v[k + 1] \ominus v[k]) \oslash Whole(Step(g, k))

(* The parabola through three knots; the end tangents lean on the next     *)
(* secant but one.                                                         *)
BesselTangent(g, v, k) ==
  LET n == Len(g)
      lean(near, far) ==
        LET hn == Step(g, near)  hf == Step(g, far)
        IN (Fraction(2 * hn + hf, hn + hf) \otimes Secant(g, v, near)) \ominus (Fraction(hn, hn + hf) \otimes Secant(g, v, far))
  IN IF n = 2 THEN Secant(g, v, 1)
     ELSE IF k = 1 THEN lean(1, 2)
     ELSE IF k = n THEN lean(n - 1, n - 2)
     ELSE LET hl == Step(g, k - 1)  hr == Step(g, k)
          IN (Fraction(hr, hl + hr) \otimes Secant(g, v, k - 1)) \oplus (Fraction(hl, hl + hr) \otimes Secant(g, v, k))

(* The limiter of one tangent between its secants: of their sign, and no   *)
(* steeper than three times the flatter of them.                           *)
Limited_AnySign(m0, dl, dr, interior) == m0
Limited(m0, dl, dr, interior) ==
  LET sign == Whole(IF dr[1] < 0 THEN -1 ELSE 1)
      steep(d) == <<3 * Abs(d[1]), d[2]>>
      limit == IF interior THEN Lesser(steep(dr), steep(dl)) ELSE steep(dr)
      along == sign \otimes m0
      floored == IF Below(along, Zero) THEN Zero ELSE along
      same == sign \otimes Lesser(limit, floored)
  IN IF interior /\ ~ Below(Zero, dl \otimes dr) THEN Zero ELSE same

(* The second derivatives at the interior knots: the tridiagonal system    *)
(* swept down with its pivots and back.                                    *)
SecondDerivatives(g, v) ==
  LET m == Len(g) - 2
      a(i) == Fraction(Step(g, i), 6)
      b(i) == Fraction(Step(g, i) + Step(g, i + 1), 3)
      c(i) == Fraction(Step(g, i + 1), 6)
      pivot[i \in 1 .. m] == IF i = 1 THEN b(1) ELSE b(i) \ominus (a(i) \otimes (c(i - 1) \oslash pivot[i - 1]))
      down[i \in 1 .. m] ==
        LET r == Secant(g, v, i + 1) \ominus Secant(g, v, i)
        IN (IF i = 1 THEN r ELSE r \ominus (a(i) \otimes down[i - 1])) \oslash pivot[i]
      back[i \in 1 .. m] == IF i = m THEN down[m] ELSE down[i] \ominus ((c(i) \oslash pivot[i]) \otimes back[i + 1])
  IN [i \in 1 .. m |-> back[i]]

(* prepare: what a scheme computes once of a state.                        *)
Coefficients(scheme, g, v) ==
  LET n == Len(g)
      bessel(k) == BesselTangent(g, v, k)
  IN CASE scheme = "hermite" /\ n > 1 -> [k \in 1 .. n |-> bessel(k)]
       [] scheme = "monotone_cubic" /\ n > 1 ->
            [k \in 1 .. n |-> Limited(bessel(k), Secant(g, v, IF k > 1 THEN k - 1 ELSE k),
                                      Secant(g, v, IF k < n THEN k ELSE k - 1), 1 < k /\ k < n)]
       [] scheme = "natural_cubic" /\ n > 2 -> SecondDerivatives(g, v)
       [] OTHER -> <<>>

Cubed(x) == x \otimes (x \otimes x)
HermiteAt(g, v, m, k, t) ==
  LET h == Whole(Step(g, k))
      s == Fraction(t - g[k], Step(g, k))
      u == Whole(1) \ominus s
      h00 == (Whole(1) \oplus (Whole(2) \otimes s)) \otimes (u \otimes u)
      h10 == s \otimes (u \otimes u)
      h01 == (s \otimes s) \otimes (Whole(3) \ominus (Whole(2) \otimes s))
      h11 == (s \otimes s) \otimes (s \ominus Whole(1))
  IN SumTo(4, <<h00 \otimes v[k], (h10 \otimes h) \otimes m[k], h01 \otimes v[k + 1], (h11 \otimes h) \otimes m[k + 1]>>)

NaturalAt(g, v, M, k, t) ==
  LET h == Step(g, k)
      A == Fraction(g[k + 1] - t, h)
      B == Fraction(t - g[k], h)
      bend(w) == (Cubed(w) \ominus w) \otimes Fraction(h * h, 6)
  IN SumTo(4, <<A \otimes v[k], B \otimes v[k + 1], IF k = 1 THEN Zero ELSE bend(A) \otimes M[k - 1],
                IF k + 1 = Len(g) THEN Zero ELSE bend(B) \otimes M[k]>>)

(* The clamped B-spline: its degree, its knot vector (the running means of *)
(* the knot times between the ends), the weights of the control points at  *)
(* a time, degree by degree.                                               *)
Degree(g) == Least(3, Len(g) - 1)
KnotVector(g) ==
  LET n == Len(g)  p == Degree(g)
      mean(i) == Fraction(SumTo(p, [j \in 1 .. p |-> Whole(g[i - j])])[1], p)
  IN [i \in 1 .. n + p + 1 |-> IF i <= p + 1 THEN Whole(g[1]) ELSE IF i > n THEN Whole(g[n]) ELSE mean(i)]
SpanIn(U, n, p, t) ==
  IF ~ Below(Whole(t), U[n + 1]) THEN n
  ELSE CHOOSE i \in p + 1 .. n : ~ Below(Whole(t), U[i]) /\ Below(Whole(t), U[i + 1])
Span(g, t) == SpanIn(KnotVector(g), Len(g), Degree(g), t)
BasisIn(U, p, i, t) ==
  LET left(j) == Whole(t) \ominus U[i + 1 - j]
      right(j) == U[i + j] \ominus Whole(t)
      weight[j \in 0 .. p] ==
        IF j = 0 THEN <<Whole(1)>>
        ELSE LET temp(r) == weight[j - 1][r] \oslash (right(r) \oplus left(j - r + 1))
             IN [r \in 1 .. j + 1 |-> (IF r > 1 THEN left(j - r + 2) \otimes temp(r - 1) ELSE Zero)
                                        \oplus (IF r <= j THEN right(r) \otimes temp(r) ELSE Zero)]
  IN weight[p]
Basis(g, t) == BasisIn(KnotVector(g), Degree(g), Span(g, t), t)
Weighed(w, v, first) == SumTo(Len(w), [j \in 1 .. Len(w) |-> w[j] \otimes v[first + j - 1]])
SplineAt(g, v, t) == Weighed(Basis(g, t), v, Span(g, t) - Degree(g))

(* value: flat outside the grid, the knot's value at a knot.               *)
Value(scheme, g, v, coef, t) ==
  IF t < First(g) THEN v[1]
  ELSE IF t >= Final(g) THEN v[Len(g)]
  ELSE LET k == Segment(g, t)
           w == Fraction(t - g[k], Step(g, k))
       IN CASE scheme = "bspline" -> IF t = First(g) THEN v[1] ELSE SplineAt(g, v, t)
            [] scheme = "flat" \/ t = g[k] -> v[k]
            [] scheme = "linear" -> ((Whole(1) \ominus w) \otimes v[k]) \oplus (w \otimes v[k + 1])
            [] scheme = "natural_cubic" -> NaturalAt(g, v, coef, k, t)
            [] OTHER -> HermiteAt(g, v, coef, k, t)
-----------------------------------------------------------------------------
(* The integral of the flat or the linear scheme over [from, to], flat     *)
(* outside the grid: what each knot's value counts for.                    *)
FlatMass(g, from, to, k) ==
  LET lo == IF k = 1 THEN from ELSE Greatest(from, g[k])
      hi == IF k = Len(g) THEN to ELSE Least(to, g[k + 1])
  IN Whole(Greatest(0, hi - lo))
LinearMass(g, from, to, k) ==
  LET n == Len(g)
      s(x, c) == Fraction(x - g[c], Step(g, c))
      part(c) ==  \* of the cell of knot c, what its left and its right knot count for
        LET x0 == Greatest(from, g[c])  x1 == Least(to, g[c + 1])
            right == Fraction(Step(g, c), 2) \otimes ((s(x1, c) \otimes s(x1, c)) \ominus (s(x0, c) \otimes s(x0, c)))
        IN IF x1 > x0 THEN <<Whole(x1 - x0) \ominus right, right>> ELSE <<Zero, Zero>>
      before == Greatest(0, Least(to, First(g)) - from)
      after == Greatest(0, to - Greatest(from, Final(g)))
  IN SumTo(4, <<IF k = 1 THEN Whole(before) ELSE Zero, IF k = n THEN Whole(after) ELSE Zero,
                IF k < n THEN part(k)[1] ELSE Zero, IF k > 1 THEN part(k - 1)[2] ELSE Zero>>)
Integral(scheme, g, v, from, to) ==
  LET n == Len(g)
      mass(a, b, k) == IF scheme = "flat" \/ n = 1 THEN FlatMass(g, a, b, k) ELSE LinearMass(g, a, b, k)
      over(a, b) == SumTo(n, [k \in 1 .. n |-> mass(a, b, k) \otimes v[k]])
  IN Whole(IF to < from THEN -1 ELSE 1) \otimes over(Least(from, to), Greatest(from, to))

(* The level of a variable at a time as a log discount factor, and back.   *)
ToLogDf(variable, x, t) == IF variable = "zero" THEN Negated(x) \otimes Whole(t) ELSE x
FromLogDf(variable, y, t) == IF variable = "zero" THEN y \otimes Fraction(-1, t) ELSE y
Convert(from, to, x, t) == IF from = to THEN x ELSE FromLogDf(to, ToLogDf(from, x, t), t)
-----------------------------------------------------------------------------
(* The curve of one scheme (curve.hpp): through the origin if it is of log *)
(* discount factors and its first knot is later.                           *)
HasOrigin(variable, knots) == variable = "logdf" /\ knots[1] > 0
PlainLogDf(scheme, variable, knots, state, t) ==
  LET origin == HasOrigin(variable, knots)
      g == IF origin THEN <<0>> \o knots ELSE knots
      v == IF origin THEN <<Zero>> \o state ELSE state
  IN IF variable = "forward" THEN Negated(Integral(scheme, g, v, 0, t))
     ELSE ToLogDf(variable, Value(scheme, g, v, Coefficients(scheme, g, v), t), t)
-----------------------------------------------------------------------------
(* The constructor: what it refuses, then the regions and their knots.     *)
KnotTimes == definition.knots
Specs == definition.regions
Final_t(d, r) == IF r = Len(d.regions) THEN Infinity ELSE d.regions[r].tb
Owned(d, r) == {k \in DOMAIN d.knots : d.regions[r].ta <= d.knots[k] /\ d.knots[k] < Final_t(d, r)}

Acceptable(d) ==
  /\ d.knots # <<>> /\ d.regions # <<>>
  /\ \A k \in DOMAIN d.knots : d.knots[k] >= 0 /\ (k > 1 => d.knots[k] > d.knots[k - 1])
  /\ d.regions[1].ta = 0
  /\ \A r \in DOMAIN d.regions :
       LET spec == d.regions[r]
       IN /\ spec.ta < Final_t(d, r)
          /\ r < Len(d.regions) => d.regions[r + 1].ta = spec.tb
          /\ spec.variable = "forward" => r = Len(d.regions) /\ spec.scheme \in {"flat", "linear"}
          /\ Owned(d, r) # {}

Ta(r) == Specs[r].ta
Tb(r) == Final_t(definition, r)
Forward(r) == Specs[r].variable = "forward"
Count(r) == Cardinality(Owned(definition, r))
FirstKnot(r) == Cardinality({k \in DOMAIN KnotTimes : KnotTimes[k] < Ta(r)}) + 1

(* The knot on the boundary owns the boundary value: the region before it  *)
(* ends in a copy of it, a region without one begins in a copy of what the *)
(* region before says there.                                               *)
Origin(r) == r = 1 /\ HasOrigin(Specs[r].variable, KnotTimes)
LeftAnchor_Always(r) == r > 1 /\ ~ Forward(r)
LeftAnchor(r) == r > 1 /\ ~ Forward(r) /\ KnotTimes[FirstKnot(r)] > Ta(r)
RightAnchor(r) == r < Len(Specs) /\ ~ Forward(r) /\ ~ Forward(r + 1) /\ KnotTimes[FirstKnot(r + 1)] = Tb(r)
KnotsOf(r) == SubSeq(KnotTimes, FirstKnot(r), FirstKnot(r) + Count(r) - 1)
Grid(r) ==
  (IF Origin(r) THEN <<0>> ELSE <<>>) \o (IF LeftAnchor(r) THEN <<Ta(r)>> ELSE <<>>)
     \o KnotsOf(r) \o (IF RightAnchor(r) THEN <<Tb(r)>> ELSE <<>>)

RegionOf(t) == CHOOSE r \in DOMAIN Specs : /\ t < Tb(r)
                                           /\ \A q \in 1 .. r - 1 : t >= Tb(q)

(* What a region that is prepared says of a time, its end included.        *)
ValueIn(r, t) == Value(Specs[r].scheme, Grid(r), prepared[r].v, prepared[r].coef, t)
LogDfIn(r, t) ==
  IF Forward(r)
  THEN (IF r = 1 THEN Zero ELSE prepared[r].level) \ominus Integral(Specs[r].scheme, Grid(r), prepared[r].v, Ta(r), t)
  ELSE ToLogDf(Specs[r].variable, ValueIn(r, t), t)
LogDf(t) == LogDfIn(RegionOf(t), t)

StateOf(r) ==
  LET left == LogDfIn(r - 1, Ta(r))
      v == (IF Origin(r) THEN <<Zero>> ELSE <<>>)
             \o (IF LeftAnchor(r) THEN <<FromLogDf(Specs[r].variable, left, Ta(r))>> ELSE <<>>)
             \o SubSeq(values, FirstKnot(r), FirstKnot(r) + Count(r) - 1)
             \o (IF RightAnchor(r) THEN <<Convert(Specs[r + 1].variable, Specs[r].variable, values[FirstKnot(r + 1)], Tb(r))>>
                 ELSE <<>>)
  IN [v |-> v, coef |-> Coefficients(Specs[r].scheme, Grid(r), v), level |-> IF Forward(r) /\ r > 1 THEN left ELSE Zero]
-----------------------------------------------------------------------------
(* Sets of curves (solver/curve_set.cpp).  A curve of a set has a name,    *)
(* knots, the start of its solves and regions; with none it is linear in   *)
(* the zero rate.  A set is the curves added to it; nothing is what a call *)
(* that throws gives.                                                      *)
Throws == <<>>
CurveSpec(name, knots, start, regions) == [name |-> name, knots |-> knots, start |-> start, scheme |-> "linear", regions |-> regions]
Find(set, name) ==
  IF \E c \in DOMAIN set : set[c].name = name THEN CHOOSE c \in DOMAIN set : set[c].name = name ELSE 0

AddCurve_AnyName(set, spec) == Append(set, [spec EXCEPT !.scheme = IF spec.regions = <<>> THEN "linear" ELSE "composite"])
AddCurve(set, spec) ==
  IF /\ spec.name # "" /\ Find(set, spec.name) = 0
     /\ IsGrid(spec.knots) /\ Len(spec.start) = Len(spec.knots)
     /\ IF spec.regions = <<>> THEN spec.scheme = "linear" ELSE Acceptable([knots |-> spec.knots, regions |-> spec.regions])
  THEN Append(set, [spec EXCEPT !.scheme = IF spec.regions = <<>> THEN @ ELSE "composite"])
  ELSE Throws

(* The curve of a calibration set, which knows its place among the curves. *)
AddCalibrationSet(set, slot, spec) ==
  IF Len(set) + 1 # slot \/ Len(spec.start) # Len(spec.knots) THEN Throws ELSE AddCurve(set, spec)

(* The values of all curves, one curve after the other.                    *)
KnotsBefore(set, c) == LET n[i \in 1 .. c] == IF i = 1 THEN 0 ELSE n[i - 1] + Len(set[i - 1].knots) IN n[c]
KnotsTotal(set) == KnotsBefore(set, Len(set) + 1)
StatesAt(set, z) ==
  IF Len(z) # KnotsTotal(set) THEN Throws
  ELSE [c \in DOMAIN set |-> SubSeq(z, KnotsBefore(set, c) + 1, KnotsBefore(set, c) + Len(set[c].knots))]
StartAll(set) ==
  LET all[c \in 0 .. Len(set)] == IF c = 0 THEN <<>> ELSE all[c - 1] \o set[c].start IN all[Len(set)]

(* A curve with no values is one of a block that is not yet solved.  Only  *)
(* one with no regions has a zero rate.                                    *)
CurveOf(states, c) == states[c]
LinearZeroRate(g, z, t) ==
  IF t <= First(g) THEN z[1] ELSE IF t >= Final(g) THEN z[Len(z)]
  ELSE LET k == Segment(g, t)
           w == Fraction(t - g[k], Step(g, k))
       IN IF t = g[k] THEN z[k] ELSE ((Whole(1) \ominus w) \otimes z[k]) \oplus (w \otimes z[k + 1])
ZeroRate(set, states, c, t) ==
  IF set[c].regions # <<>> \/ CurveOf(states, c) = Throws THEN Throws ELSE LinearZeroRate(set[c].knots, states[c], t)
LogDfOf(set, states, c, t) ==
  IF set[c].regions # <<>> THEN IF CurveOf(states, c) = Throws THEN Throws ELSE LogDf(t)
  ELSE LET z == ZeroRate(set, states, c, t) IN IF z = Throws THEN Throws ELSE Negated(z) \otimes Whole(t)

(* The flat zero rate in each knot's own variable.                         *)
StartValues_InZeroRates(flat) == [k \in DOMAIN KnotTimes |-> Whole(flat)]
StartValues(flat) ==
  [k \in DOMAIN KnotTimes |-> IF Specs[RegionOf(KnotTimes[k])].variable = "logdf" THEN Whole(-flat * KnotTimes[k]) ELSE Whole(flat)]
-----------------------------------------------------------------------------
NoDefinition == [knots |-> <<>>, regions |-> <<>>]
CurveInit == definition = NoDefinition /\ values = <<>> /\ prepared = <<>>

Construct ==
  /\ built = "no"
  /\ \E d \in Definitions : definition' = d /\ built' = IF Acceptable(d) THEN "built" ELSE "refused"
  /\ UNCHANGED <<values, prepared>>

(* prepare, a region at a time: a region asks the one before it.           *)
GiveValues ==
  /\ built = "built" /\ values = <<>>
  /\ \/ \E v \in [DOMAIN KnotTimes -> Levels] : values' = [k \in DOMAIN KnotTimes |-> Whole(v[k])]
     \/ \E flat \in Levels : values' = StartValues(flat)
  /\ UNCHANGED <<definition, built, prepared>>
PrepareRegion ==
  /\ values # <<>> /\ Len(prepared) < Len(Specs)
  /\ prepared' = Append(prepared, StateOf(Len(prepared) + 1))
  /\ UNCHANGED <<definition, built, values>>

CurveNext == Construct \/ GiveValues \/ PrepareRegion
-----------------------------------------------------------------------------
(* A definition that is accepted makes a curve: the grid of every region   *)
(* is one a scheme can be constructed on, within the region, every knot is *)
(* in the region that prices its time, and no conversion at a boundary     *)
(* divides by a time of nothing.                                           *)
RegionsTile ==
  built = "built" =>
    /\ \A r \in DOMAIN Specs :
         /\ IsGrid(Grid(r)) /\ First(Grid(r)) >= Ta(r) /\ Final(Grid(r)) <= Tb(r)
         /\ LeftAnchor(r) => Ta(r) > 0
         /\ \A k \in FirstKnot(r) .. FirstKnot(r) + Count(r) - 1 : RegionOf(KnotTimes[k]) = r
    /\ \A k \in DOMAIN KnotTimes : \E r \in DOMAIN Specs : k \in FirstKnot(r) .. FirstKnot(r) + Count(r) - 1

Whole_t == 0 .. KnotTimes[Len(KnotTimes)] + 2
Prepared == values # <<>> /\ Len(prepared) = Len(Specs)

(* The curve is continuous where regions meet and beyond its last knot     *)
(* goes on as it must, its knots have the values given, and its discount   *)
(* factor today is one, unless a knot of today says otherwise.  A curve    *)
(* of one region is the plain curve.                                       *)
CurvesJoin ==
  /\ RegionsTile
  /\ Prepared =>
       /\ \A r \in 2 .. Len(Specs) : LogDfIn(r - 1, Ta(r)) = LogDf(Ta(r))
       /\ \A r \in DOMAIN Specs : \A k \in 1 .. Count(r) :
            LET t == KnotsOf(r)[k]
            IN Specs[r].scheme # "bspline" \/ t \in {First(Grid(r)), Final(Grid(r))} =>
                 ValueIn(r, t) = values[FirstKnot(r) + k - 1]
       /\ ~ (Specs[1].variable = "logdf" /\ KnotTimes[1] = 0) => LogDf(0) = Zero
       /\ Len(Specs) = 1 =>
            \A t \in Whole_t : LogDf(t) = PlainLogDf(Specs[1].scheme, Specs[1].variable, KnotTimes, values, t)

Between(x, y, z) == ~ Below(y, Lesser(x, z)) /\ ~ Below(IF Below(x, z) THEN z ELSE x, y)
(* Between knots each scheme is the curve it is named for: the flat one a  *)
(* step, the linear one a line, the Hermite cubic a parabola wherever its  *)
(* knots are on one, the natural cubic a spline whose slopes agree at      *)
(* every knot, the monotone cubic never outside the two knots around or    *)
(* against their order, the B-spline an average of at most four control    *)
(* points.  The integral of a forward is its area.                         *)
SchemesFit ==
  Prepared =>
    \A r \in DOMAIN Specs :
      LET g == Grid(r)  v == prepared[r].v  M == prepared[r].coef  n == Len(g)
          f(t) == ValueIn(r, t)
          bent(k) == IF k \in {1, n} THEN Zero ELSE M[k - 1]
          cells == {k \in 1 .. n - 1 : g[k] >= Ta(r)}
          inside(k) == g[k] .. g[k + 1]
          OnParabola == \A k \in 1 .. n - 3 :
            (Secant(g, v, k + 1) \ominus Secant(g, v, k)) \otimes Whole(g[k + 3] - g[k + 1])
              = (Secant(g, v, k + 2) \ominus Secant(g, v, k + 1)) \otimes Whole(g[k + 2] - g[k])
          parabola(t) ==  \* through the first three knots
            v[1] \oplus (Whole(t - g[1]) \otimes (Secant(g, v, 1) \oplus
              (Whole(t - g[2]) \otimes ((Secant(g, v, 2) \ominus Secant(g, v, 1)) \oslash Whole(g[3] - g[1])))))
      IN CASE Specs[r].scheme = "flat" -> \A k \in 1 .. n - 1 : \A t \in inside(k) \ {g[k + 1]} : f(t) = v[k]
           [] Specs[r].scheme = "linear" ->
                \A k \in 1 .. n - 1 : \A t \in inside(k) :
                  (f(t) \ominus v[k]) \otimes Whole(Step(g, k)) = (v[k + 1] \ominus v[k]) \otimes Whole(t - g[k])
           [] Specs[r].scheme = "hermite" -> n > 2 /\ OnParabola => \A t \in First(g) .. Final(g) : f(t) = parabola(t)
           [] Specs[r].scheme = "natural_cubic" ->
                /\ \A k \in 2 .. n - 1 :
                     SumTo(3, <<Fraction(Step(g, k - 1), 6) \otimes bent(k - 1),
                                Fraction(Step(g, k - 1) + Step(g, k), 3) \otimes bent(k),
                                Fraction(Step(g, k), 6) \otimes bent(k + 1)>>) = Secant(g, v, k) \ominus Secant(g, v, k - 1)
                /\ \A k \in 1 .. n - 1 : \A t \in g[k] + 1 .. g[k + 1] - 1 :
                     SumTo(3, <<f(t + 1), Negated(f(t) \otimes Whole(2)), f(t - 1)>>) \otimes Whole(Step(g, k))
                       = (Whole(g[k + 1] - t) \otimes bent(k)) \oplus (Whole(t - g[k]) \otimes bent(k + 1))
           [] Specs[r].scheme = "monotone_cubic" ->
                \A k \in 1 .. n - 1 : \A t \in g[k] .. g[k + 1] - 1 : Between(f(t), f(t + 1), v[k + 1]) /\ Between(v[k], f(t), v[k + 1])
           [] OTHER ->
                \A t \in First(g) .. Final(g) - 1 :
                  LET w == Basis(g, t)  own == Span(g, t) - Degree(g) .. Span(g, t)
                  IN /\ SumTo(Len(w), w) = Whole(1)
                     /\ \A j \in DOMAIN w : ~ Below(w[j], Zero)
                     /\ \E lo, hi \in own : Between(v[lo], f(t), v[hi])
(* Every solve starts from "the flat continuously compounded zero rate":   *)
(* whatever its variables, the curve is flat, as far as its schemes draw a *)
(* line through the points of one.                                         *)
StartsFlat ==
  Prepared =>
    \A flat \in Levels :
      LET Straight(r) == Specs[r].variable # "logdf" \/ Specs[r].scheme \in {"linear", "hermite", "natural_cubic", "monotone_cubic"}
          Spans(r, t) == Specs[r].variable # "logdf" \/ t <= Final(Grid(r))
          Kept(r) == Straight(r) /\ Spans(r, Tb(r))
      IN values = StartValues(flat) =>
           \A t \in Whole_t :
             LET r == RegionOf(t)
             IN Straight(r) /\ Spans(r, t) /\ (\A q \in 1 .. r - 1 : Kept(q)) => LogDf(t) = Whole(-flat * t)

(* A set of curves has every curve once, in its place and with its own     *)
(* knots' values; one of one linear region in the zero rate is, "for       *)
(* {linear, zero}, bitwise the M1 curve" (curve_set.hpp:37).               *)
SetsOfCurves ==
  Prepared =>
    LET zeros == [k \in DOMAIN KnotTimes |-> Zero]
        plain == AddCurve(<<>>, CurveSpec("discount", KnotTimes, zeros, <<>>))
        spec == CurveSpec("projection", KnotTimes, values, Specs)
        set == AddCalibrationSet(plain, 2, spec)
        states == StatesAt(set, StartAll(set))
    IN /\ Len(set) = 2 /\ Find(set, "projection") = 2 /\ states = <<zeros, values>>
       /\ AddCalibrationSet(set, 2, [spec EXCEPT !.name = "basis"]) = Throws /\ AddCurve(set, spec) = Throws
       /\ StatesAt(set, values) = Throws /\ AddCurve(set, CurveSpec("basis", KnotTimes, Tail(values), <<>>)) = Throws
       /\ \A t \in Whole_t :
            /\ LogDfOf(set, states, 1, t) = Zero /\ ZeroRate(set, states, 2, t) = Throws
            /\ LogDfOf(set, <<zeros, <<>>>>, 2, t) = Throws
            /\ Len(Specs) = 1 /\ Specs[1].scheme = "linear" /\ Specs[1].variable = "zero" =>
                 LogDfOf(set, states, 2, t) = LogDfOf(plain, <<values>>, 1, t)

(* The area under a forward is what its discount factors fall by.          *)
AreasAdd ==
  Prepared /\ Forward(Len(Specs)) =>
    LET r == Len(Specs)
        f(t) == ValueIn(r, t)
        area(t) == IF Specs[r].scheme = "flat" THEN f(t) ELSE (f(t) \oplus f(t + 1)) \oslash Whole(2)
    IN \A t \in Ta(r) .. KnotTimes[Len(KnotTimes)] + 1 :
         \E a \in {area(t)} :
           /\ LogDf(t) \ominus LogDf(t + 1) = a
           /\ Integral(Specs[r].scheme, Grid(r), prepared[r].v, t + 1, t) = Negated(a)
=============================================================================
