--------------------------- MODULE RollingPlanProofs ---------------------------
(***************************************************************************)
(* For any arms, years, calendars and as-of dates, however often plans are *)
(* emitted and years run again: predictions rest on what was known, arms   *)
(* leave each other's refits alone, and every day is predicted once.       *)
(* And of the backtests computed from them: whatever jobs rewrite them, an *)
(* analysis reads what its QA finds, and an overlay comparison that waited *)
(* for its arms leaves none running and compares what they wrote.          *)
(***************************************************************************)
EXTENDS RollingPlan, BacktestReport, FiniteSetTheorems, SequenceTheorems, TLAPS

-----------------------------------------------------------------------------
(* The calendar: what is used of it, so that nobody has to multiply.       *)

LEMMA YearEnds ==
  ASSUME NEW y \in Int
  PROVE  /\ Last(y) \in Int /\ First(y) \in Int
         /\ Last(y - 1) < First(y)
         /\ Last(y) = Last(y - 1) + DaysPerYear
         /\ y # 1 => First(y) = Last(y - 1) + 1
         /\ y = 1 => First(y) = 2 /\ Last(y - 1) = 0
<1>1. /\ DaysPerYear \in Int /\ y * DaysPerYear \in Int /\ (y - 1) * DaysPerYear \in Int
      /\ y * DaysPerYear = (y - 1) * DaysPerYear + DaysPerYear
  BY PlanAssumption
<1>2. y = 1 => (y - 1) * DaysPerYear = 0
  BY <1>1
<1> QED
  BY <1>1, <1>2 DEF First, Last

LEMMA LaterYears ==
  ASSUME NEW y \in Int, NEW z \in Int, y <= z
  PROVE  Last(y) <= Last(z)
<1>1. z - y \in Nat /\ (z - y) * DaysPerYear \in Nat
  BY PlanAssumption
<1>2. z * DaysPerYear = y * DaysPerYear + (z - y) * DaysPerYear
  BY PlanAssumption
<1>3. y * DaysPerYear \in Int /\ z * DaysPerYear \in Int
  BY PlanAssumption
<1> QED
  BY <1>1, <1>2, <1>3 DEF Last

LEMMA YearOf ==
  ASSUME NEW d \in Nat, d > 0
  PROVE  Year(d) \in Int /\ Last(Year(d) - 1) < d /\ d <= Last(Year(d))
<1> DEFINE q == (d - 1) \div DaysPerYear
<1>1. d - 1 \in Nat /\ DaysPerYear \in Nat /\ DaysPerYear > 0
  BY PlanAssumption
<1>2. q \in Int /\ q * DaysPerYear <= d - 1 /\ d - 1 < q * DaysPerYear + DaysPerYear
  BY <1>1
<1>3. Year(d) = q + 1
  BY DEF Year
<1> HIDE DEF q
<1>4. /\ Year(d) \in Int /\ Last(Year(d) - 1) = q * DaysPerYear
      /\ Last(Year(d)) = Last(Year(d) - 1) + DaysPerYear
  BY <1>2, <1>3, YearEnds DEF Last
<1> QED
  BY <1>1, <1>2, <1>4

LEMMA YearIs ==
  ASSUME NEW d \in Nat, d > 0, NEW y \in Int, Last(y - 1) < d, d <= Last(y)
  PROVE  Year(d) = y
<1>1. /\ Year(d) \in Int /\ Last(Year(d) - 1) < d /\ d <= Last(Year(d))
      /\ Last(y) \in Int /\ Last(y - 1) \in Int /\ Last(Year(d)) \in Int
      /\ Last(Year(d) - 1) \in Int
  BY YearOf, YearEnds
<1>2. ~ Year(d) <= y - 1
  BY <1>1, LaterYears
<1>3. ~ y <= Year(d) - 1
  BY <1>1, LaterYears
<1> QED
  BY <1>1, <1>2, <1>3

LEMMA Numbers ==
  ASSUME NEW a \in Arms, NEW y \in Years
  PROVE  /\ y \in Int /\ y > 6 /\ y <= EndYear
         /\ a.horizon \in Nat /\ a.horizon > 0 /\ 2 * a.horizon <= DaysPerYear
         /\ DaysPerYear \in Nat /\ DaysPerYear > 0
  BY PlanAssumption DEF Years

\* The year to be predicted, as far as the plan's date.
LEMMA TestWindow ==
  ASSUME NEW y \in Years, NEW asOf \in AsOfDates, Year(asOf) >= EndYear
  PROVE  /\ BoundedYearEnd(y, asOf) \in Int
         /\ First(y) <= BoundedYearEnd(y, asOf)
         /\ BoundedYearEnd(y, asOf) <= Last(y)
<1>1. asOf \in Nat /\ asOf > 0 /\ y \in Int /\ y > 6 /\ DaysPerYear > 0 /\ DaysPerYear \in Int
  BY PlanAssumption DEF Years
<1>2. Year(asOf) \in Int /\ Last(Year(asOf) - 1) < asOf /\ asOf <= Last(Year(asOf))
  BY <1>1, YearOf
<1>3. /\ Last(y) \in Int /\ First(y) \in Int /\ First(y) = Last(y - 1) + 1
      /\ Last(y) = Last(y - 1) + DaysPerYear /\ Last(y - 1) \in Int
  BY <1>1, YearEnds
<1> QED
  BY <1>1, <1>2, <1>3 DEF BoundedYearEnd

\* The windows of a selection follow one another, with the horizon between them.
LEMMA Windows ==
  ASSUME NEW a \in Arms, NEW y \in Years
  PROVE  /\ First(y - 6) \in Int /\ LabelSafeEnd(y - 2, a.horizon) \in Int
         /\ First(y - 1) \in Int /\ LabelSafeEnd(y - 1, a.horizon) \in Int /\ First(y) \in Int
         /\ First(y - 6) <= LabelSafeEnd(y - 2, a.horizon)
         /\ LabelSafeEnd(y - 2, a.horizon) + a.horizon = Last(y - 2)
         /\ Last(y - 2) \in Int /\ Last(y - 1) \in Int /\ Last(y - 2) < First(y - 1)
         /\ First(y - 1) <= LabelSafeEnd(y - 1, a.horizon)
         /\ LabelSafeEnd(y - 1, a.horizon) + a.horizon = Last(y - 1)
         /\ Last(y - 1) < First(y)
<1> DEFINE u == y - 1
           v == y - 2
           t == y - 6
<1>1. /\ u \in Int /\ v \in Int /\ t \in Int /\ u # 1 /\ v # 1 /\ v = u - 1 /\ t <= v - 1
      /\ u = y - 1
  BY Numbers
<1>2. /\ y \in Int /\ a.horizon \in Nat /\ a.horizon > 0 /\ 2 * a.horizon <= DaysPerYear
      /\ DaysPerYear \in Nat
  BY Numbers
<1> HIDE DEF u, v, t
<1>3. /\ Last(u) \in Int /\ First(u) \in Int /\ First(u) = Last(u - 1) + 1
      /\ Last(u) = Last(u - 1) + DaysPerYear
  BY <1>1, YearEnds
<1>4. /\ Last(v) \in Int /\ First(v) \in Int /\ Last(v) = Last(v - 1) + DaysPerYear
      /\ Last(v - 1) \in Int
  BY <1>1, YearEnds
<1>5. /\ Last(t) \in Int /\ First(t) \in Int /\ Last(t) = Last(t - 1) + DaysPerYear
      /\ First(t) <= Last(t - 1) + 2 /\ Last(t - 1) \in Int
  BY <1>1, YearEnds
<1>6. Last(t) <= Last(v - 1)
  BY <1>1, LaterYears
<1>7. Last(u) < First(y) /\ First(y) \in Int
  BY <1>1, <1>2, YearEnds
<1>8. First(t) <= LabelSafeEnd(v, a.horizon)
  BY <1>2, <1>4, <1>5, <1>6 DEF LabelSafeEnd
<1>9. /\ LabelSafeEnd(v, a.horizon) + a.horizon = Last(v)
      /\ LabelSafeEnd(u, a.horizon) + a.horizon = Last(u)
      /\ First(u) <= LabelSafeEnd(u, a.horizon)
      /\ LabelSafeEnd(v, a.horizon) \in Int /\ LabelSafeEnd(u, a.horizon) \in Int
      /\ Last(v) < First(u)
  BY <1>1, <1>2, <1>3, <1>4 DEF LabelSafeEnd
<1> QED
  BY <1>3, <1>4, <1>5, <1>7, <1>8, <1>9 DEF u, v, t

-----------------------------------------------------------------------------
(* The folds of the cross-validation.                                      *)

LEMMA IntervalEnds ==
  ASSUME NEW lo \in Int, NEW hi \in Int, lo <= hi
  PROVE  Min(lo..hi) = lo /\ Max(lo..hi) = hi
<1>1. lo \in lo..hi /\ \A y \in lo..hi : lo <= y
  OBVIOUS
<1>2. hi \in lo..hi /\ \A y \in lo..hi : hi >= y
  OBVIOUS
<1>3. \A x \in lo..hi : (\A y \in lo..hi : x <= y) => x = lo
  BY <1>1
<1>4. \A x \in lo..hi : (\A y \in lo..hi : x >= y) => x = hi
  BY <1>2
<1> QED
  BY <1>1, <1>2, <1>3, <1>4 DEF Min, Max

\* Of days without a hole the embargo leaves out exactly the last h.
LEMMA EmbargoOfInterval ==
  ASSUME NEW dates, NEW start \in Int, NEW h \in Nat, NEW lo \in Int, NEW hi \in Int,
         {d \in dates : d < start} = lo..hi, hi - lo >= h
  PROVE  Embargo(dates, start, h) + h = hi /\ Embargo(dates, start, h) \in Int
<1> DEFINE prior == {d \in dates : d < start}
           skip == Max({0, Cardinality(prior) - h})
           index == IF skip > 0 THEN skip - 1 ELSE 0
<1>1. prior = lo..hi
  OBVIOUS
<1>2. Cardinality(lo..hi) = hi - lo + 1
  BY FS_Interval
<1> HIDE DEF prior
<1>3. skip = hi - lo + 1 - h
  <2> DEFINE n == hi - lo + 1 - h
  <2>1. n \in Int /\ n > 0 /\ Cardinality(prior) - h = n
    BY <1>1, <1>2
  <2> HIDE DEF n
  <2>2. \A x \in {0, n} : (\A y \in {0, n} : x >= y) => x = n
    BY <2>1
  <2>3. n \in {0, n} /\ \A y \in {0, n} : n >= y
    BY <2>1
  <2>4. Max({0, n}) = n
    BY <2>2, <2>3 DEF Max
  <2> QED
    BY <2>1, <2>4 DEF n
<1>4. index = hi - lo - h
  BY <1>3
<1> HIDE DEF skip, index
<1>5. ASSUME NEW d \in prior
      PROVE  Cardinality({e \in prior : e < d}) = d - lo
  <2>1. d \in Int /\ lo <= d /\ d <= hi
    BY <1>1
  <2>2. {e \in prior : e < d} = lo..(d - 1)
    BY <1>1, <2>1
  <2>3. Cardinality(lo..(d - 1)) = d - lo
    <3>1. d - 1 \in Int
      BY <2>1
    <3>2. Cardinality(lo..(d - 1)) = IF lo > d - 1 THEN 0 ELSE (d - 1) - lo + 1
      BY <3>1, FS_Interval
    <3> QED
      BY <2>1, <3>2
  <2> QED
    BY <2>2, <2>3
<1>6. \A d \in prior : d \in Int /\ (Cardinality({e \in prior : e < d}) = index <=> d = hi - h)
  BY <1>1, <1>4, <1>5
<1>7. hi - h \in prior
  BY <1>1
<1>8. Embargo(dates, start, h) = CHOOSE d \in prior : Cardinality({e \in prior : e < d}) = index
  BY DEF Embargo, prior, skip, index
<1>9. Embargo(dates, start, h) = hi - h
  BY <1>6, <1>7, <1>8
<1> QED
  BY <1>9

\* The first day of the year a fold is judged on follows an interval of days to train
\* on, which is longer than the horizon because there are two years before it.
LEMMA PriorDays ==
  ASSUME NEW a \in Arms, NEW y \in Years, NEW lo \in Nat, lo > 0, NEW z \in Int,
         NEW first \in CvDays(lo, y, a.horizon), Year(first) <= z - 2,
         NEW last \in CvDays(lo, y, a.horizon), Year(last) = z
  PROVE  /\ First(z) \in CvDays(lo, y, a.horizon) /\ Year(First(z)) = z
         /\ \A d \in CvDays(lo, y, a.horizon) : Year(d) = z => First(z) <= d
         /\ \E hi \in Int : /\ {d \in CvDays(lo, y, a.horizon) : d < First(z)} = lo..hi
                            /\ hi - lo >= a.horizon /\ hi < First(z)
<1> DEFINE h == a.horizon
           days == CvDays(lo, y, h)
           T == LabelSafeEnd(y - 2, h)
           V == LabelSafeEnd(y - 1, h)
<1>1. /\ y \in Int /\ h \in Nat /\ h > 0 /\ 2 * h <= DaysPerYear /\ DaysPerYear \in Nat
      /\ DataEnd \in Int
  BY Numbers, PlanAssumption
<1>2. /\ T \in Int /\ V \in Int /\ First(y - 1) \in Int /\ Last(y - 1) \in Int /\ Last(y - 2) \in Int
      /\ T + h = Last(y - 2) /\ V + h = Last(y - 1) /\ First(y - 1) <= V
      /\ Last(y - 2) < First(y - 1)
  BY Windows
<1> HIDE DEF T, V, h
<1>3. \A d : d \in days <=> /\ d \in lo..DataEnd
                            /\ \/ d <= T /\ d + h <= DataEnd
                               \/ d \in First(y - 1)..V
  BY DEF CvDays, Labelled, T, V, h
<1> HIDE DEF days
<1>4. \A d \in days : /\ d \in Nat /\ d > 0 /\ lo <= d /\ d <= DataEnd
                      /\ Year(d) \in Int /\ Last(Year(d) - 1) < d /\ d <= Last(Year(d))
  <2>1. \A d \in days : d \in Nat /\ d > 0 /\ lo <= d /\ d <= DataEnd
    BY <1>1, <1>3
  <2> QED
    BY <2>1, YearOf
<1>5. first \in days /\ last \in days
  BY DEF days, h
<1>6. z >= 3 /\ z <= y - 1 /\ lo <= Last(z - 2) /\ Last(z - 2) \in Int
  <2>1. /\ Year(first) \in Int /\ first <= Last(Year(first)) /\ Last(Year(first)) \in Int
        /\ Last(z - 2) \in Int /\ Last(z - 1) \in Int /\ Last(0) = 0
    BY <1>1, <1>4, <1>5, YearEnds DEF Last
  <2>2. Last(Year(first)) <= Last(z - 2)
    BY <2>1, LaterYears
  <2>3. ~ Year(first) <= 0
    BY <1>4, <1>5, <2>1, LaterYears
  <2>4. ~ y - 1 <= z - 1
    <3>1. Last(z - 1) < last /\ last <= Last(y - 1)
      <4>1. Last(z - 1) < last
        BY <1>4, <1>5
      <4>2. last \in Int /\ (last <= T \/ last <= V)
        BY <1>2, <1>3, <1>4, <1>5
      <4>3. last <= Last(y - 1)
        BY <1>1, <1>2, <4>2
      <4> QED
        BY <4>1, <4>3
    <3>2. y - 1 <= z - 1 => Last(y - 1) <= Last(z - 1)
      BY <1>1, LaterYears
    <3> QED
      BY <1>2, <1>4, <1>5, <2>1, <3>1, <3>2
  <2> QED
    BY <1>1, <1>4, <1>5, <2>1, <2>2, <2>3, <2>4
<1>7. /\ First(z) = Last(z - 1) + 1 /\ Last(z - 1) \in Int /\ First(z) \in Int
      /\ Last(z) = Last(z - 1) + DaysPerYear /\ Last(z) \in Int
  BY <1>6, YearEnds
<1>8. Last(z - 1) = Last(z - 2) + DaysPerYear
  <2>1. z - 1 \in Int /\ (z - 1) - 1 = z - 2
    OBVIOUS
  <2> QED
    BY <2>1, YearEnds
<1>9. lo < First(z) /\ First(z) <= last /\ last <= Last(z)
  BY <1>1, <1>4, <1>5, <1>6, <1>7, <1>8
<1>10. Year(First(z)) = z
  <2>1. First(z) \in Nat /\ First(z) > 0 /\ First(z) <= Last(z)
    BY <1>1, <1>6, <1>7, <1>9
  <2> QED
    BY <1>7, <2>1, YearIs
<1>11. \A d \in days : Year(d) = z => First(z) <= d
  BY <1>4, <1>7
<1>12. CASE z = y - 1
  <2>1. last <= DataEnd /\ last <= V
    BY <1>1, <1>2, <1>3, <1>4, <1>5, <1>9, <1>12
  <2>2. First(z) \in days
    BY <1>1, <1>2, <1>3, <1>4, <1>5, <1>9, <1>12, <2>1
  <2>3. {d \in days : d < First(z)} = lo..T
    <3>1. ASSUME NEW d \in days, d < First(z)
          PROVE  d \in lo..T
      BY <1>1, <1>2, <1>3, <1>12, <3>1
    <3>2. ASSUME NEW d \in lo..T
          PROVE  d \in days /\ d < First(z)
      <4>1. d \in Int /\ lo <= d /\ d <= T
        BY <1>2
      <4>2. d + h < First(z) /\ First(z) <= DataEnd
        <5>1. First(z) = First(y - 1)
          BY <1>12
        <5>2. d + h <= Last(y - 2) /\ d + h \in Int
          BY <1>1, <1>2, <4>1
        <5>3. First(z) <= DataEnd
          BY <1>1, <1>4, <1>5, <1>7, <1>9
        <5> QED
          BY <1>2, <1>7, <5>1, <5>2, <5>3
      <4>3. d + h <= DataEnd /\ d <= DataEnd /\ d < First(z)
        BY <1>1, <1>7, <4>1, <4>2
      <4> QED
        BY <1>1, <1>3, <4>1, <4>3
    <3> QED
      BY <3>1, <3>2
  <2>4. T - lo >= h /\ T < First(z)
    <3>1. Last(y - 2) = Last(z - 1)
      <4>1. y - 2 = z - 1
        BY <1>1, <1>12
      <4> QED
        BY <4>1
    <3> QED
      BY <1>1, <1>2, <1>6, <1>7, <1>8, <1>12, <3>1
  <2> QED
    BY <1>2, <1>10, <1>11, <2>2, <2>3, <2>4 DEF days, h
<1>13. CASE z <= y - 2
  <2>1. Last(z) <= Last(y - 2)
    BY <1>1, <1>13, LaterYears
  <2>2. last <= T /\ last + h <= DataEnd
    BY <1>1, <1>2, <1>3, <1>4, <1>5, <1>7, <1>9, <2>1
  <2>3. First(z) \in days
    BY <1>1, <1>2, <1>3, <1>4, <1>5, <1>7, <1>9, <2>2
  <2>4. {d \in days : d < First(z)} = lo..Last(z - 1)
    <3>1. ASSUME NEW d \in days, d < First(z)
          PROVE  d \in lo..Last(z - 1)
      BY <1>4, <1>7, <3>1
    <3>2. ASSUME NEW d \in lo..Last(z - 1)
          PROVE  d \in days /\ d < First(z)
      <4>1. d \in Int /\ lo <= d /\ d < First(z) /\ d <= last
        BY <1>4, <1>5, <1>7, <1>9
      <4>2. d <= T /\ d + h <= DataEnd /\ d <= DataEnd
        BY <1>1, <1>2, <1>4, <1>5, <2>2, <4>1
      <4> QED
        BY <1>1, <1>3, <4>1, <4>2
    <3> QED
      BY <3>1, <3>2
  <2>5. Last(z - 1) - lo >= h /\ Last(z - 1) < First(z)
    BY <1>1, <1>6, <1>7, <1>8
  <2> QED
    BY <1>7, <1>10, <1>11, <2>3, <2>4, <2>5 DEF days, h
<1> QED
  BY <1>1, <1>6, <1>12, <1>13

\* No fold trains on labels of the days it is judged on.
LEMMA FoldsAreApart ==
  ASSUME NEW a \in Arms, NEW y \in Years, NEW lo \in Nat, lo > 0, NEW mx,
         mx.horizon = a.horizon, Days(mx.cv) = CvDays(lo, y, a.horizon)
  PROVE  /\ Folds(mx) \in FoldSets
         /\ FoldsApart(Folds(mx), a.horizon)
         /\ \A f \in Folds(mx) : KnownBy(f.eval, a.horizon, Last(y - 1))
<1> DEFINE h == a.horizon
           days == Days(mx.cv)
<1>1. days \subseteq Int /\ \A d \in days : d \in Nat /\ d > 0 /\ Year(d) \in Int
  <2>1. \A d \in days : d \in Nat /\ d > 0
    BY DEF CvDays
  <2> QED
    BY <2>1, YearOf
<1>2. /\ h \in Nat /\ Last(y - 1) \in Int /\ LabelSafeEnd(y - 1, h) \in Int
      /\ LabelSafeEnd(y - 2, h) \in Int /\ First(y - 1) \in Int
      /\ LabelSafeEnd(y - 1, h) + h = Last(y - 1) /\ First(y - 1) <= LabelSafeEnd(y - 1, h)
      /\ LabelSafeEnd(y - 2, h) + h < First(y - 1)
  BY Numbers, Windows
<1>3. KnownBy(days, h, Last(y - 1))
  <2>1. ASSUME NEW d \in days
        PROVE  d + h <= Last(y - 1)
    <3>1. d \in Int /\ (d <= LabelSafeEnd(y - 2, h) \/ d <= LabelSafeEnd(y - 1, h))
      BY <1>1, <1>2 DEF CvDays
    <3> QED
      BY <1>2, <3>1
  <2> QED
    BY <2>1 DEF KnownBy
<1> HIDE DEF h
<1>4. ASSUME NEW f \in Folds(mx)
      PROVE  /\ f \in [fit : DaySets, eval : DaySets]
             /\ f.eval \subseteq days
             /\ \A d \in f.fit, e \in f.eval : d + h < e
  <2>1. PICK z \in EvalYears(mx.cv) :
          f = [fit |-> {d \in days : /\ Labelled(d, mx.horizon) /\ Year(d) < z
                                     /\ d <= Embargo(days, Min({e \in days : Year(e) = z}), mx.horizon)},
               eval |-> {d \in days : Year(d) = z}]
    BY DEF Folds
  <2>2. /\ f.eval = {d \in days : Year(d) = z}
        /\ f.fit \subseteq {d \in days : d <= Embargo(days, Min(f.eval), h)}
        /\ f \in [fit : DaySets, eval : DaySets]
    BY <1>1, <2>1 DEF h, DaySets
  <2>3. /\ z \in {Year(d) : d \in days}
        /\ Cardinality({u \in {Year(d) : d \in days} : u < z}) >= 2
    BY <2>1 DEF EvalYears
  <2>4. PICK last \in days : Year(last) = z
    BY <2>3
  <2>5. z \in Int
    BY <1>1, <2>4
  <2>6. PICK first \in days : Year(first) <= z - 2
    <3>1. SUFFICES ASSUME \A d \in days : ~ Year(d) <= z - 2
                   PROVE  FALSE
      OBVIOUS
    <3> DEFINE older == {u \in {Year(d) : d \in days} : u < z}
    <3>2. older \in SUBSET {z - 1}
      <4>1. ASSUME NEW u \in older
            PROVE  u = z - 1
        BY <1>1, <2>5, <3>1
      <4> QED
        BY <4>1
    <3>3. IsFiniteSet({z - 1}) /\ Cardinality({z - 1}) = 1
      BY FS_Singleton
    <3> HIDE DEF older
    <3>4. Cardinality(older) <= 1 /\ Cardinality(older) \in Int
      <4>1. IsFiniteSet(older) /\ Cardinality(older) <= Cardinality({z - 1})
        BY <3>2, <3>3, FS_Subset
      <4>2. Cardinality(older) \in Nat
        BY <4>1, FS_CardinalityType
      <4> QED
        BY <3>3, <4>1, <4>2
    <3> QED
      BY <2>3, <3>4 DEF older
  <2>7. PICK hi \in Int :
          /\ First(z) \in days /\ Year(First(z)) = z
          /\ \A d \in days : Year(d) = z => First(z) <= d
          /\ {d \in days : d < First(z)} = lo..hi
          /\ hi - lo >= h /\ hi < First(z)
    BY <2>4, <2>5, <2>6, PriorDays DEF h
  <2>8. Min(f.eval) = First(z)
    <3>1. First(z) \in f.eval /\ \A d \in f.eval : First(z) <= d
      BY <2>2, <2>7
    <3>2. \A x \in f.eval : (\A d \in f.eval : x <= d) => x = First(z)
      BY <1>1, <2>2, <3>1
    <3> QED
      BY <3>1, <3>2 DEF Min
  <2>9. Embargo(days, First(z), h) + h = hi /\ Embargo(days, First(z), h) \in Int
    <3>1. First(z) \in Int
      BY <1>1, <2>7
    <3> QED
      BY <1>2, <2>7, <3>1, EmbargoOfInterval
  <2>10. ASSUME NEW d \in f.fit, NEW e \in f.eval
         PROVE  d + h < e
    <3>1. d \in Int /\ e \in Int /\ First(z) \in Int /\ First(z) <= e
      BY <1>1, <2>2, <2>7
    <3>2. d <= Embargo(days, First(z), h)
      BY <2>2, <2>8
    <3> QED
      BY <1>2, <2>7, <2>9, <3>1, <3>2
  <2> QED
    BY <2>2, <2>10
<1>5. Folds(mx) \in FoldSets
  BY <1>4 DEF FoldSets
<1>6. FoldsApart(Folds(mx), h)
  BY <1>4 DEF FoldsApart
<1>7. \A f \in Folds(mx) : KnownBy(f.eval, h, Last(y - 1))
  BY <1>3, <1>4 DEF KnownBy
<1> QED
  BY <1>5, <1>6, <1>7 DEF h

-----------------------------------------------------------------------------
(* What a matrix is made of.                                               *)

LEMMA SelectionEnds ==
  ASSUME NEW a \in Arms, NEW y \in Years, NEW asOf \in AsOfDates, Year(asOf) >= EndYear
  PROVE  LET exp == Selection(a, y, asOf)
         IN /\ exp \in Experiments
            /\ exp.train = First(y - 6)..LabelSafeEnd(y - 2, a.horizon)
            /\ exp.valid = First(y - 1)..LabelSafeEnd(y - 1, a.horizon)
            /\ exp.test = First(y)..BoundedYearEnd(y, asOf)
            /\ exp.horizon = a.horizon
            /\ Min(exp.train) = First(y - 6)
            /\ Min(exp.valid) = First(y - 1)
            /\ Max(exp.test \cup exp.valid) = BoundedYearEnd(y, asOf)
<1> DEFINE exp == Selection(a, y, asOf)
           B == BoundedYearEnd(y, asOf)
           V == LabelSafeEnd(y - 1, a.horizon)
<1>1. /\ exp.train = First(y - 6)..LabelSafeEnd(y - 2, a.horizon)
      /\ exp.valid = First(y - 1)..V /\ exp.test = First(y)..B /\ exp.horizon = a.horizon
      /\ exp = [train |-> exp.train, valid |-> exp.valid, test |-> exp.test,
                horizon |-> exp.horizon]
  BY DEF Selection
<1>2. /\ B \in Int /\ First(y) <= B /\ First(y) \in Int /\ First(y - 1) \in Int /\ V \in Int
      /\ V < First(y) /\ First(y - 1) <= V /\ a.horizon \in Nat
      /\ First(y - 6) \in Int /\ LabelSafeEnd(y - 2, a.horizon) \in Int
      /\ First(y - 6) <= LabelSafeEnd(y - 2, a.horizon)
  BY TestWindow, Windows, Numbers
<1> HIDE DEF exp, B, V
<1>3. exp \in Experiments
  BY <1>1, <1>2 DEF Experiments, DaySets
<1>4. Min(exp.train) = First(y - 6) /\ Min(exp.valid) = First(y - 1)
  BY <1>1, <1>2, IntervalEnds
<1>5. Max(exp.test \cup exp.valid) = B
  <2>1. B \in exp.test \cup exp.valid /\ \A x \in exp.test \cup exp.valid : B >= x /\ x \in Int
    BY <1>1, <1>2
  <2>2. \A x \in exp.test \cup exp.valid :
          (\A z \in exp.test \cup exp.valid : x >= z) => x = B
    BY <1>2, <2>1
  <2> QED
    BY <2>1, <2>2 DEF Max
<1> QED
  BY <1>1, <1>3, <1>4, <1>5 DEF exp, B, V

LEMMA SelectionSplits ==
  ASSUME NEW a \in Arms, NEW y \in Years, NEW asOf \in AsOfDates, Year(asOf) >= EndYear,
         history \in {Floor, First(1)}
  PROVE  LET mx == Splits(Selection(a, y, asOf))
         IN /\ mx \in Matrices /\ mx.horizon = a.horizon
            /\ KnownBy(Days(mx.train), a.horizon, Last(y - 2))
            /\ KnownBy(Days(mx.valid), a.horizon, Last(y - 1))
            /\ \A d \in Days(mx.predict) : d >= First(y - 1)
            /\ \E lo \in {Floor, First(1), First(y - 6)} : Days(mx.cv) = CvDays(lo, y, a.horizon)
<1> DEFINE exp == Selection(a, y, asOf)
           mx == Splits(exp)
           h == a.horizon
           T == LabelSafeEnd(y - 2, h)
           V == LabelSafeEnd(y - 1, h)
           B == BoundedYearEnd(y, asOf)
<1>1. /\ exp.train = First(y - 6)..T /\ exp.valid = First(y - 1)..V /\ exp.test = First(y)..B
      /\ exp.horizon = h /\ Min(exp.train) = First(y - 6) /\ Min(exp.valid) = First(y - 1)
      /\ Max(exp.test \cup exp.valid) = B
  BY SelectionEnds
<1>2. /\ B \in Int /\ First(y) <= B /\ First(y) \in Int /\ First(y - 1) \in Int /\ V \in Int
      /\ V < First(y) /\ First(y - 1) <= V /\ h \in Nat
      /\ First(y - 6) \in Int /\ T \in Int /\ First(y - 6) <= T /\ T < First(y - 1)
      /\ T + h = Last(y - 2) /\ V + h = Last(y - 1)
      /\ Last(y - 2) \in Int /\ Last(y - 1) \in Int
  BY TestWindow, Windows, Numbers
<1>3. history \in Int /\ DataEnd \in Int /\ First(1) \in Int
  BY PlanAssumption DEF First
<1>4. /\ mx = [train |-> mx.train, valid |-> mx.valid, cv |-> mx.cv, predict |-> mx.predict,
               horizon |-> mx.horizon]
      /\ mx.train = {r \in Of(exp, {"train"}) : Labelled(r[1], h)}
      /\ mx.valid = Of(exp, {"valid"}) /\ mx.cv = Of(exp, {"train", "valid"})
      /\ mx.predict = Of(exp, {"valid", "test"}) /\ mx.horizon = h
  BY <1>1 DEF Splits
<1> HIDE DEF exp, mx, h, T, V, B
<1>5. \A d \in Int : /\ Tag(exp, d) = "train" <=> d \in First(y - 6)..T
                     /\ Tag(exp, d) = "valid" => d \in First(y - 1)..V
                     /\ d \in First(y - 1)..V => Tag(exp, d) = "valid"
                     /\ Tag(exp, d) = "test" => d \in First(y)..B
  BY <1>1, <1>2 DEF Tag
<1>6. Rows(exp) = {r \in (First(y - 6)..B) \X BOOLEAN :
                     /\ r[1] \in history..DataEnd
                     /\ \/ r[1] \in First(y - 6)..T /\ r[2] /\ Labelled(r[1], h)
                        \/ r[1] >= First(y - 1)}
  BY <1>1 DEF Rows
<1>7. \A tags : /\ Of(exp, tags) \subseteq Rows(exp) /\ Of(exp, tags) \in RowSets
                /\ \A r \in Of(exp, tags) : r[1] \in Int /\ Tag(exp, r[1]) \in tags
  BY <1>6 DEF Of, RowSets
<1>8. mx \in Matrices
  <2>1. mx.train \in RowSets
    BY <1>4, <1>7 DEF RowSets
  <2> QED
    BY <1>2, <1>4, <1>7, <2>1 DEF Matrices
<1>9. KnownBy(Days(mx.train), h, Last(y - 2))
  <2>1. ASSUME NEW d \in Days(mx.train)
        PROVE  d + h <= Last(y - 2)
    <3>1. d \in Int /\ d \in First(y - 6)..T
      BY <1>4, <1>5, <1>7 DEF Days
    <3> QED
      BY <1>2, <3>1
  <2> QED
    BY <2>1 DEF KnownBy
<1>10. KnownBy(Days(mx.valid), h, Last(y - 1))
  <2>1. ASSUME NEW d \in Days(mx.valid)
        PROVE  d + h <= Last(y - 1)
    <3>1. d \in Int /\ d \in First(y - 1)..V
      BY <1>4, <1>5, <1>7 DEF Days
    <3> QED
      BY <1>2, <3>1
  <2> QED
    BY <2>1 DEF KnownBy
<1>11. ASSUME NEW d \in Days(mx.predict)
       PROVE  d >= First(y - 1)
  <2>1. d \in Int /\ (d \in First(y - 1)..V \/ d \in First(y)..B)
    BY <1>4, <1>5, <1>7, <1>11 DEF Days
  <2> QED
    BY <1>2, <2>1
<1>12. \E lo \in {Floor, First(1), First(y - 6)} : Days(mx.cv) = CvDays(lo, y, h)
  <2> DEFINE lo == IF history > First(y - 6) THEN history ELSE First(y - 6)
  <2>1. lo \in Int /\ lo \in {Floor, First(1), First(y - 6)}
    BY <1>2, <1>3
  <2>2. \A d \in Int : lo <= d <=> history <= d /\ First(y - 6) <= d
    BY <1>2, <1>3
  <2> HIDE DEF lo
  <2>3. \A d : d \in CvDays(lo, y, h) <=>
                 /\ d \in lo..DataEnd
                 /\ (d <= T /\ Labelled(d, h)) \/ d \in First(y - 1)..V
    BY DEF CvDays, T, V
  <2>4. ASSUME NEW d \in Days(mx.cv)
        PROVE  d \in CvDays(lo, y, h)
    <3>1. PICK r \in Of(exp, {"train", "valid"}) : d = r[1]
      BY <1>4, <2>4 DEF Days
    <3>2. /\ d \in Int /\ d \in history..DataEnd /\ d \in First(y - 6)..B
          /\ \/ d \in First(y - 6)..T /\ Labelled(d, h)
             \/ d >= First(y - 1)
          /\ d \in First(y - 6)..T \/ d \in First(y - 1)..V
      BY <1>5, <1>6, <1>7, <3>1
    <3>3. d \in lo..DataEnd
      BY <1>3, <2>1, <2>2, <3>2
    <3>4. (d <= T /\ Labelled(d, h)) \/ d \in First(y - 1)..V
      BY <1>2, <3>2
    <3> QED
      BY <2>3, <3>3, <3>4
  <2>5. ASSUME NEW d \in CvDays(lo, y, h)
        PROVE  d \in Days(mx.cv)
    <3>1. /\ d \in Int /\ lo <= d /\ d <= DataEnd
          /\ (d <= T /\ Labelled(d, h)) \/ d \in First(y - 1)..V
      BY <1>3, <2>1, <2>3, <2>5
    <3>2. history <= d /\ First(y - 6) <= d
      BY <2>2, <3>1
    <3>3. d \in First(y - 6)..B /\ d \in history..DataEnd
      BY <1>2, <1>3, <3>1, <3>2
    <3>4. /\ (d \in First(y - 6)..T /\ Labelled(d, h)) \/ d \in First(y - 1)..V
          /\ d \in First(y - 1)..V => d >= First(y - 1)
      BY <1>2, <3>1, <3>2
    <3>5. <<d, TRUE>> \in Rows(exp)
      BY <1>6, <3>3, <3>4
    <3>6. Tag(exp, d) \in {"train", "valid"}
      BY <1>5, <3>1, <3>4
    <3>7. <<d, TRUE>> \in mx.cv
      BY <1>4, <3>5, <3>6 DEF Of
    <3> QED
      BY <3>7 DEF Days
  <2> QED
    BY <2>1, <2>4, <2>5
<1> QED
  BY <1>4, <1>8, <1>9, <1>10, <1>11, <1>12 DEF exp, mx, h

\* A refit's panel has no valid split, so no matrix is made of it.
LEMMA RefitHasNoSplits ==
  ASSUME NEW a, NEW y, NEW asOf
  PROVE  Splits(Refit(a, y, asOf)).valid = {}
<1>1. Refit(a, y, asOf).train = Refit(a, y, asOf).valid
  BY DEF Refit, Selection
<1>2. \A d : Tag(Refit(a, y, asOf), d) # "valid"
  BY <1>1 DEF Tag
<1> QED
  BY <1>2 DEF Splits, Of

-----------------------------------------------------------------------------
(* Commands and run ids.                                                   *)

LEMMA CommandPlaces ==
  ASSUME NEW a \in Arms
  PROVE  /\ Before(a) \in Nat
         /\ Len(Commands(a)) = Before(a) + 2 + (IF a.yearly THEN 1 ELSE 0)
         /\ \A n \in 1..Len(Commands(a)) :
              /\ Commands(a)[n] = "refit_panel" <=> n = Before(a) + 1
              /\ Commands(a)[n] = "refit" <=> n = Before(a) + 2
              /\ Commands(a)[n] \in {"panel", "matrix", "fanout", "select"} => n <= Before(a)
              /\ Commands(a)[n] = "backtest" => n > Before(a) + 2
<1> DEFINE steps == {"panel", "matrix", "fanout", "select", "refit_panel", "refit", "backtest"}
           head == IF a.refitOnly THEN <<>> ELSE <<"panel", "matrix", "fanout", "select">>
           refit == <<"refit_panel", "refit">>
           tail == IF a.yearly THEN <<"backtest">> ELSE <<>>
<1>1. Commands(a) = (head \o refit) \o tail
  BY DEF Commands
<1>2. /\ head \in Seq(steps) /\ Len(head) = Before(a)
      /\ \A i \in 1..Len(head) : head[i] \in {"panel", "matrix", "fanout", "select"}
  <2>1. CASE a.refitOnly
    BY <2>1 DEF Before
  <2>2. CASE ~a.refitOnly
    <3>1. head = <<"panel", "matrix", "fanout", "select">>
      BY <2>2
    <3>2. Len(head) = 4 /\ head \in Seq(steps)
      <4>1. {"panel", "matrix", "fanout", "select"} \subseteq steps
        OBVIOUS
      <4> HIDE DEF steps
      <4> QED
        BY <3>1, <4>1
    <3>3. \A i \in 1..4 : head[i] \in {"panel", "matrix", "fanout", "select"}
      BY <3>1
    <3> QED
      BY <2>2, <3>2, <3>3 DEF Before
  <2> QED
    BY <2>1, <2>2
<1>3. /\ refit \in Seq(steps) /\ Len(refit) = 2 /\ refit[1] = "refit_panel" /\ refit[2] = "refit"
  OBVIOUS
<1>4. /\ tail \in Seq(steps) /\ Len(tail) = IF a.yearly THEN 1 ELSE 0
      /\ \A i \in 1..Len(tail) : tail[i] = "backtest"
  <2>1. CASE a.yearly
    <3>1. tail = <<"backtest">>
      BY <2>1
    <3> QED
      BY <2>1, <3>1
  <2>2. CASE ~a.yearly
    BY <2>2
  <2> QED
    BY <2>1, <2>2
<1>5. Before(a) \in Nat
  BY DEF Before
<1> HIDE DEF steps, head, refit, tail
<1>6. /\ head \o refit \in Seq(steps)
      /\ Len(head \o refit) = Before(a) + 2
      /\ \A i \in 1..Before(a) + 2 :
           (head \o refit)[i] = IF i <= Before(a) THEN head[i] ELSE refit[i - Before(a)]
  <2>1. head \in Seq(steps) /\ refit \in Seq(steps) /\ Len(head) = Before(a) /\ Len(refit) = 2
    BY <1>2, <1>3
  <2>2. /\ head \o refit \in Seq(steps)
        /\ Len(head \o refit) = Len(head) + Len(refit)
        /\ \A i \in 1..Len(head) + Len(refit) :
             (head \o refit)[i] = IF i <= Len(head) THEN head[i] ELSE refit[i - Len(head)]
    BY <2>1, ConcatProperties
  <2> QED
    BY <2>1, <2>2
<1>7. /\ Len(Commands(a)) = Before(a) + 2 + Len(tail)
      /\ \A i \in 1..Before(a) + 2 + Len(tail) :
           Commands(a)[i] = IF i <= Before(a) + 2 THEN (head \o refit)[i]
                            ELSE tail[i - (Before(a) + 2)]
  <2> DEFINE front == head \o refit
  <2>1. /\ front \in Seq(steps) /\ tail \in Seq(steps) /\ Len(front) = Before(a) + 2
        /\ Commands(a) = front \o tail
    BY <1>1, <1>4, <1>6
  <2> HIDE DEF front
  <2>2. /\ Len(front \o tail) = Len(front) + Len(tail)
        /\ \A i \in 1..Len(front) + Len(tail) :
             (front \o tail)[i] = IF i <= Len(front) THEN front[i] ELSE tail[i - Len(front)]
    BY <2>1, ConcatProperties
  <2>3. /\ Len(Commands(a)) = Before(a) + 2 + Len(tail)
        /\ \A i \in 1..Before(a) + 2 + Len(tail) :
             Commands(a)[i] = IF i <= Before(a) + 2 THEN front[i] ELSE tail[i - (Before(a) + 2)]
    BY <2>1, <2>2
  <2> QED
    BY <2>3 DEF front
<1>8. ASSUME NEW n \in 1..Len(Commands(a))
      PROVE  /\ n <= Before(a) => Commands(a)[n] \in {"panel", "matrix", "fanout", "select"}
             /\ n = Before(a) + 1 => Commands(a)[n] = "refit_panel"
             /\ n = Before(a) + 2 => Commands(a)[n] = "refit"
             /\ n > Before(a) + 2 => Commands(a)[n] = "backtest"
  <2>1. n \in Int /\ 1 <= n /\ n <= Before(a) + 2 + Len(tail) /\ Len(tail) \in Nat
    BY <1>4, <1>5, <1>7
  <2>2. CASE n <= Before(a)
    <3>1. Commands(a)[n] = head[n] /\ n \in 1..Len(head)
      BY <1>2, <1>5, <1>6, <1>7, <2>1, <2>2
    <3> QED
      BY <1>2, <1>5, <2>1, <2>2, <3>1
  <2>3. CASE n > Before(a) /\ n <= Before(a) + 2
    <3>0. n \in 1..Before(a) + 2 /\ n \in 1..Before(a) + 2 + Len(tail)
      BY <1>5, <2>1, <2>3
    <3>1. Commands(a)[n] = (head \o refit)[n] /\ n \in 1..Before(a) + 2
      BY <1>7, <2>3, <3>0
    <3>2. Commands(a)[n] = refit[n - Before(a)]
      BY <1>5, <1>6, <2>1, <2>3, <3>1
    <3> QED
      BY <1>3, <1>5, <2>1, <2>3, <3>2
  <2>4. CASE n > Before(a) + 2
    <3>1. Commands(a)[n] = tail[n - (Before(a) + 2)] /\ n - (Before(a) + 2) \in 1..Len(tail)
      BY <1>5, <1>7, <2>1, <2>4
    <3> QED
      BY <1>4, <1>5, <2>1, <2>4, <3>1
  <2> QED
    BY <1>5, <2>1, <2>2, <2>3, <2>4
<1>9. \A n \in 1..Len(Commands(a)) : n \in Int
  OBVIOUS
<1> QED
  BY <1>4, <1>5, <1>7, <1>8, <1>9

\* The id of a selection is never that of a refit, and that of a refit is shared by
\* rivals only.
LEMMA RunsApart ==
  ASSUME NEW a \in Arms, NEW y \in Years
  PROVE  /\ RunId(a, y) \in RunIds /\ RunId(a, y)[3] = "none"
         /\ RunId(a, y)[1] = y /\ RunId(a, y)[2] = a.horizon
         /\ RefitRunId(a, y) \in RunIds /\ RefitRunId(a, y)[3] # "none"
         /\ RefitRunId(a, y)[1] = y /\ RefitRunId(a, y)[2] = a.horizon
         /\ \A b \in Arms, z \in Years :
              /\ RunId(b, z) # RefitRunId(a, y)
              /\ RefitRunId(b, z) = RefitRunId(a, y) =>
                   z = y /\ b.horizon = a.horizon /\ (b = a \/ b \in Rivals(a))
<1>1. a.suffix # "none"
  BY PlanAssumption
<1>2. /\ RunId(a, y) \in RunIds /\ RefitRunId(a, y) \in RunIds
  BY DEF RunIds
<1>3. /\ RunId(a, y)[3] = "none" /\ RunId(a, y)[1] = y /\ RunId(a, y)[2] = a.horizon
      /\ RefitRunId(a, y)[3] = a.suffix /\ RefitRunId(a, y)[1] = y
      /\ RefitRunId(a, y)[2] = a.horizon
  BY DEF RunId, RefitRunId
<1>4. ASSUME NEW b \in Arms, NEW z \in Years
      PROVE  /\ RunId(b, z) # RefitRunId(a, y)
             /\ RefitRunId(b, z) = RefitRunId(a, y) =>
                  z = y /\ b.horizon = a.horizon /\ (b = a \/ b \in Rivals(a))
  <2>1. RunId(b, z)[3] = "none" /\ RefitRunId(b, z) = <<z, b.horizon, b.suffix>>
    BY DEF RunId, RefitRunId
  <2> QED
    BY <1>1, <1>3, <2>1 DEF Rivals
<1> QED
  BY <1>1, <1>2, <1>3, <1>4

\* The window of a refit.
LEMMA RefitWindow ==
  ASSUME NEW a \in Arms, NEW y \in Years, NEW asOf \in AsOfDates, Year(asOf) >= EndYear
  PROVE  LET exp == Refit(a, y, asOf)
         IN /\ exp \in Experiments
            /\ exp.train = RefitStart(a, y)..LabelSafeEnd(y - 1, a.horizon)
            /\ exp.test = First(y)..BoundedYearEnd(y, asOf)
            /\ exp.horizon = a.horizon
            /\ KnownBy(exp.train, a.horizon, Last(y - 1))
            /\ RefitStart(a, y) \in Int
<1>1. First(y - 5) \in Int /\ Floor \in Int
  <2>1. y - 5 \in Int
    BY Numbers
  <2> QED
    BY <2>1, YearEnds, PlanAssumption
<1>2. RefitStart(a, y) \in Int
  <2>1. \E n \in {First(y - 5), Floor} : \A m \in {First(y - 5), Floor} : n >= m
    BY <1>1
  <2>2. Max({First(y - 5), Floor}) \in {First(y - 5), Floor}
    BY <2>1 DEF Max
  <2> QED
    BY <1>1, <2>2 DEF RefitStart
<1> DEFINE window == RefitStart(a, y)..LabelSafeEnd(y - 1, a.horizon)
           test == First(y)..BoundedYearEnd(y, asOf)
<1>3. Refit(a, y, asOf) = [train |-> window, valid |-> window, test |-> test,
                           horizon |-> a.horizon]
  <2> DEFINE sel == Selection(a, y, asOf)
  <2>1. Refit(a, y, asOf) = [sel EXCEPT !.train = window, !.valid = window]
    BY DEF Refit
  <2>2. sel = [train |-> First(y - 6)..LabelSafeEnd(y - 2, a.horizon),
               valid |-> First(y - 1)..LabelSafeEnd(y - 1, a.horizon),
               test |-> test, horizon |-> a.horizon]
    BY Zenon DEF Selection
  <2> HIDE DEF sel, window, test
  <2> QED
    BY <2>1, <2>2
<1>4. /\ LabelSafeEnd(y - 1, a.horizon) \in Int /\ First(y) \in Int /\ a.horizon \in Nat
      /\ BoundedYearEnd(y, asOf) \in Int /\ Last(y - 1) \in Int
      /\ LabelSafeEnd(y - 1, a.horizon) + a.horizon = Last(y - 1)
  BY Windows, TestWindow, Numbers
<1>5. window \in DaySets /\ test \in DaySets
  BY <1>2, <1>4 DEF DaySets
<1>6. KnownBy(window, a.horizon, Last(y - 1))
  <2>1. ASSUME NEW d \in window
        PROVE  d + a.horizon <= Last(y - 1)
    <3>1. d \in Int /\ d <= LabelSafeEnd(y - 1, a.horizon)
      BY <1>2, <1>4
    <3> QED
      BY <1>4, <3>1
  <2> QED
    BY <2>1 DEF KnownBy
<1> HIDE DEF window, test
<1>7. Refit(a, y, asOf) \in Experiments
  BY <1>3, <1>4, <1>5 DEF Experiments
<1> QED
  BY <1>2, <1>3, <1>6, <1>7 DEF window, test

-----------------------------------------------------------------------------
(* Steps.                                                                  *)

LEMMA Writers ==
  ASSUME [Next]_vars
  PROVE  /\ plan' = plan \/ \E a \in Arms, d \in AsOfDates : Emit(a, d)
         /\ history' = history \/ history' = First(1)
         /\ panel' = panel \/ \E a \in Arms, y \in Years : BuildPanel(a, y) \/ BuildRefitPanel(a, y)
         /\ matrix' = matrix \/ \E a \in Arms, y \in Years : PrepareMatrix(a, y)
         /\ results' = results \/ \E a \in Arms, y \in Years : TrainCandidates(a, y)
         /\ \/ registry' = registry /\ predicted' = predicted
            \/ \E a \in Arms, y \in Years : Select(a, y) \/ RefitRegisterPredict(a, y)
         /\ \/ UNCHANGED vars
            \/ \E a \in Arms, d \in AsOfDates : Emit(a, d)
            \/ \E a \in Arms, y \in Years : RunAgain(a, y)
            \/ \E a \in Arms, y \in Years : \E c : Command(a, y, c)
            \/ Backfill
<1> USE DEF vars, tables
<1>1. CASE UNCHANGED vars
  BY <1>1
<1>2. ASSUME NEW a \in Arms, NEW d \in AsOfDates, Emit(a, d)
      PROVE  UNCHANGED tables
  BY <1>2 DEF Emit
<1>3. ASSUME NEW a \in Arms, NEW y \in Years, BuildPanel(a, y)
      PROVE  Command(a, y, "panel") /\ UNCHANGED <<plan, history, matrix, results, registry, predicted>>
  BY <1>3 DEF BuildPanel, Command
<1>4. ASSUME NEW a \in Arms, NEW y \in Years, BuildRefitPanel(a, y)
      PROVE  Command(a, y, "refit_panel") /\ UNCHANGED <<plan, history, matrix, results, registry, predicted>>
  BY <1>4 DEF BuildRefitPanel, Command
<1>5. ASSUME NEW a \in Arms, NEW y \in Years, PrepareMatrix(a, y)
      PROVE  Command(a, y, "matrix") /\ UNCHANGED <<plan, history, panel, results, registry, predicted>>
  BY <1>5 DEF PrepareMatrix, Command
<1>6. ASSUME NEW a \in Arms, NEW y \in Years, TrainCandidates(a, y)
      PROVE  Command(a, y, "fanout") /\ UNCHANGED <<plan, history, panel, matrix, registry, predicted>>
  BY <1>6 DEF TrainCandidates, Command
<1>7. ASSUME NEW a \in Arms, NEW y \in Years, Select(a, y)
      PROVE  Command(a, y, "select") /\ UNCHANGED <<plan, history, panel, matrix, results>>
  BY <1>7 DEF Select, Command
<1>8. ASSUME NEW a \in Arms, NEW y \in Years, RefitRegisterPredict(a, y)
      PROVE  Command(a, y, "refit") /\ UNCHANGED <<plan, history, panel, matrix, results>>
  BY <1>8 DEF RefitRegisterPredict, Command
<1>9. ASSUME NEW a \in Arms, NEW y \in Years, Backtest(a, y)
      PROVE  Command(a, y, "backtest") /\ UNCHANGED <<plan, tables>>
  BY <1>9 DEF Backtest, Command
<1>10. ASSUME NEW a \in Arms, NEW y \in Years, RunAgain(a, y)
       PROVE  UNCHANGED <<plan, tables>>
  BY <1>10 DEF RunAgain
<1>11. CASE Backfill
  BY <1>11 DEF Backfill
<1>12. CASE Next
  BY <1>2, <1>3, <1>4, <1>5, <1>6, <1>7, <1>8, <1>9, <1>10, <1>11, <1>12 DEF Next
<1> QED
  BY <1>1, <1>12

LEMMA CommandRuns ==
  ASSUME TypeOK, NEW a \in Arms, NEW y \in Years, NEW c, Command(a, y, c)
  PROVE  /\ plan[a] \in AsOfDates /\ plan[a] # 0 /\ plan' = plan
         /\ pc[a][y] \in Nat
         /\ pc[a][y] + 1 \in 1..Len(Commands(a)) /\ Commands(a)[pc[a][y] + 1] = c
         /\ pc' \in [Arms -> [Years -> Nat]]
         /\ pc'[a][y] = pc[a][y] + 1
         /\ \A b \in Arms, z \in Years : b # a \/ z # y => pc'[b][z] = pc[b][z]
<1>1. /\ plan \in [Arms -> AsOfDates \cup {0}] /\ pc \in [Arms -> [Years -> Nat]]
  BY DEF TypeOK
<1>2. /\ plan[a] # 0 /\ pc[a][y] < Len(Commands(a)) /\ Commands(a)[pc[a][y] + 1] = c
      /\ pc' = [pc EXCEPT ![a][y] = @ + 1] /\ plan' = plan
  BY DEF Command
<1>3. pc[a][y] \in Nat /\ Len(Commands(a)) \in Int
  BY <1>1, CommandPlaces
<1>4. pc[a][y] + 1 \in 1..Len(Commands(a)) /\ pc[a][y] + 1 \in Nat
  BY <1>2, <1>3
<1>5. pc' \in [Arms -> [Years -> Nat]] /\ pc'[a][y] = pc[a][y] + 1
  BY <1>1, <1>2, <1>4
<1>6. \A b \in Arms, z \in Years : b # a \/ z # y => pc'[b][z] = pc[b][z]
  BY <1>1, <1>2
<1> QED
  BY <1>1, <1>2, <1>3, <1>4, <1>5, <1>6

LEMMA FirstDays ==
  ASSUME NEW y \in Years, NEW lo \in {Floor, First(1), First(y - 6)}
  PROVE  lo \in Nat /\ lo > 0
<1>1. y \in Int /\ y - 6 \in Int /\ 0 <= y - 6 - 1
  BY PlanAssumption DEF Years
<1>2. Last(0) = 0 /\ First(1) = 2 /\ Floor \in Nat /\ Floor > 1
  BY PlanAssumption DEF Last, First
<1> DEFINE t == y - 6
<1>3. t \in Int /\ 0 <= t - 1
  BY <1>1
<1> HIDE DEF t
<1>4. Last(0) <= Last(t - 1) /\ Last(t - 1) \in Int
  BY <1>3, LaterYears, YearEnds
<1>5. First(t) \in Int /\ First(t) > Last(t - 1)
  BY <1>3, YearEnds
<1>6. First(t) \in Nat /\ First(t) > 0
  BY <1>2, <1>4, <1>5
<1> QED
  BY <1>2, <1>6 DEF t

LEMMA PlansKept ==
  ASSUME IInv, [Next]_vars
  PROVE  plan' \in [Arms -> AsOfDates \cup {0}] /\ PlansAreDue'
<1>1. plan \in [Arms -> AsOfDates \cup {0}] /\ PlansAreDue
  BY DEF IInv, TypeOK
<1>2. CASE plan' = plan
  BY <1>1, <1>2 DEF PlansAreDue
<1>3. ASSUME NEW a \in Arms, NEW d \in AsOfDates, Emit(a, d)
      PROVE  plan' \in [Arms -> AsOfDates \cup {0}] /\ PlansAreDue'
  <2>1. plan' = [plan EXCEPT ![a] = d] /\ Year(d) >= EndYear
    BY <1>3 DEF Emit
  <2>2. plan' \in [Arms -> AsOfDates \cup {0}] /\ \A b \in Arms : plan'[b] = IF b = a THEN d ELSE plan[b]
    BY <1>1, <2>1
  <2> QED
    BY <1>1, <2>1, <2>2 DEF PlansAreDue
<1> QED
  BY <1>2, <1>3, Writers

LEMMA CountersKept ==
  ASSUME IInv, [Next]_vars
  PROVE  pc' \in [Arms -> [Years -> Nat]] /\ history' \in {Floor, First(1)}
<1>1. TypeOK /\ pc \in [Arms -> [Years -> Nat]] /\ history \in {Floor, First(1)}
  BY DEF IInv, TypeOK
<1>2. ASSUME NEW a \in Arms, NEW d \in AsOfDates, Emit(a, d)
      PROVE  pc' \in [Arms -> [Years -> Nat]]
  BY <1>1, <1>2 DEF Emit
<1>3. ASSUME NEW a \in Arms, NEW y \in Years, RunAgain(a, y)
      PROVE  pc' \in [Arms -> [Years -> Nat]]
  BY <1>1, <1>3 DEF RunAgain
<1>4. ASSUME NEW a \in Arms, NEW y \in Years, NEW c, Command(a, y, c)
      PROVE  pc' \in [Arms -> [Years -> Nat]]
  BY <1>1, <1>4, CommandRuns
<1>5. UNCHANGED vars \/ Backfill => pc' = pc
  BY DEF vars, Backfill
<1> QED
  BY <1>1, <1>2, <1>3, <1>4, <1>5, Writers

LEMMA PanelKept ==
  ASSUME IInv, [Next]_vars
  PROVE  panel' \in [RunIds -> SUBSET Experiments] /\ PanelsAreTrue'
<1>1. TypeOK /\ panel \in [RunIds -> SUBSET Experiments] /\ PanelsAreTrue /\ PlansAreDue
  BY DEF IInv, TypeOK
<1>2. CASE panel' = panel
  BY <1>1, <1>2 DEF PanelsAreTrue
<1>3. ASSUME NEW a \in Arms, NEW y \in Years, BuildPanel(a, y)
      PROVE  panel' \in [RunIds -> SUBSET Experiments] /\ PanelsAreTrue'
  <2> DEFINE exp == Selection(a, y, plan[a])
  <2>1. plan[a] \in AsOfDates /\ Year(plan[a]) >= EndYear
    BY <1>1, <1>3, CommandRuns DEF BuildPanel, PlansAreDue
  <2>2. exp \in Experiments /\ RunId(a, y) \in RunIds
    BY <2>1, SelectionEnds, RunsApart
  <2>3. panel' = [panel EXCEPT ![RunId(a, y)] = {exp}]
    BY <1>3 DEF BuildPanel
  <2>4. PICK asOf \in AsOfDates : asOf = plan[a]
    BY <2>1
  <2>5. exp = Selection(a, y, asOf)
    BY <2>4
  <2> HIDE DEF exp
  <2>6. panel' \in [RunIds -> SUBSET Experiments]
    BY <1>1, <2>2, <2>3
  <2>7. \A run \in RunIds : panel'[run] = IF run = RunId(a, y) THEN {exp} ELSE panel[run]
    BY <1>1, <2>3
  <2>8. PanelsAreTrue'
    BY <1>1, <2>1, <2>4, <2>5, <2>7 DEF PanelsAreTrue
  <2> QED
    BY <2>6, <2>8
<1>4. ASSUME NEW a \in Arms, NEW y \in Years, BuildRefitPanel(a, y)
      PROVE  panel' \in [RunIds -> SUBSET Experiments] /\ PanelsAreTrue'
  <2> DEFINE exp == Refit(a, y, plan[a])
  <2>1. plan[a] \in AsOfDates /\ Year(plan[a]) >= EndYear
    BY <1>1, <1>4, CommandRuns DEF BuildRefitPanel, PlansAreDue
  <2>2. exp \in Experiments /\ RefitRunId(a, y) \in RunIds
    BY <2>1, RefitWindow, RunsApart
  <2>3. panel' = [panel EXCEPT ![RefitRunId(a, y)] = {exp}]
    BY <1>4 DEF BuildRefitPanel
  <2>4. PICK asOf \in AsOfDates : asOf = plan[a]
    BY <2>1
  <2>5. exp = Refit(a, y, asOf)
    BY <2>4
  <2> HIDE DEF exp
  <2>6. panel' \in [RunIds -> SUBSET Experiments]
    BY <1>1, <2>2, <2>3
  <2>7. \A run \in RunIds : panel'[run] = IF run = RefitRunId(a, y) THEN {exp} ELSE panel[run]
    BY <1>1, <2>3
  <2>8. PanelsAreTrue'
    BY <1>1, <2>1, <2>4, <2>5, <2>7 DEF PanelsAreTrue
  <2> QED
    BY <2>6, <2>8
<1> QED
  BY <1>2, <1>3, <1>4, Writers

LEMMA MatrixKept ==
  ASSUME IInv, [Next]_vars
  PROVE  matrix' \in [RunIds -> SUBSET Matrices] /\ MatricesAreTrue'
<1>1. /\ TypeOK /\ matrix \in [RunIds -> SUBSET Matrices] /\ PanelsAreTrue /\ MatricesAreTrue
      /\ history \in {Floor, First(1)}
  BY DEF IInv, TypeOK
<1>2. CASE matrix' = matrix
  BY <1>1, <1>2 DEF MatricesAreTrue
<1>3. ASSUME NEW a \in Arms, NEW y \in Years, PrepareMatrix(a, y)
      PROVE  matrix' \in [RunIds -> SUBSET Matrices] /\ MatricesAreTrue'
  <2> DEFINE run == RunId(a, y)
  <2>1. /\ run \in RunIds /\ run[1] = y /\ run[2] = a.horizon
        /\ \A b \in Arms, z \in Years : run # RefitRunId(b, z)
    BY RunsApart
  <2>2. PICK exp \in panel[run] : matrix' = [matrix EXCEPT ![run] = {Splits(exp)}]
    BY <1>3 DEF PrepareMatrix
  <2>3. PICK b \in Arms, z \in Years, asOf \in AsOfDates :
          Year(asOf) >= EndYear /\ run = RunId(b, z) /\ exp = Selection(b, z, asOf)
    BY <1>1, <2>1 DEF PanelsAreTrue
  <2>4. run[1] = z /\ run[2] = b.horizon
    BY <2>3, RunsApart
  <2> DEFINE mx == Splits(exp)
  <2>5. /\ mx \in Matrices /\ mx.horizon = run[2]
        /\ KnownBy(Days(mx.train), run[2], Last(run[1] - 2))
        /\ KnownBy(Days(mx.valid), run[2], Last(run[1] - 1))
        /\ \A d \in Days(mx.predict) : d >= First(run[1] - 1)
        /\ \E lo \in {Floor, First(1), First(run[1] - 6)} : Days(mx.cv) = CvDays(lo, run[1], run[2])
    BY <1>1, <2>3, <2>4, SelectionSplits
  <2> HIDE DEF mx, run
  <2>6. matrix' \in [RunIds -> SUBSET Matrices]
    BY <1>1, <2>1, <2>2, <2>5 DEF mx
  <2>7. \A r \in RunIds : matrix'[r] = IF r = run THEN {mx} ELSE matrix[r]
    BY <1>1, <2>2 DEF mx
  <2>8. MatricesAreTrue'
    BY <1>1, <2>5, <2>7 DEF MatricesAreTrue
  <2> QED
    BY <2>6, <2>8
<1> QED
  BY <1>2, <1>3, Writers

LEMMA ResultsKept ==
  ASSUME IInv, [Next]_vars
  PROVE  results' \in [RunIds -> SUBSET Outcomes] /\ ResultsAreTrue'
<1>1. /\ TypeOK /\ matrix \in [RunIds -> SUBSET Matrices] /\ results \in [RunIds -> SUBSET Outcomes]
      /\ MatricesAreTrue /\ ResultsAreTrue
  BY DEF IInv, TypeOK
<1>2. CASE results' = results
  BY <1>1, <1>2 DEF ResultsAreTrue
<1>3. ASSUME NEW a \in Arms, NEW y \in Years, TrainCandidates(a, y)
      PROVE  results' \in [RunIds -> SUBSET Outcomes] /\ ResultsAreTrue'
  <2> DEFINE run == RunId(a, y)
  <2>1. run \in RunIds /\ run[1] = y /\ run[2] = a.horizon
    BY RunsApart
  <2>2. PICK mx \in matrix[run] :
          results' = [results EXCEPT ![run] =
                        {[trained |-> Days(mx.train), valid |-> Days(mx.valid), folds |-> Folds(mx),
                          horizon |-> mx.horizon]}]
    BY <1>3 DEF TrainCandidates
  <2>3. mx \in Matrices
    BY <1>1, <2>1
  <2>4. /\ mx.horizon = a.horizon
        /\ KnownBy(Days(mx.train), run[2], Last(run[1] - 2))
        /\ KnownBy(Days(mx.valid), run[2], Last(run[1] - 1))
        /\ \E lo \in {Floor, First(1), First(y - 6)} : Days(mx.cv) = CvDays(lo, y, a.horizon)
    BY <1>1, <2>1 DEF MatricesAreTrue
  <2>5. PICK lo \in {Floor, First(1), First(y - 6)} : Days(mx.cv) = CvDays(lo, y, a.horizon)
    BY <2>4
  <2>6. lo \in Nat /\ lo > 0
    BY FirstDays
  <2>7. /\ Folds(mx) \in FoldSets
        /\ FoldsApart(Folds(mx), run[2])
        /\ \A f \in Folds(mx) : KnownBy(f.eval, run[2], Last(run[1] - 1))
    BY <2>1, <2>4, <2>5, <2>6, FoldsAreApart
  <2>8. Days(mx.train) \in DaySets /\ Days(mx.valid) \in DaySets /\ mx.horizon \in Nat
    BY <2>3 DEF Matrices, RowSets, Days, DaySets
  <2> DEFINE res == [trained |-> Days(mx.train), valid |-> Days(mx.valid), folds |-> Folds(mx),
                     horizon |-> mx.horizon]
  <2>9. /\ res \in Outcomes /\ res.trained = Days(mx.train) /\ res.valid = Days(mx.valid)
        /\ res.folds = Folds(mx) /\ res.horizon = run[2]
    BY <2>1, <2>4, <2>7, <2>8 DEF Outcomes
  <2>10. results' = [results EXCEPT ![run] = {res}]
    BY <2>2
  <2> HIDE DEF res, run
  <2>11. results' \in [RunIds -> SUBSET Outcomes]
    BY <1>1, <2>1, <2>9, <2>10
  <2>12. \A r \in RunIds : results'[r] = IF r = run THEN {res} ELSE results[r]
    BY <1>1, <2>10
  <2>13. ResultsAreTrue'
    BY <1>1, <2>4, <2>7, <2>9, <2>12 DEF ResultsAreTrue
  <2> QED
    BY <2>11, <2>13
<1> QED
  BY <1>2, <1>3, Writers

\* What a selection registers: all of it rests on the years before the last one.
LEMMA SelectionMade ==
  ASSUME IInv, NEW a \in Arms, NEW y \in Years, Select(a, y)
  PROVE  \E m \in Models, days \in DaySets :
           /\ registry' = [registry EXCEPT ![RunId(a, y)] = {m}]
           /\ predicted' = [predicted EXCEPT ![RunId(a, y)] = days \X {m}]
           /\ m.horizon = a.horizon
           /\ KnownBy(m.trained, a.horizon, Last(y - 2))
           /\ KnownBy(m.chosenOn, a.horizon, Last(y - 1))
           /\ FoldsApart(m.folds, a.horizon)
           /\ \A d \in days : d >= First(y - 1)
<1> DEFINE run == RunId(a, y)
<1>1. /\ matrix \in [RunIds -> SUBSET Matrices] /\ results \in [RunIds -> SUBSET Outcomes]
      /\ MatricesAreTrue /\ ResultsAreTrue
  BY DEF IInv, TypeOK
<1>2. run \in RunIds /\ run[1] = y /\ run[2] = a.horizon
  BY RunsApart
<1>3. PICK res \in results[run], mx \in matrix[run], c \in Candidates :
        LET m == [candidate |-> c, trained |-> res.trained, horizon |-> res.horizon,
                  chosenOn |-> res.valid \cup UNION {f.eval : f \in res.folds},
                  folds |-> res.folds]
        IN /\ registry' = [registry EXCEPT ![run] = {m}]
           /\ predicted' = [predicted EXCEPT ![run] = Days(mx.predict) \X {m}]
  BY DEF Select
<1> DEFINE m == [candidate |-> c, trained |-> res.trained, horizon |-> res.horizon,
                 chosenOn |-> res.valid \cup UNION {f.eval : f \in res.folds},
                 folds |-> res.folds]
           days == Days(mx.predict)
<1>4. res \in Outcomes /\ mx \in Matrices
  BY <1>1, <1>2, <1>3
<1>5. days \in DaySets
  BY <1>4 DEF Matrices, RowSets, Days, DaySets
<1>6. /\ res.trained \in DaySets /\ res.valid \in DaySets /\ res.folds \in FoldSets
      /\ res.horizon \in Nat
  BY <1>4 DEF Outcomes
<1>7. UNION {f.eval : f \in res.folds} \in DaySets
  BY <1>6 DEF FoldSets, DaySets
<1>8. m \in Models
  <2>1. m.chosenOn \in DaySets
    BY <1>6, <1>7 DEF DaySets
  <2> QED
    BY <1>3, <1>6, <2>1 DEF Models
<1>9. /\ res.horizon = a.horizon
      /\ KnownBy(res.trained, a.horizon, Last(y - 2))
      /\ KnownBy(res.valid, a.horizon, Last(y - 1))
      /\ FoldsApart(res.folds, a.horizon)
      /\ \A f \in res.folds : KnownBy(f.eval, a.horizon, Last(y - 1))
  BY <1>1, <1>2, <1>3 DEF ResultsAreTrue
<1>10. \A d \in days : d >= First(y - 1)
  BY <1>1, <1>2, <1>3 DEF MatricesAreTrue
<1>11. KnownBy(m.chosenOn, a.horizon, Last(y - 1))
  BY <1>9 DEF KnownBy
<1>12. /\ m.horizon = a.horizon /\ m.trained = res.trained /\ m.folds = res.folds
       /\ registry' = [registry EXCEPT ![run] = {m}]
       /\ predicted' = [predicted EXCEPT ![run] = days \X {m}]
  BY <1>3, <1>9
<1> HIDE DEF m, days, run
<1>13. run = RunId(a, y)
  BY DEF run
<1> QED
  BY <1>5, <1>8, <1>9, <1>10, <1>11, <1>12, <1>13

\* What a refit registers: the model chosen, fitted on the window of the panel.
LEMMA RefitMade ==
  ASSUME IInv, NEW a \in Arms, NEW y \in Years, RefitRegisterPredict(a, y)
  PROVE  \E m \in Models, exp \in panel[RefitRunId(a, y)] :
           /\ registry' = [registry EXCEPT ![RefitRunId(a, y)] = {m}]
           /\ predicted' = [predicted EXCEPT ![RefitRunId(a, y)] =
                              {p \in @ : p[1] \notin exp.test} \cup (exp.test \X {m})]
           /\ exp \in Experiments
           /\ m.trained = exp.train
           /\ m.horizon = a.horizon
           /\ KnownBy(m.chosenOn, a.horizon, Last(y - 1))
           /\ FoldsApart(m.folds, a.horizon)
           /\ \E b \in Arms, asOf \in AsOfDates :
                /\ Year(asOf) >= EndYear /\ RefitRunId(b, y) = RefitRunId(a, y)
                /\ exp = Refit(b, y, asOf)
<1> DEFINE run == RefitRunId(a, y)
<1>1. /\ panel \in [RunIds -> SUBSET Experiments] /\ registry \in [RunIds -> SUBSET Models]
      /\ PanelsAreTrue /\ ModelsAreTrue
  BY DEF IInv, TypeOK
<1>2. /\ run \in RunIds /\ \A b \in Arms, z \in Years : RunId(b, z) # run
      /\ RunId(a, y) \in RunIds /\ RunId(a, y)[1] = y /\ RunId(a, y)[2] = a.horizon
  BY RunsApart
<1>3. PICK chosen \in registry[RunId(a, y)], exp \in panel[run] :
        LET m == [chosen EXCEPT !.trained = exp.train]
        IN /\ registry' = [registry EXCEPT ![run] = {m}]
           /\ predicted' = [predicted EXCEPT ![run] =
                              {p \in @ : p[1] \notin exp.test} \cup (exp.test \X {m})]
  BY DEF RefitRegisterPredict
<1> DEFINE m == [chosen EXCEPT !.trained = exp.train]
<1>4. chosen \in Models /\ exp \in Experiments
  BY <1>1, <1>2, <1>3
<1>5. exp.train \in DaySets
  BY <1>4 DEF Experiments
<1>6. /\ m \in Models /\ m.trained = exp.train /\ m.horizon = chosen.horizon
      /\ m.chosenOn = chosen.chosenOn /\ m.folds = chosen.folds
  BY <1>4, <1>5 DEF Models
<1>7. /\ chosen.horizon = a.horizon /\ KnownBy(chosen.chosenOn, a.horizon, Last(y - 1))
      /\ FoldsApart(chosen.folds, a.horizon)
  BY <1>1, <1>2, <1>3 DEF ModelsAreTrue
<1>8. PICK b \in Arms, z \in Years, asOf \in AsOfDates :
        Year(asOf) >= EndYear /\ run = RefitRunId(b, z) /\ exp = Refit(b, z, asOf)
  BY <1>1, <1>2, <1>3 DEF PanelsAreTrue
<1>9. z = y
  BY <1>8, RunsApart
<1>10. /\ registry' = [registry EXCEPT ![run] = {m}]
       /\ predicted' = [predicted EXCEPT ![run] =
                          {p \in @ : p[1] \notin exp.test} \cup (exp.test \X {m})]
  BY <1>3
<1> HIDE DEF m
<1>11. /\ m.horizon = a.horizon /\ KnownBy(m.chosenOn, a.horizon, Last(y - 1))
       /\ FoldsApart(m.folds, a.horizon)
  BY <1>6, <1>7
<1>12. Year(asOf) >= EndYear /\ RefitRunId(b, y) = run /\ exp = Refit(b, y, asOf)
  BY <1>8, <1>9
<1> USE <1>6
<1> WITNESS m \in Models, exp \in panel[RefitRunId(a, y)]
<1>13. \E c \in Arms, d \in AsOfDates :
         Year(d) >= EndYear /\ RefitRunId(c, y) = RefitRunId(a, y) /\ exp = Refit(c, y, d)
  BY <1>12
<1> QED
  BY <1>4, <1>6, <1>10, <1>11, <1>13

LEMMA ModelsKept ==
  ASSUME IInv, [Next]_vars
  PROVE  /\ registry' \in [RunIds -> SUBSET Models]
         /\ predicted' \in [RunIds -> SUBSET (Int \X Models)]
         /\ ModelsAreTrue' /\ NoLookAhead' /\ OwnWindow'
<1>1. /\ registry \in [RunIds -> SUBSET Models] /\ predicted \in [RunIds -> SUBSET (Int \X Models)]
      /\ ModelsAreTrue /\ NoLookAhead /\ OwnWindow
  BY DEF IInv, TypeOK
<1>2. CASE registry' = registry /\ predicted' = predicted
  BY <1>1, <1>2 DEF ModelsAreTrue, NoLookAhead, OwnWindow
<1>3. ASSUME NEW a \in Arms, NEW y \in Years, Select(a, y)
      PROVE  /\ registry' \in [RunIds -> SUBSET Models]
             /\ predicted' \in [RunIds -> SUBSET (Int \X Models)]
             /\ ModelsAreTrue' /\ NoLookAhead' /\ OwnWindow'
  <2>1. PICK m \in Models, days \in DaySets :
           /\ registry' = [registry EXCEPT ![RunId(a, y)] = {m}]
           /\ predicted' = [predicted EXCEPT ![RunId(a, y)] = days \X {m}]
           /\ m.horizon = a.horizon
           /\ KnownBy(m.trained, a.horizon, Last(y - 2))
           /\ KnownBy(m.chosenOn, a.horizon, Last(y - 1))
           /\ FoldsApart(m.folds, a.horizon)
           /\ \A d \in days : d >= First(y - 1)
    BY <1>3, SelectionMade
  <2> DEFINE run == RunId(a, y)
  <2>2. /\ run \in RunIds /\ run[1] = y /\ run[2] = a.horizon /\ run[3] = "none"
        /\ \A b \in Arms, z \in Years : RefitRunId(b, z) # run /\ RefitRunId(b, z) \in RunIds
    BY RunsApart
  <2> HIDE DEF run
  <2>3. days \X {m} \in SUBSET (Int \X Models)
    BY DEF DaySets
  <2>4. /\ registry' = [registry EXCEPT ![run] = {m}]
        /\ predicted' = [predicted EXCEPT ![run] = days \X {m}]
    BY <2>1 DEF run
  <2>5. registry' \in [RunIds -> SUBSET Models]
    BY <1>1, <2>2, <2>4
  <2>6. predicted' \in [RunIds -> SUBSET (Int \X Models)]
    BY <1>1, <2>2, <2>3, <2>4
  <2>7. \A r \in RunIds : /\ registry'[r] = IF r = run THEN {m} ELSE registry[r]
                          /\ predicted'[r] = IF r = run THEN days \X {m} ELSE predicted[r]
    BY <1>1, <2>4
  <2>8. ModelsAreTrue'
    BY <1>1, <2>1, <2>2, <2>7 DEF ModelsAreTrue
  <2>9. NoLookAhead'
    <3>1. ASSUME NEW p \in days \X {m}
          PROVE  /\ \A d \in p[2].trained : d + p[2].horizon < p[1]
                 /\ \A f \in p[2].folds : \A d \in f.fit, e \in f.eval : d + p[2].horizon < e
      <4>1. p[2] = m /\ p[1] \in days /\ p[1] \in Int
        BY DEF DaySets
      <4>2. /\ First(y - 1) \in Int /\ Last(y - 2) \in Int /\ Last(y - 2) < First(y - 1)
            /\ a.horizon \in Nat
        BY Windows, Numbers
      <4>3. ASSUME NEW d \in m.trained
            PROVE  d + a.horizon < p[1]
        <5>1. d \in Int /\ d + a.horizon <= Last(y - 2) /\ p[1] >= First(y - 1)
          BY <2>1, <4>1 DEF KnownBy, Models, DaySets
        <5> QED
          BY <4>1, <4>2, <5>1
      <4> QED
        BY <2>1, <4>1, <4>3 DEF FoldsApart
    <3> QED
      BY <1>1, <2>2, <2>7, <3>1 DEF NoLookAhead
  <2>10. OwnWindow'
    BY <1>1, <2>2, <2>7 DEF OwnWindow
  <2> QED
    BY <2>5, <2>6, <2>8, <2>9, <2>10
<1>4. ASSUME NEW a \in Arms, NEW y \in Years, RefitRegisterPredict(a, y)
      PROVE  /\ registry' \in [RunIds -> SUBSET Models]
             /\ predicted' \in [RunIds -> SUBSET (Int \X Models)]
             /\ ModelsAreTrue' /\ NoLookAhead' /\ OwnWindow'
  <2>1. PICK m \in Models, exp \in panel[RefitRunId(a, y)] :
           /\ registry' = [registry EXCEPT ![RefitRunId(a, y)] = {m}]
           /\ predicted' = [predicted EXCEPT ![RefitRunId(a, y)] =
                              {p \in @ : p[1] \notin exp.test} \cup (exp.test \X {m})]
           /\ exp \in Experiments
           /\ m.trained = exp.train
           /\ m.horizon = a.horizon
           /\ KnownBy(m.chosenOn, a.horizon, Last(y - 1))
           /\ FoldsApart(m.folds, a.horizon)
           /\ \E b \in Arms, asOf \in AsOfDates :
                /\ Year(asOf) >= EndYear /\ RefitRunId(b, y) = RefitRunId(a, y)
                /\ exp = Refit(b, y, asOf)
    BY <1>4, RefitMade
  <2>2. PICK b \in Arms, asOf \in AsOfDates :
          /\ Year(asOf) >= EndYear /\ RefitRunId(b, y) = RefitRunId(a, y)
          /\ exp = Refit(b, y, asOf)
    BY <2>1
  <2> DEFINE run == RefitRunId(a, y)
             kept == {p \in predicted[run] : p[1] \notin exp.test}
  <2>3. run \in RunIds /\ run[1] = y /\ run[2] = a.horizon /\ b.horizon = a.horizon
    BY <2>2, RunsApart
  <2>4. /\ registry' = [registry EXCEPT ![run] = {m}]
        /\ predicted' = [predicted EXCEPT ![run] = kept \cup (exp.test \X {m})]
    BY <2>1
  <2>5. exp.test \X {m} \in SUBSET (Int \X Models)
    BY <2>1 DEF Experiments, DaySets
  <2>6. kept \in SUBSET (Int \X Models) /\ kept \subseteq predicted[run]
    BY <1>1, <2>3
  <2> HIDE DEF run, kept
  <2>7. registry' \in [RunIds -> SUBSET Models]
    BY <1>1, <2>3, <2>4
  <2>8. predicted' \in [RunIds -> SUBSET (Int \X Models)]
    BY <1>1, <2>3, <2>4, <2>5, <2>6
  <2>9. \A r \in RunIds : /\ registry'[r] = IF r = run THEN {m} ELSE registry[r]
                          /\ predicted'[r] = IF r = run THEN kept \cup (exp.test \X {m})
                                                        ELSE predicted[r]
    BY <1>1, <2>4
  <2>10. ModelsAreTrue'
    BY <1>1, <2>1, <2>3, <2>9 DEF ModelsAreTrue
  <2>11. NoLookAhead'
    <3>1. ASSUME NEW p \in exp.test \X {m}
          PROVE  /\ \A d \in p[2].trained : d + p[2].horizon < p[1]
                 /\ \A d \in p[2].chosenOn : d + p[2].horizon < p[1]
                 /\ \A f \in p[2].folds : \A d \in f.fit, e \in f.eval : d + p[2].horizon < e
      <4>1. p[2] = m /\ p[1] \in exp.test
        OBVIOUS
      <4>2. /\ First(y) \in Int /\ Last(y - 1) \in Int /\ Last(y - 1) < First(y)
            /\ a.horizon \in Nat
        BY Windows, Numbers
      <4>3. p[1] \in Int /\ p[1] >= First(y)
        <5>1. exp.test = First(y)..BoundedYearEnd(y, asOf) /\ BoundedYearEnd(y, asOf) \in Int
          BY <2>2, RefitWindow, TestWindow
        <5> QED
          BY <4>1, <4>2, <5>1
      <4>4. KnownBy(m.trained, a.horizon, Last(y - 1))
        BY <2>1, <2>2, <2>3, RefitWindow
      <4>5. ASSUME NEW d \in m.trained \cup m.chosenOn
            PROVE  d + a.horizon < p[1]
        <5>1. d \in Int /\ d + a.horizon <= Last(y - 1)
          BY <2>1, <4>4 DEF KnownBy, Models, DaySets
        <5> QED
          BY <4>2, <4>3, <5>1
      <4> QED
        BY <2>1, <4>1, <4>5 DEF FoldsApart
    <3> QED
      BY <1>1, <2>6, <2>9, <3>1 DEF NoLookAhead
  <2>12. OwnWindow'
    <3>1. ASSUME NEW c \in Arms, NEW z \in Years, \A x \in Rivals(c) : x.trueFive = c.trueFive,
                 NEW n \in registry'[RefitRunId(c, z)]
          PROVE  n.trained = RefitStart(c, z)..LabelSafeEnd(z - 1, c.horizon)
      <4>1. RefitRunId(c, z) \in RunIds
        BY RunsApart
      <4>2. CASE RefitRunId(c, z) # run
        BY <1>1, <2>9, <3>1, <4>1, <4>2 DEF OwnWindow
      <4>3. CASE RefitRunId(c, z) = run
        <5>1. n = m
          BY <2>9, <4>1, <4>3
        <5>2. RefitRunId(b, y) = RefitRunId(c, z)
          BY <2>2, <4>3 DEF run
        <5>3. y = z /\ b.horizon = c.horizon /\ (b = c \/ b \in Rivals(c))
          BY <5>2, RunsApart
        <5>4. b.trueFive = c.trueFive
          BY <3>1, <5>3
        <5>5. RefitStart(b, y) = RefitStart(c, z)
          BY <5>3, <5>4 DEF RefitStart
        <5>6. m.trained = RefitStart(b, y)..LabelSafeEnd(y - 1, b.horizon)
          BY <2>1, <2>2, RefitWindow
        <5> QED
          BY <5>1, <5>3, <5>5, <5>6
      <4> QED
        BY <4>2, <4>3
    <3> QED
      BY <3>1 DEF OwnWindow, Rivals
  <2> QED
    BY <2>7, <2>8, <2>10, <2>11, <2>12
<1> QED
  BY <1>2, <1>3, <1>4, Writers

\* Nobody but the arm itself writes to the run of its refit, and the arm does so in two
\* of its commands only.
LEMMA OwnSteps ==
  ASSUME IInv, [Next]_vars, NEW c \in Arms, NEW z \in Years, Rivals(c) = {}
  PROVE  LET run == RefitRunId(c, z)
             same == /\ panel'[run] = panel[run] /\ registry'[run] = registry[run]
                     /\ predicted'[run] = predicted[run]
         IN \/ same /\ plan'[c] = plan[c] /\ pc'[c][z] \in {pc[c][z], 0}
            \/ same /\ \E d \in AsOfDates : Emit(c, d)
            \/ same /\ \E command \in {"panel", "matrix", "fanout", "select", "backtest"} :
                         Command(c, z, command)
            \/ BuildRefitPanel(c, z)
            \/ RefitRegisterPredict(c, z)
<1> DEFINE run == RefitRunId(c, z)
           same == /\ panel'[run] = panel[run] /\ registry'[run] = registry[run]
                   /\ predicted'[run] = predicted[run]
           other == same /\ plan'[c] = plan[c] /\ pc'[c][z] \in {pc[c][z], 0}
           own == same /\ \E command \in {"panel", "matrix", "fanout", "select", "backtest"} :
                            Command(c, z, command)
           emits == same /\ \E d \in AsOfDates : Emit(c, d)
<1>1. /\ TypeOK /\ run \in RunIds
      /\ plan \in [Arms -> AsOfDates \cup {0}] /\ pc \in [Arms -> [Years -> Nat]]
      /\ panel \in [RunIds -> SUBSET Experiments]
      /\ registry \in [RunIds -> SUBSET Models]
      /\ predicted \in [RunIds -> SUBSET (Int \X Models)]
  BY RunsApart DEF IInv, TypeOK
<1>2. \A a \in Arms, y \in Years :
        /\ RunId(a, y) # run
        /\ RefitRunId(a, y) = run => a = c /\ y = z
  BY RunsApart
<1> HIDE DEF run
<1>3. ASSUME NEW a \in Arms, NEW y \in Years, NEW command, Command(a, y, command), a # c \/ y # z
      PROVE  plan'[c] = plan[c] /\ pc'[c][z] = pc[c][z]
  BY <1>1, <1>3, CommandRuns
<1>4. ASSUME UNCHANGED vars
      PROVE  other
  BY <1>4 DEF vars
<1>5. ASSUME NEW a \in Arms, NEW d \in AsOfDates, Emit(a, d)
      PROVE  other \/ emits
  <2>1. same
    BY <1>5 DEF Emit, tables
  <2>2. a # c => plan'[c] = plan[c] /\ pc'[c] = pc[c]
    BY <1>1, <1>5 DEF Emit
  <2> QED
    BY <1>5, <2>1, <2>2
<1>6. ASSUME NEW a \in Arms, NEW y \in Years, BuildPanel(a, y)
      PROVE  other \/ own
  <2>1. same
    BY <1>1, <1>2, <1>6 DEF BuildPanel
  <2>2. Command(a, y, "panel")
    BY <1>6 DEF BuildPanel
  <2> QED
    BY <1>3, <2>1, <2>2
<1>7. ASSUME NEW a \in Arms, NEW y \in Years, BuildRefitPanel(a, y)
      PROVE  other \/ BuildRefitPanel(c, z)
  <2>1. CASE a = c /\ y = z
    BY <1>7, <2>1
  <2>2. CASE a # c \/ y # z
    <3>1. same
      BY <1>1, <1>2, <1>7, <2>2 DEF BuildRefitPanel
    <3>2. Command(a, y, "refit_panel")
      BY <1>7 DEF BuildRefitPanel
    <3> QED
      BY <1>3, <2>2, <3>1, <3>2
  <2> QED
    BY <2>1, <2>2
<1>8. ASSUME NEW a \in Arms, NEW y \in Years, PrepareMatrix(a, y)
      PROVE  other \/ own
  <2>1. same /\ Command(a, y, "matrix")
    BY <1>8 DEF PrepareMatrix
  <2> QED
    BY <1>3, <2>1
<1>9. ASSUME NEW a \in Arms, NEW y \in Years, TrainCandidates(a, y)
      PROVE  other \/ own
  <2>1. same /\ Command(a, y, "fanout")
    BY <1>9 DEF TrainCandidates
  <2> QED
    BY <1>3, <2>1
<1>10. ASSUME NEW a \in Arms, NEW y \in Years, Select(a, y)
       PROVE  other \/ own
  <2>1. PICK m \in Models, days \in DaySets :
          /\ registry' = [registry EXCEPT ![RunId(a, y)] = {m}]
          /\ predicted' = [predicted EXCEPT ![RunId(a, y)] = days \X {m}]
    BY <1>10, SelectionMade
  <2>2. panel' = panel /\ Command(a, y, "select")
    BY <1>10 DEF Select
  <2>3. same
    BY <1>1, <1>2, <2>1, <2>2
  <2> QED
    BY <1>3, <2>2, <2>3
<1>11. ASSUME NEW a \in Arms, NEW y \in Years, RefitRegisterPredict(a, y)
       PROVE  other \/ RefitRegisterPredict(c, z)
  <2>1. CASE a = c /\ y = z
    BY <1>11, <2>1
  <2>2. CASE a # c \/ y # z
    <3>1. panel' = panel /\ Command(a, y, "refit")
      BY <1>11 DEF RefitRegisterPredict
    <3>2. PICK M, P : /\ registry' = [registry EXCEPT ![RefitRunId(a, y)] = M]
                      /\ predicted' = [predicted EXCEPT ![RefitRunId(a, y)] = P]
      BY <1>11 DEF RefitRegisterPredict
    <3>3. same
      BY <1>1, <1>2, <2>2, <3>1, <3>2
    <3> QED
      BY <1>3, <2>2, <3>1, <3>3
  <2> QED
    BY <2>1, <2>2
<1>12. ASSUME NEW a \in Arms, NEW y \in Years, Backtest(a, y)
       PROVE  other \/ own
  <2>1. same /\ Command(a, y, "backtest")
    BY <1>12 DEF Backtest
  <2> QED
    BY <1>3, <2>1
<1>13. ASSUME NEW a \in Arms, NEW y \in Years, RunAgain(a, y)
       PROVE  other
  <2>1. same /\ plan'[c] = plan[c]
    BY <1>13 DEF RunAgain, tables
  <2>2. pc'[c][z] \in {pc[c][z], 0}
    BY <1>1, <1>13 DEF RunAgain
  <2> QED
    BY <2>1, <2>2
<1>14. ASSUME Backfill
       PROVE  other
  BY <1>14 DEF Backfill
<1>15. other \/ own \/ emits \/ BuildRefitPanel(c, z) \/ RefitRegisterPredict(c, z)
  <2> HIDE DEF same, other, own, emits
  <2>1. CASE Next
    BY <1>5, <1>6, <1>7, <1>8, <1>9, <1>10, <1>11, <1>12, <1>13, <1>14, <2>1 DEF Next
  <2> QED
    BY <1>4, <2>1
<1> QED
  BY <1>15 DEF run

LEMMA LaterPlan ==
  ASSUME NEW y \in Years, NEW asOf \in AsOfDates, NEW d \in AsOfDates, asOf < d,
         Year(asOf) >= EndYear, Year(d) >= EndYear
  PROVE  BoundedYearEnd(y, asOf) <= BoundedYearEnd(y, d)
<1>1. asOf \in Nat /\ asOf > 0 /\ d \in Nat /\ d > 0 /\ y \in Int /\ y <= EndYear /\ EndYear \in Int
  BY PlanAssumption DEF Years
<1>2. /\ Year(asOf) \in Int /\ Last(Year(asOf) - 1) < asOf
      /\ Year(d) \in Int /\ d <= Last(Year(d))
      /\ Last(Year(asOf) - 1) \in Int /\ Last(Year(d)) \in Int
  BY <1>1, YearOf, YearEnds
<1>3. /\ BoundedYearEnd(y, asOf) \in Int /\ BoundedYearEnd(y, asOf) <= Last(y)
      /\ BoundedYearEnd(y, d) \in Int
  BY TestWindow
<1>4. CASE y # Year(d)
  BY <1>3, <1>4 DEF BoundedYearEnd
<1>5. CASE y = Year(d) /\ y = Year(asOf)
  BY <1>1, <1>5 DEF BoundedYearEnd
<1>6. CASE y = Year(d) /\ y # Year(asOf)
  <2>1. Year(d) <= Year(asOf) - 1
    BY <1>1, <1>2, <1>6
  <2>2. Last(Year(d)) <= Last(Year(asOf) - 1)
    BY <1>2, <2>1, LaterYears
  <2> QED
    BY <1>1, <1>2, <2>2
<1> QED
  BY <1>4, <1>5, <1>6

LEMMA OwnDaysKept ==
  ASSUME IInv, [Next]_vars
  PROVE  OwnDays'
<1>1. /\ TypeOK /\ PlansAreDue /\ OwnDays
      /\ plan \in [Arms -> AsOfDates \cup {0}] /\ pc \in [Arms -> [Years -> Nat]]
      /\ panel \in [RunIds -> SUBSET Experiments]
      /\ registry \in [RunIds -> SUBSET Models]
      /\ predicted \in [RunIds -> SUBSET (Int \X Models)]
  BY DEF IInv, TypeOK
<1>2. SUFFICES ASSUME NEW c \in Arms, NEW z \in Years, Rivals(c) = {}
               PROVE  LET run == RefitRunId(c, z)
                          days == First(z)..BoundedYearEnd(z, plan'[c])
                      IN /\ \A p \in predicted'[run] : plan'[c] # 0 /\ p[1] \in days
                         /\ pc'[c][z] > Before(c) => panel'[run] = {Refit(c, z, plan'[c])}
                         /\ pc'[c][z] > Before(c) + 1 =>
                              \E m \in registry'[run] :
                                registry'[run] = {m} /\ predicted'[run] = days \X {m}
  BY DEF OwnDays, Rivals
<1> DEFINE run == RefitRunId(c, z)
           days == First(z)..BoundedYearEnd(z, plan[c])
           same == /\ panel'[run] = panel[run] /\ registry'[run] = registry[run]
                   /\ predicted'[run] = predicted[run]
<1>3. /\ \A p \in predicted[run] : plan[c] # 0 /\ p[1] \in days
      /\ pc[c][z] > Before(c) => panel[run] = {Refit(c, z, plan[c])}
      /\ pc[c][z] > Before(c) + 1 =>
           \E m \in registry[run] : registry[run] = {m} /\ predicted[run] = days \X {m}
  BY <1>1, <1>2 DEF OwnDays
<1>4. run \in RunIds /\ Before(c) \in Nat /\ pc[c][z] \in Nat
  BY <1>1, RunsApart, CommandPlaces
<1>5. CASE same /\ plan'[c] = plan[c] /\ pc'[c][z] \in {pc[c][z], 0}
  BY <1>3, <1>4, <1>5
<1>6. ASSUME same, NEW d \in AsOfDates, Emit(c, d)
      PROVE  /\ \A p \in predicted'[run] : plan'[c] # 0 /\ p[1] \in First(z)..BoundedYearEnd(z, plan'[c])
             /\ pc'[c][z] = 0
  <2>1. plan'[c] = d /\ d > plan[c] /\ pc'[c][z] = 0 /\ Year(d) >= EndYear
    BY <1>1, <1>6 DEF Emit
  <2>2. d # 0
    BY PlanAssumption
  <2>3. ASSUME NEW p \in predicted[run]
        PROVE  p[1] \in First(z)..BoundedYearEnd(z, d)
    <3>1. plan[c] \in AsOfDates /\ Year(plan[c]) >= EndYear /\ p[1] \in days
      BY <1>1, <1>3 DEF PlansAreDue
    <3>2. /\ BoundedYearEnd(z, plan[c]) \in Int /\ BoundedYearEnd(z, d) \in Int
          /\ BoundedYearEnd(z, plan[c]) <= BoundedYearEnd(z, d)
      <4>1. plan[c] < d
        BY <2>1, <3>1, PlanAssumption
      <4> QED
        BY <2>1, <3>1, <4>1, TestWindow, LaterPlan
    <3>3. First(z) \in Int
      BY Windows
    <3> QED
      BY <3>1, <3>2, <3>3
  <2> QED
    BY <1>6, <2>1, <2>2, <2>3
<1>7. ASSUME same, NEW command \in {"panel", "matrix", "fanout", "select", "backtest"},
             Command(c, z, command)
      PROVE  /\ plan'[c] = plan[c] /\ pc'[c][z] = pc[c][z] + 1
             /\ pc'[c][z] > Before(c) => pc[c][z] > Before(c) + 1
  <2>1. /\ plan'[c] = plan[c] /\ pc'[c][z] = pc[c][z] + 1
        /\ pc[c][z] + 1 \in 1..Len(Commands(c)) /\ Commands(c)[pc[c][z] + 1] = command
    BY <1>1, <1>7, CommandRuns
  <2>2. pc[c][z] + 1 <= Before(c) \/ pc[c][z] + 1 > Before(c) + 2
    BY <2>1, CommandPlaces
  <2> QED
    BY <1>4, <2>1, <2>2
<1>8. ASSUME BuildRefitPanel(c, z)
      PROVE  /\ plan'[c] = plan[c] /\ pc'[c][z] = Before(c) + 1
             /\ panel'[run] = {Refit(c, z, plan[c])}
             /\ predicted'[run] = predicted[run]
  <2>1. Command(c, z, "refit_panel")
    BY <1>8 DEF BuildRefitPanel
  <2>2. /\ plan' = plan /\ pc'[c][z] = pc[c][z] + 1
        /\ pc[c][z] + 1 \in 1..Len(Commands(c)) /\ Commands(c)[pc[c][z] + 1] = "refit_panel"
    BY <1>1, <2>1, CommandRuns
  <2>3. pc[c][z] + 1 = Before(c) + 1
    BY <2>2, CommandPlaces
  <2>4. panel' = [panel EXCEPT ![run] = {Refit(c, z, plan[c])}] /\ predicted' = predicted
    BY <1>8 DEF BuildRefitPanel
  <2> HIDE DEF run
  <2> QED
    BY <1>1, <1>4, <2>2, <2>3, <2>4
<1>9. ASSUME RefitRegisterPredict(c, z)
      PROVE  /\ plan'[c] = plan[c] /\ panel'[run] = {Refit(c, z, plan[c])}
             /\ \E m \in registry'[run] : registry'[run] = {m} /\ predicted'[run] = days \X {m}
             /\ plan[c] # 0
  <2>1. Command(c, z, "refit") /\ panel' = panel
    BY <1>9 DEF RefitRegisterPredict
  <2>2. /\ plan' = plan /\ pc'[c][z] = pc[c][z] + 1 /\ plan[c] \in AsOfDates /\ plan[c] # 0
        /\ pc[c][z] + 1 \in 1..Len(Commands(c)) /\ Commands(c)[pc[c][z] + 1] = "refit"
    BY <1>1, <2>1, CommandRuns
  <2>3. pc[c][z] + 1 = Before(c) + 2
    BY <2>2, CommandPlaces
  <2>4. panel[run] = {Refit(c, z, plan[c])}
    BY <1>3, <1>4, <2>3
  <2>5. PICK m \in Models, exp \in panel[run] :
           /\ registry' = [registry EXCEPT ![run] = {m}]
           /\ predicted' = [predicted EXCEPT ![run] =
                              {p \in @ : p[1] \notin exp.test} \cup (exp.test \X {m})]
    BY <1>9, RefitMade
  <2>6. exp.test = days
    BY <2>4, <2>5 DEF Refit, Selection
  <2> HIDE DEF days, run
  <2>7. registry'[run] = {m}
    BY <1>1, <1>4, <2>5
  <2>8. predicted'[run] = {p \in predicted[run] : p[1] \notin days} \cup (days \X {m})
    BY <1>1, <1>4, <2>5, <2>6
  <2>9. {p \in predicted[run] : p[1] \notin days} = {}
    BY <1>3 DEF days, run
  <2>10. predicted'[run] = days \X {m}
    BY <2>8, <2>9
  <2> QED
    BY <2>1, <2>2, <2>4, <2>7, <2>10
<1>10. BuildRefitPanel(c, z) => days = First(z)..BoundedYearEnd(z, plan'[c])
  BY <1>8
<1>11. RefitRegisterPredict(c, z) => days = First(z)..BoundedYearEnd(z, plan'[c])
  BY <1>9
<1>12. CASE \E d \in AsOfDates : same /\ Emit(c, d)
  BY <1>4, <1>6, <1>12
<1>13. CASE \E command \in {"panel", "matrix", "fanout", "select", "backtest"} :
              same /\ Command(c, z, command)
  <2>1. /\ plan'[c] = plan[c] /\ pc'[c][z] = pc[c][z] + 1 /\ same
        /\ pc'[c][z] > Before(c) => pc[c][z] > Before(c) + 1
    BY <1>7, <1>13
  <2>2. pc'[c][z] > Before(c) + 1 => pc'[c][z] > Before(c)
    BY <1>4, <2>1
  <2>3. pc[c][z] > Before(c) + 1 => pc[c][z] > Before(c)
    BY <1>4
  <2> QED
    BY <1>3, <2>1, <2>2, <2>3
<1>14. CASE BuildRefitPanel(c, z)
  <2>1. ~ pc'[c][z] > Before(c) + 1
    BY <1>4, <1>8, <1>14
  <2> QED
    BY <1>3, <1>8, <1>14, <2>1
<1>15. CASE RefitRegisterPredict(c, z)
  <2>1. PICK m \in registry'[run] : registry'[run] = {m} /\ predicted'[run] = days \X {m}
    BY <1>9, <1>15
  <2>2. \A p \in predicted'[run] : p[1] \in days
    BY <2>1
  <2> QED
    BY <1>9, <1>15, <2>1, <2>2
<1> QED
  BY <1>2, <1>5, <1>12, <1>13, <1>14, <1>15, OwnSteps

-----------------------------------------------------------------------------
(* The invariant.                                                          *)

LEMMA InitIsKept ==
  ASSUME Init
  PROVE  IInv
<1>1. /\ plan = [a \in Arms |-> 0] /\ pc = [a \in Arms |-> [y \in Years |-> 0]]
      /\ history = Floor
      /\ \A run \in RunIds : /\ panel[run] = {} /\ matrix[run] = {} /\ results[run] = {}
                             /\ registry[run] = {} /\ predicted[run] = {}
  BY DEF Init
<1>2. /\ panel = [r \in RunIds |-> {}] /\ matrix = panel /\ results = panel
      /\ registry = panel /\ predicted = panel
  BY DEF Init
<1>3. TypeOK
  BY <1>1, <1>2 DEF TypeOK
<1>4. PlansAreDue /\ PanelsAreTrue /\ MatricesAreTrue /\ ResultsAreTrue /\ ModelsAreTrue /\ NoLookAhead
  BY <1>1 DEF PlansAreDue, PanelsAreTrue, MatricesAreTrue, ResultsAreTrue, ModelsAreTrue, NoLookAhead
<1>5. \A a \in Arms, y \in Years : RefitRunId(a, y) \in RunIds /\ Before(a) \in Nat
  BY RunsApart, CommandPlaces
<1>6. OwnWindow /\ OwnDays
  BY <1>1, <1>5 DEF OwnWindow, OwnDays
<1> QED
  BY <1>3, <1>4, <1>6 DEF IInv

LEMMA StepKeeps ==
  ASSUME IInv, [Next]_vars
  PROVE  IInv'
<1>1. TypeOK'
  BY PlansKept, CountersKept, PanelKept, MatrixKept, ResultsKept, ModelsKept DEF TypeOK
<1> QED
  BY <1>1, PlansKept, PanelKept, MatrixKept, ResultsKept, ModelsKept, OwnDaysKept DEF IInv

LEMMA Invariance == Spec => []IInv
<1>1. Init => IInv
  BY InitIsKept
<1>2. IInv /\ [Next]_vars => IInv'
  BY StepKeeps
<1> QED
  BY <1>1, <1>2, PTL DEF Spec

\* The tables hold experiments, rows, outcomes and models whatever arms there are.
THEOREM TypeCorrect == Spec => []TypeOK
<1>1. IInv => TypeOK
  BY DEF IInv
<1> QED
  BY <1>1, Invariance, PTL

\* Whatever is planned, run and run again: no prediction rests on a label that was not
\* known before its day, and no fold trains on labels of its evaluation.
THEOREM NothingKnownEarly == Spec => []NoLookAhead
<1>1. IInv => NoLookAhead
  BY DEF IInv
<1> QED
  BY <1>1, Invariance, PTL

\* A refit that has run stays fitted on its arm's own window, if only arms of the same
\* window share its run id.
THEOREM ArmsStayApart == Spec => []ArmsKeepApart
<1>1. ASSUME IInv
      PROVE  ArmsKeepApart
  <2>1. SUFFICES ASSUME NEW a \in Arms, NEW y \in Years, Refitted(a, y),
                        \A b \in Rivals(a) : b.trueFive = a.trueFive,
                        NEW m \in registry[RefitRunId(a, y)]
                 PROVE  m.trained = Refit(a, y, plan[a]).train
    BY DEF ArmsKeepApart
  <2>2. plan[a] \in AsOfDates /\ Year(plan[a]) >= EndYear
    BY <1>1, <2>1 DEF IInv, TypeOK, PlansAreDue, Refitted
  <2>3. Refit(a, y, plan[a]).train = RefitStart(a, y)..LabelSafeEnd(y - 1, a.horizon)
    BY <2>2, RefitWindow
  <2>4. m.trained = RefitStart(a, y)..LabelSafeEnd(y - 1, a.horizon)
    BY <1>1, <2>1 DEF IInv, OwnWindow
  <2> QED
    BY <2>3, <2>4
<1> QED
  BY <1>1, Invariance, PTL

\* A day of the plan is a day of exactly one of its years.
LEMMA OneYear ==
  ASSUME NEW asOf \in AsOfDates, Year(asOf) >= EndYear,
         NEW d \in First(StartYear)..BoundedYearEnd(EndYear, asOf)
  PROVE  /\ Year(d) \in Years
         /\ \A y \in Years : d \in First(y)..BoundedYearEnd(y, asOf) <=> y = Year(d)
<1>1. /\ StartYear \in Years /\ EndYear \in Years /\ StartYear \in Int /\ EndYear \in Int
      /\ StartYear > 6
  BY PlanAssumption DEF Years
<1>2. \A y \in Years :
        /\ y \in Int /\ y > 6 /\ y <= EndYear
        /\ BoundedYearEnd(y, asOf) \in Int /\ BoundedYearEnd(y, asOf) <= Last(y)
        /\ First(y) \in Int /\ Last(y) \in Int /\ Last(y - 1) \in Int
        /\ First(y) = Last(y - 1) + 1
  <2>1. ASSUME NEW y \in Years
        PROVE  /\ y \in Int /\ y > 6 /\ y <= EndYear
               /\ BoundedYearEnd(y, asOf) \in Int /\ BoundedYearEnd(y, asOf) <= Last(y)
               /\ First(y) \in Int /\ Last(y) \in Int /\ Last(y - 1) \in Int
               /\ First(y) = Last(y - 1) + 1
    <3>1. y \in Int /\ y > 6 /\ y <= EndYear /\ y - 1 \in Int
      BY PlanAssumption DEF Years
    <3>2. BoundedYearEnd(y, asOf) \in Int /\ BoundedYearEnd(y, asOf) <= Last(y)
      BY TestWindow
    <3>3. /\ First(y) \in Int /\ Last(y) \in Int /\ First(y) = Last(y - 1) + 1
          /\ Last(y - 1) \in Int
      BY <3>1, YearEnds
    <3> QED
      BY <3>1, <3>2, <3>3
  <2> QED
    BY <2>1
<1>3. d \in Int /\ Last(StartYear - 1) < d /\ d <= Last(EndYear) /\ d <= BoundedYearEnd(EndYear, asOf)
  BY <1>1, <1>2
<1>4. d \in Nat /\ d > 0
  <2>1. Last(0) = 0
    BY PlanAssumption DEF Last
  <2>2. Last(0) <= Last(StartYear - 1)
    BY <1>1, LaterYears
  <2> QED
    BY <1>1, <1>2, <1>3, <2>1, <2>2
<1>5. Year(d) \in Int /\ Last(Year(d) - 1) < d /\ d <= Last(Year(d))
  BY <1>4, YearOf
<1>6. Last(Year(d) - 1) \in Int /\ Last(Year(d)) \in Int
  BY <1>5, YearEnds
<1>7. ~ EndYear <= Year(d) - 1
  BY <1>1, <1>2, <1>3, <1>5, <1>6, LaterYears
<1>8. ~ Year(d) <= StartYear - 1
  BY <1>1, <1>2, <1>3, <1>5, <1>6, LaterYears
<1>9. Year(d) \in Years
  BY <1>1, <1>5, <1>7, <1>8 DEF Years
<1>10. d \in First(Year(d))..BoundedYearEnd(Year(d), asOf)
  <2>1. First(Year(d)) <= d
    BY <1>2, <1>3, <1>5, <1>9
  <2>2. d <= BoundedYearEnd(Year(d), asOf)
    <3>1. asOf \in Int /\ asOf > 0 /\ asOf \in Nat
      BY PlanAssumption
    <3>2. CASE Year(d) = Year(asOf)
      <4>1. Year(d) = EndYear
        BY <1>1, <1>5, <1>7, <3>2
      <4> QED
        BY <1>3, <4>1
    <3>3. CASE Year(d) # Year(asOf)
      BY <1>5, <3>3 DEF BoundedYearEnd
    <3> QED
      BY <3>2, <3>3
  <2> QED
    BY <1>2, <1>3, <1>9, <2>1, <2>2
<1>11. ASSUME NEW y \in Years, d \in First(y)..BoundedYearEnd(y, asOf)
       PROVE  y = Year(d)
  <2>1. Last(y - 1) < d /\ d <= Last(y) /\ y \in Int
    BY <1>2, <1>3, <1>11
  <2> QED
    BY <1>4, <2>1, YearIs
<1> QED
  BY <1>9, <1>10, <1>11

\* When its commands have run, an arm that shares its run ids with no other has each
\* day of its years in exactly one prediction run, once, by the model registered there.
THEOREM EveryDayIsPredictedOnce == Spec => []EveryDayOnce
<1>1. ASSUME IInv
      PROVE  EveryDayOnce
  <2>1. SUFFICES ASSUME NEW a \in Arms, Rivals(a) = {}, \A y \in Years : Refitted(a, y),
                        NEW d \in First(StartYear)..BoundedYearEnd(EndYear, plan[a])
                 PROVE  LET found == {f \in Years \X UNION {predicted[RefitRunId(a, y)] : y \in Years} :
                                        f[2] \in predicted[RefitRunId(a, f[1])] /\ f[2][1] = d}
                        IN /\ Cardinality(found) = 1
                           /\ \A f \in found : f[2][2] \in registry[RefitRunId(a, f[1])]
    BY DEF EveryDayOnce
  <2>2. StartYear \in Years
    BY PlanAssumption DEF Years
  <2>3. plan[a] \in AsOfDates /\ Year(plan[a]) >= EndYear
    BY <1>1, <2>1, <2>2 DEF IInv, TypeOK, PlansAreDue, Refitted
  <2>4. /\ Year(d) \in Years
        /\ \A y \in Years : d \in First(y)..BoundedYearEnd(y, plan[a]) <=> y = Year(d)
    BY <2>3, OneYear
  <2>5. \A y \in Years : \E m \in registry[RefitRunId(a, y)] :
          predicted[RefitRunId(a, y)] = (First(y)..BoundedYearEnd(y, plan[a])) \X {m}
    <3>1. ASSUME NEW y \in Years
          PROVE  pc[a][y] > Before(a) + 1
      <4>1. pc[a][y] \in Nat /\ Before(a) \in Nat /\ a.yearly \in BOOLEAN
        BY <1>1, CommandPlaces, PlanAssumption DEF IInv, TypeOK
      <4>2. pc[a][y] >= Len(Commands(a)) - (IF a.yearly THEN 1 ELSE 0)
        BY <2>1 DEF Refitted
      <4>3. Len(Commands(a)) = Before(a) + 2 + (IF a.yearly THEN 1 ELSE 0)
        BY CommandPlaces
      <4> QED
        BY <4>1, <4>2, <4>3
    <3> QED
      BY <1>1, <2>1, <3>1 DEF IInv, OwnDays
  <2>6. PICK m \in registry[RefitRunId(a, Year(d))] :
          predicted[RefitRunId(a, Year(d))] = (First(Year(d))..BoundedYearEnd(Year(d), plan[a])) \X {m}
    BY <2>4, <2>5
  <2> DEFINE found == {f \in Years \X UNION {predicted[RefitRunId(a, y)] : y \in Years} :
                         f[2] \in predicted[RefitRunId(a, f[1])] /\ f[2][1] = d}
             one == <<Year(d), <<d, m>>>>
  <2>7. one \in found
    BY <2>4, <2>6
  <2>8. ASSUME NEW f \in found
        PROVE  f = one
    <3>1. /\ f[1] \in Years /\ f[2] \in predicted[RefitRunId(a, f[1])] /\ f[2][1] = d
          /\ f = <<f[1], f[2]>>
      OBVIOUS
    <3>2. d \in First(f[1])..BoundedYearEnd(f[1], plan[a])
      BY <2>5, <3>1
    <3>3. f[1] = Year(d)
      BY <2>4, <3>1, <3>2
    <3>4. f[2] = <<d, m>>
      BY <2>6, <3>1, <3>3
    <3> QED
      BY <3>1, <3>3, <3>4
  <2>9. one[2][2] \in registry[RefitRunId(a, one[1])]
    BY <2>6
  <2> HIDE DEF found, one
  <2>10. found = {one}
    BY <2>7, <2>8
  <2>11. Cardinality(found) = 1
    BY <2>10, FS_Singleton
  <2> QED
    BY <2>8, <2>9, <2>11 DEF found
<1> QED
  BY <1>1, Invariance, PTL

-----------------------------------------------------------------------------
(* The backtest-report jobs.                                               *)

\* A step of job j: the others stay, and it stays the job of its backtest.
Moved(j) ==
  /\ jobs' \in Seq(Jobs) /\ DOMAIN jobs' = DOMAIN jobs
  /\ \A k \in DOMAIN jobs \ {j} : jobs'[k] = jobs[k]
  /\ jobs'[j].backtest = jobs[j].backtest /\ jobs'[j].force = jobs[j].force
  /\ jobs'[j].full = jobs[j].full

\* Rows of the right type in one of the tables keep the tables' types.
LEMMA TablesStay ==
  ASSUME ReportTypeOK, NEW b \in Backtests, NEW new \in SUBSET Contents
  PROVE LET Typed == [Backtests -> [target : SUBSET Contents, nav : SUBSET Contents,
                                    summary : SUBSET Contents,
                                    uris : SUBSET {"report", "diagnosis"}]]
        IN /\ [out EXCEPT ![b].target = new] \in Typed
           /\ [out EXCEPT ![b].nav = new] \in Typed
           /\ [out EXCEPT ![b].uris = {}, ![b].summary = new] \in Typed
<1> DEFINE R == [target : SUBSET Contents, nav : SUBSET Contents,
                 summary : SUBSET Contents, uris : SUBSET {"report", "diagnosis"}]
<1>1. out \in [Backtests -> R]
  BY DEF ReportTypeOK
<1>2. PICK old \in R : old = out[b]
  BY <1>1
<1>3. /\ [old EXCEPT !.target = new] \in R /\ [old EXCEPT !.nav = new] \in R
      /\ [old EXCEPT !.uris = {}, !.summary = new] \in R
  OBVIOUS
<1> HIDE DEF R
<1>4. \A r \in R : [out EXCEPT ![b] = r] \in [Backtests -> R]
  BY <1>1
<1>5. [out EXCEPT ![b].target = new] \in [Backtests -> R]
  BY <1>2, <1>3, <1>4
<1>6. [out EXCEPT ![b].nav = new] \in [Backtests -> R]
  BY <1>2, <1>3, <1>4
<1>7. [out EXCEPT ![b].uris = {}, ![b].summary = new] \in [Backtests -> R]
  <2>1. [out EXCEPT ![b].uris = {}, ![b].summary = new]
          = [out EXCEPT ![b] = [old EXCEPT !.uris = {}, !.summary = new]]
    BY <1>1, <1>2
  <2> QED BY <1>3, <1>4, <2>1
<1> QED BY <1>5, <1>6, <1>7 DEF R

LEMMA JobIs ==
  ASSUME jobs \in Seq(Jobs), NEW j \in DOMAIN jobs
  PROVE /\ jobs[j] \in Jobs /\ j \in Nat /\ j # 0 /\ jobs[j].backtest \in Backtests
        /\ jobs[j].force \in BOOLEAN /\ jobs[j].full \in BOOLEAN /\ jobs[j].at \in Steps
        /\ jobs[j].read \in SUBSET Contents
<1>1. jobs[j] \in Jobs /\ j \in Nat /\ j # 0
  OBVIOUS
<1> QED
  BY <1>1 DEF Jobs

LEMMA JobBecomes ==
  ASSUME jobs \in Seq(Jobs), NEW j \in DOMAIN jobs, NEW new \in Jobs,
         jobs' = [jobs EXCEPT ![j] = new], new.backtest = jobs[j].backtest,
         new.force = jobs[j].force, new.full = jobs[j].full
  PROVE Moved(j) /\ jobs'[j] = new
<1>1. DOMAIN jobs = 1 .. Len(jobs) /\ jobs' \in Seq(Jobs) /\ jobs'[j] = new
      /\ DOMAIN jobs' = DOMAIN jobs /\ \A k \in DOMAIN jobs \ {j} : jobs'[k] = jobs[k]
  OBVIOUS
<1> QED
  BY <1>1 DEF Moved

LEMMA ToIs ==
  ASSUME jobs \in Seq(Jobs), NEW j \in DOMAIN jobs, NEW at \in Steps, To(j, at)
  PROVE /\ Moved(j) /\ jobs'[j].at = at
        /\ at \notin Terminal => /\ jobs'[j].pre = jobs[j].pre /\ jobs'[j].read = jobs[j].read
                               /\ jobs'[j].post = jobs[j].post
<1> DEFINE new == IF at \in Terminal THEN [jobs[j] EXCEPT !.at = at, !.pre = <<>>,
                                                       !.read = {}, !.post = <<>>]
                  ELSE [jobs[j] EXCEPT !.at = at]
<1>1. jobs' = [jobs EXCEPT ![j] = new]
  BY DEF To
<1>2. jobs[j] \in Jobs
  BY JobIs
<1>3. /\ new \in Jobs /\ new.at = at /\ new.backtest = jobs[j].backtest
      /\ new.force = jobs[j].force /\ new.full = jobs[j].full
      /\ at \notin Terminal => /\ new.pre = jobs[j].pre /\ new.read = jobs[j].read
                             /\ new.post = jobs[j].post
  <2>1. CASE at \in Terminal
    BY <1>2, <2>1 DEF Jobs
  <2>2. CASE at \notin Terminal
    BY <1>2, <2>2 DEF Jobs
  <2> QED BY <2>1, <2>2
<1> HIDE DEF new
<1> QED
  BY <1>1, <1>3, JobBecomes

\* What a step of job j does to the tables.
Rest(j) ==
  /\ source' = source /\ over' = over /\ rewritten' = rewritten
  /\ \A b \in Backtests \ {jobs[j].backtest} : out'[b] = out[b]
  /\ LET b == jobs[j].backtest IN
       /\ out'[b].target \in {out[b].target, {Content(j, source)}}
       /\ \/ out'[b].nav = out[b].nav
          \/ out'[b].nav = {}
          \/ jobs[j].at = "simulate" /\ jobs'[j].at = "metrics"
             /\ \E added : out'[b].nav = out[b].nav \cup added /\ \A c \in added : c.job = j
  /\ jobs[j].at \notin Terminal
  /\ jobs[j].at \notin {"targets", "clear", "simulate"} =>
       jobs'[j].at \notin {"targets", "clear", "simulate"}

LEMMA WrittenStays ==
  ASSUME ReportTypeOK, NEW j \in DOMAIN jobs, Moved(j), Rest(j), NEW c, Written(c)
  PROVE Written(c)'
  BY DEF Written, Moved, Rest

\* A NAV that is gone stays gone.
LEMMA GoneStays ==
  ASSUME ReportTypeOK, NEW j \in DOMAIN jobs, Moved(j), Rest(j), NEW b \in Backtests,
         NEW nav, \A c \in nav : Written(c)
  PROVE /\ Gone(b, nav) => Gone(b, nav)'
        /\ out[b].nav = nav => out'[b].nav = nav \/ Gone(b, nav)'
<1>1. CASE out'[b].nav = out[b].nav
  BY <1>1 DEF Gone
<1>2. CASE out'[b].nav = {}
  BY <1>2 DEF Gone
<1>3. CASE /\ b = jobs[j].backtest /\ jobs[j].at = "simulate"
           /\ \E added : out'[b].nav = out[b].nav \cup added /\ \A c \in added : c.job = j
  <2>1. PICK added : out'[b].nav = out[b].nav \cup added /\ \A c \in added : c.job = j
    BY <1>3
  <2>2. added \cap nav = {}
    <3>1. j # 0 /\ j \in DOMAIN jobs
      BY JobIs DEF ReportTypeOK
    <3>2. \A c \in nav : c.job # j
      BY <1>3, <3>1 DEF Written
    <3> QED BY <2>1, <3>2
  <2> QED
    BY <2>1, <2>2 DEF Gone
<1> QED
  BY <1>1, <1>2, <1>3 DEF Rest

LEMMA OtherGuarded ==
  ASSUME ReportTypeOK, NEW j \in DOMAIN jobs, Moved(j), Rest(j), NEW k \in DOMAIN jobs \ {j},
         Guarded(k)
  PROVE Guarded(k)'
<1>1. jobs'[k] = jobs[k] /\ jobs[k].backtest \in Backtests
  BY JobIs DEF Moved, ReportTypeOK
<1>2. CASE jobs[k].at \in {"analyse", "hash"}
  <2>1. /\ jobs[k].pre \in Hashes /\ jobs[k].pre[1] # {} /\ \A c \in jobs[k].pre[1] : Written(c)
        /\ out[jobs[k].backtest].nav = jobs[k].pre[1] \/ Gone(jobs[k].backtest, jobs[k].pre[1])
        /\ jobs[k].at = "hash" =>
             jobs[k].read = jobs[k].pre[1] \/ Gone(jobs[k].backtest, jobs[k].pre[1])
    BY <1>2 DEF Guarded, Tables
  <2>2. \A c \in jobs[k].pre[1] : Written(c)'
    BY <2>1, WrittenStays
  <2>3. /\ Gone(jobs[k].backtest, jobs[k].pre[1]) => Gone(jobs[k].backtest, jobs[k].pre[1])'
        /\ out[jobs[k].backtest].nav = jobs[k].pre[1] =>
             \/ out'[jobs[k].backtest].nav = jobs[k].pre[1]
             \/ Gone(jobs[k].backtest, jobs[k].pre[1])'
    <3>1. PICK b \in Backtests : b = jobs[k].backtest
      BY <1>1
    <3>n. PICK nav : nav = jobs[k].pre[1]
      OBVIOUS
    <3>2. /\ Gone(b, nav) => Gone(b, nav)'
          /\ out[b].nav = nav => out'[b].nav = nav \/ Gone(b, nav)'
      BY <2>1, <3>1, <3>n, GoneStays
    <3> QED BY <1>1, <3>1, <3>n, <3>2 DEF Gone
  <2> QED
    BY <1>1, <1>2, <2>1, <2>2, <2>3 DEF Guarded, Tables
<1>3. CASE jobs[k].at \notin {"analyse", "hash"}
  BY <1>1, <1>3 DEF Guarded
<1> QED BY <1>2, <1>3

LEMMA OwnIs ==
  ASSUME ReportTypeOK, Advances, Owns, NEW i \in DOMAIN over.own
  PROVE /\ over.own[i] \in DOMAIN jobs /\ jobs[over.own[i]].backtest = TailRiskArms[i]
        /\ i \in DOMAIN TailRiskArms /\ ~jobs[over.own[i]].full
<1>1. over.own \in Seq(Nat)
  BY DEF ReportTypeOK, NotStarted, Programs
<1>2. Len(over.own) <= Len(TailRiskArms) /\ Len(TailRiskArms) \in Nat
      /\ DOMAIN TailRiskArms = 1 .. Len(TailRiskArms)
  BY ArmsAssumption DEF Advances
<1>3. i \in DOMAIN TailRiskArms
  BY <1>1, <1>2
<1> QED BY <1>3 DEF Owns

\* A step of a job keeps the invariant, if it keeps what the invariant says of
\* the job and of its backtest.
LEMMA JobKeeps ==
  ASSUME ReportInv, NEW j \in DOMAIN jobs, Moved(j), Rest(j), ReportTypeOK', Guarded(j)',
         \A b \in {jobs[j].backtest} : InOrder(b)' /\ NavWritten(b)', AnalysedIsCurrent',
         Undisturbed => \A i \in DOMAIN over.own : over.own[i] = j => OwnOutput(i)'
  PROVE ReportInv'
<1> DEFINE bt == jobs[j].backtest
<1>0. ReportTypeOK /\ jobs \in Seq(Jobs) /\ bt \in Backtests
  BY JobIs DEF ReportInv, ReportTypeOK
<1>1. \A b \in Backtests : InOrder(b)' /\ NavWritten(b)'
  <2> SUFFICES ASSUME NEW b \in Backtests, b # bt PROVE InOrder(b)' /\ NavWritten(b)'
    OBVIOUS
  <2>1. out'[b] = out[b] /\ InOrder(b) /\ NavWritten(b)
    BY DEF Rest, ReportInv
  <2>2. \A c \in out[b].nav : Written(c)'
    BY <1>0, <2>1, WrittenStays DEF NavWritten
  <2> QED BY <2>1, <2>2 DEF InOrder, NavWritten
<1>2. \A k \in DOMAIN jobs' : Guarded(k)'
  BY <1>0, OtherGuarded DEF ReportInv, Moved
<1>3. /\ over' = over /\ source' = source /\ rewritten' = rewritten /\ DOMAIN jobs' = DOMAIN jobs
      /\ \A k \in DOMAIN jobs \ {j} : jobs'[k] = jobs[k]
      /\ jobs'[j].backtest = bt /\ jobs'[j].full = jobs[j].full /\ jobs[j].at \notin Terminal
  BY DEF Rest, Moved
<1>4. Advances'
  BY <1>3 DEF ReportInv, Advances
<1>5. Owns' /\ OnlyOwn'
  <2>1. \A k \in DOMAIN jobs : jobs'[k].backtest = jobs[k].backtest /\ jobs'[k].full = jobs[k].full
          /\ (jobs'[k].at \notin Terminal => jobs[k].at \notin Terminal)
    BY <1>3
  <2>2. Owns'
    BY <1>3, <2>1 DEF ReportInv, Owns
  <2>3. OnlyOwn'
    BY <1>3, <2>1 DEF ReportInv, OnlyOwn
  <2> QED BY <2>2, <2>3
<1>6. Waited'
  <2>1. \A i : Collected(i)' = Collected(i)
    BY <1>3 DEF Collected
  <2>2. \A i \in DOMAIN over.own : over.own[i] \in DOMAIN jobs
    BY DEF ReportInv, Owns
  <2> QED
    BY <1>3, <2>1, <2>2 DEF ReportInv, Waited, Terminal
<1>7. OverlayTrue'
  <2> SUFFICES ASSUME Undisturbed
               PROVE /\ \A i \in DOMAIN over.own : OwnOutput(i)'
                     /\ over.at = "succeeded" /\ over.wait => SourcesOf(out'[Base].target) = {source}
    BY <1>3 DEF OverlayTrue, Undisturbed, SourcesOf
  <2>1. ASSUME NEW i \in DOMAIN over.own, over.own[i] # j PROVE OwnOutput(i)'
    <3>1. over.own[i] \in DOMAIN jobs /\ jobs[over.own[i]].backtest = TailRiskArms[i]
          /\ i \in DOMAIN TailRiskArms
      BY <1>0, OwnIs DEF ReportInv
    <3>2. TailRiskArms[i] # bt
      <4> SUFFICES ASSUME TailRiskArms[i] = bt PROVE FALSE
        OBVIOUS
      <4>1. bt \in ArmNames
        BY <3>1 DEF ArmNames
      <4>2. PICK m \in DOMAIN over.own : over.own[m] = j
        BY <1>3, <4>1 DEF ReportInv, OnlyOwn, Undisturbed
      <4>3. TailRiskArms[m] = bt /\ m \in DOMAIN TailRiskArms
        BY <1>0, <4>2, OwnIs DEF ReportInv
      <4> QED BY <2>1, <3>1, <4>2, <4>3, ArmsAssumption
    <3>3. out'[TailRiskArms[i]] = out[TailRiskArms[i]] /\ jobs'[over.own[i]] = jobs[over.own[i]]
      BY <1>3, <2>1, <3>1, <3>2 DEF Rest, Backtests, ArmNames
    <3>4. OwnOutput(i)
      BY DEF ReportInv, OverlayTrue
    <3> QED
      BY <1>3, <3>3, <3>4 DEF OwnOutput
  <2>2. over.at = "succeeded" /\ over.wait => SourcesOf(out'[Base].target) = {source}
    <3>1. over.at = "succeeded" /\ over.wait => SourcesOf(out[Base].target) = {source}
      BY DEF ReportInv, OverlayTrue
    <3>2. SourcesOf({Content(j, source)}) = {source}
      BY DEF SourcesOf, Content
    <3>3. out'[Base].target \in {out[Base].target, {Content(j, source)}}
      BY DEF Rest, Backtests
    <3> QED BY <3>1, <3>2, <3>3
  <2> QED BY <2>1, <2>2
<1> QED
  BY <1>1, <1>2, <1>4, <1>5, <1>6, <1>7 DEF ReportInv

LEMMA TablesAre ==
  ASSUME ReportInv, NEW j \in DOMAIN jobs
  PROVE /\ ReportTypeOK /\ Guarded(j) /\ jobs \in Seq(Jobs) /\ jobs[j] \in Jobs
        /\ jobs[j].backtest \in Backtests /\ jobs[j].force \in BOOLEAN /\ jobs[j].full \in BOOLEAN
        /\ jobs[j].at \in Steps /\ jobs[j].read \in SUBSET Contents /\ j \in Nat /\ source \in Nat
        /\ out[jobs[j].backtest].target \in SUBSET Contents
        /\ out[jobs[j].backtest].nav \in SUBSET Contents
        /\ out[jobs[j].backtest].summary \in SUBSET Contents
        /\ out[jobs[j].backtest].uris \in SUBSET {"report", "diagnosis"}
        /\ InOrder(jobs[j].backtest) /\ NavWritten(jobs[j].backtest) /\ AnalysedIsCurrent
<1>1. ReportTypeOK /\ Guarded(j) /\ jobs \in Seq(Jobs) /\ AnalysedIsCurrent
  BY DEF ReportInv, ReportTypeOK
<1>2. /\ jobs[j] \in Jobs /\ j \in Nat /\ jobs[j].backtest \in Backtests
      /\ jobs[j].force \in BOOLEAN /\ jobs[j].full \in BOOLEAN /\ jobs[j].at \in Steps
      /\ jobs[j].read \in SUBSET Contents
  BY <1>1, JobIs
<1> QED
  BY <1>1, <1>2 DEF ReportInv, ReportTypeOK

\* An execution of the overlay program: its backtest is an arm, and it ends before the QA.
LEMMA OwnJob ==
  ASSUME ReportInv, Undisturbed, NEW i \in DOMAIN over.own
  PROVE /\ over.own[i] \in DOMAIN jobs /\ jobs[over.own[i]].backtest = TailRiskArms[i]
        /\ OwnOutput(i) /\ ~jobs[over.own[i]].full
        /\ jobs[over.own[i]].at \notin {"qa", "diagnose", "guard", "analyse", "hash", "tail_qa"}
<1>1. over.own[i] \in DOMAIN jobs /\ jobs[over.own[i]].backtest = TailRiskArms[i]
      /\ ~jobs[over.own[i]].full
  BY OwnIs DEF ReportInv
<1>2. Guarded(over.own[i]) /\ OwnOutput(i)
  BY <1>1 DEF ReportInv, OverlayTrue
<1> QED
  BY <1>1, <1>2 DEF Guarded

\* A step that leaves targets, NAV and summary alone.
LEMMA LookOn ==
  ASSUME ReportInv, NEW j \in DOMAIN jobs, Moved(j), ReportTypeOK', Guarded(j)', AnalysedIsCurrent',
         source' = source, over' = over, rewritten' = rewritten,
         \A b \in Backtests : /\ b = jobs[j].backtest \/ out'[b] = out[b]
                             /\ out'[b].target = out[b].target /\ out'[b].nav = out[b].nav
                             /\ out'[b].summary = out[b].summary,
         jobs[j].at \notin Terminal,
         jobs'[j].at \notin {"targets", "clear", "simulate", "metrics"},
         jobs'[j].at \in {"report", "rendered", "done"} =>
            jobs[j].at \in {"report", "rendered", "qa", "diagnose", "guard", "analyse", "hash", "tail_qa"}
  PROVE ReportInv'
<1>1. Rest(j)
  BY TablesAre DEF Rest
<1>2. \A b \in {jobs[j].backtest} : InOrder(b)' /\ NavWritten(b)'
  <2> SUFFICES ASSUME NEW b \in {jobs[j].backtest} PROVE InOrder(b)' /\ NavWritten(b)'
    OBVIOUS
  <2>1. ReportTypeOK /\ b \in Backtests /\ InOrder(b) /\ NavWritten(b)
    BY TablesAre
  <2>2. \A c \in out[b].nav : Written(c)'
    BY <1>1, <2>1, WrittenStays DEF NavWritten
  <2> QED BY <2>1, <2>2 DEF InOrder, NavWritten
<1>3. ASSUME Undisturbed, NEW i \in DOMAIN over.own, over.own[i] = j PROVE OwnOutput(i)'
  <2>1. OwnOutput(i) /\ TailRiskArms[i] \in Backtests
        /\ jobs[j].at \notin {"qa", "diagnose", "guard", "analyse", "hash", "tail_qa"}
    BY <1>3, OwnJob, TablesAre
  <2> QED
    BY <1>3, <2>1 DEF OwnOutput
<1> QED
  BY <1>1, <1>2, <1>3, JobKeeps

LEMMA BuildTargetsKeeps ==
  ASSUME ReportInv, NEW j \in DOMAIN jobs, BuildTargets(j)
  PROVE ReportInv'
<1> USE DEF Aside, Steps, Terminal
<1> DEFINE bt == jobs[j].backtest
<1>1. /\ ReportTypeOK /\ Guarded(j) /\ jobs \in Seq(Jobs) /\ bt \in Backtests /\ j \in Nat
      /\ jobs[j].force \in BOOLEAN /\ source \in Nat /\ InOrder(bt) /\ NavWritten(bt)
      /\ AnalysedIsCurrent /\ jobs[j].at = "targets"
  BY TablesAre DEF BuildTargets
<1>2. source' = source /\ over' = over /\ rewritten' = rewritten /\ analysed' = analysed
  BY DEF BuildTargets
<1>3. CASE /\ jobs[j].force \/ Tables(j).target = {}
           /\ Write(j, "target", {Content(j, source)})
           /\ To(j, IF jobs[j].force THEN "clear" ELSE "simulate")
  <2>1. PICK at \in {"clear", "simulate"} :
           /\ at = (IF jobs[j].force THEN "clear" ELSE "simulate")
           /\ To(j, at)
    BY <1>3
  <2>2. Moved(j) /\ jobs'[j].at = at
    BY <1>1, <2>1, ToIs
  <2>n. Content(j, source) \in Contents
    BY <1>1 DEF Content, Contents
  <2>3. PICK new \in SUBSET Contents : new = {Content(j, source)}
    BY <2>n
  <2>4. /\ out' = [out EXCEPT ![bt].target = new]
        /\ out'[bt].target = new /\ out'[bt].nav = out[bt].nav /\ out'[bt].summary = out[bt].summary
        /\ \A b \in Backtests \ {bt} : out'[b] = out[b]
    BY <1>1, <1>3, <2>3 DEF Write, ReportTypeOK
  <2>5. ReportTypeOK'
    BY <1>1, <1>2, <2>2, <2>4, TablesStay DEF ReportTypeOK, Moved
  <2>6. Rest(j)
    BY <1>1, <1>2, <2>2, <2>3, <2>4 DEF Rest
  <2>7. \A b \in {jobs[j].backtest} : InOrder(b)' /\ NavWritten(b)'
    BY <1>1, <2>2, <2>3, <2>4, <2>6, WrittenStays DEF InOrder, NavWritten
  <2>8. Guarded(j)'
    BY <2>2 DEF Guarded
  <2>9. AnalysedIsCurrent'
    BY <1>1, <1>2 DEF AnalysedIsCurrent
  <2>10. ASSUME Undisturbed, NEW i \in DOMAIN over.own, over.own[i] = j PROVE OwnOutput(i)'
    <3>1. TailRiskArms[i] = bt
      BY <2>10, OwnJob
    <3>2. at = "simulate" => out[bt].nav = {} /\ out[bt].summary = {}
      BY <1>1, <1>3, <2>1 DEF InOrder, Tables
    <3> QED
      BY <1>2, <2>2, <2>3, <2>4, <2>10, <3>1, <3>2 DEF OwnOutput
  <2> QED
    BY <2>2, <2>5, <2>6, <2>7, <2>8, <2>9, <2>10, JobKeeps
<1>4. CASE To(j, "failed") /\ UNCHANGED out
  <2>1. Moved(j) /\ jobs'[j].at = "failed"
    BY <1>1, <1>4, ToIs
  <2>2. ReportTypeOK' /\ Guarded(j)' /\ AnalysedIsCurrent'
    BY <1>1, <1>2, <1>4, <2>1 DEF ReportTypeOK, Moved, Guarded, AnalysedIsCurrent
  <2> QED
    BY <1>1, <1>2, <1>4, <2>1, <2>2, LookOn
<1> QED
  BY <1>3, <1>4 DEF BuildTargets

LEMMA ClearLedgerKeeps ==
  ASSUME ReportInv, NEW j \in DOMAIN jobs, ClearLedger(j)
  PROVE ReportInv'
<1> USE DEF Aside, Steps, Terminal
<1> DEFINE bt == jobs[j].backtest
<1>1. /\ ReportTypeOK /\ Guarded(j) /\ jobs \in Seq(Jobs) /\ bt \in Backtests
      /\ AnalysedIsCurrent /\ jobs[j].at = "clear" /\ out[bt].target \in SUBSET Contents
  BY TablesAre DEF ClearLedger
<1>2. source' = source /\ over' = over /\ rewritten' = rewritten /\ analysed' = analysed
  BY DEF ClearLedger
<1>3. Moved(j) /\ jobs'[j].at = "simulate"
  BY <1>1, ToIs DEF ClearLedger
<1> DEFINE R == [target : SUBSET Contents, nav : SUBSET Contents,
                 summary : SUBSET Contents, uris : SUBSET {"report", "diagnosis"}]
<1>a. Empty \in R
  BY DEF Empty
<1>b. Empty.nav = {} /\ Empty.summary = {}
  BY DEF Empty
<1>e. PICK empty \in R : empty = Empty
  BY <1>a
<1>c. [empty EXCEPT !.target = out[bt].target] \in R
  BY <1>1
<1>d. PICK new \in R : new = [empty EXCEPT !.target = out[bt].target]
  BY <1>c
<1>f. empty.nav = {} /\ empty.summary = {}
  BY <1>b, <1>e
<1>4. /\ new = [empty EXCEPT !.target = Tables(j).target]
      /\ new.target = out[bt].target /\ new.nav = {} /\ new.summary = {}
  BY <1>1, <1>f, <1>d DEF Tables
<1>5. out' = [out EXCEPT ![bt] = new] /\ out'[bt] = new
      /\ \A b \in Backtests \ {bt} : out'[b] = out[b]
  BY <1>1, <1>e, <1>4 DEF ClearLedger, ReportTypeOK
<1>6. ReportTypeOK'
  BY <1>1, <1>2, <1>3, <1>4, <1>5 DEF ReportTypeOK, Moved
<1>7. Rest(j)
  BY <1>1, <1>2, <1>3, <1>4, <1>5 DEF Rest
<1>8. \A b \in {jobs[j].backtest} : InOrder(b)' /\ NavWritten(b)'
  BY <1>4, <1>5 DEF InOrder, NavWritten
<1>9. Guarded(j)' /\ AnalysedIsCurrent'
  BY <1>1, <1>2, <1>3 DEF Guarded, AnalysedIsCurrent
<1>10. ASSUME Undisturbed, NEW i \in DOMAIN over.own, over.own[i] = j PROVE OwnOutput(i)'
  <2>1. TailRiskArms[i] = bt /\ OwnOutput(i)
    BY <1>10, OwnJob
  <2> QED
    BY <1>1, <1>2, <1>3, <1>4, <1>5, <1>10, <2>1 DEF OwnOutput
<1> QED
  BY <1>3, <1>6, <1>7, <1>8, <1>9, <1>10, JobKeeps

LEMMA SimulateKeeps ==
  ASSUME ReportInv, NEW j \in DOMAIN jobs, Simulate(j)
  PROVE ReportInv'
<1> USE DEF Aside, Steps, Terminal
<1> DEFINE bt == jobs[j].backtest
<1>1. /\ ReportTypeOK /\ Guarded(j) /\ jobs \in Seq(Jobs) /\ bt \in Backtests /\ j \in Nat
      /\ AnalysedIsCurrent /\ jobs[j].at = "simulate" /\ out[bt].target \in SUBSET Contents
      /\ out[bt].nav \in SUBSET Contents /\ InOrder(bt) /\ NavWritten(bt)
  BY TablesAre DEF Simulate
<1>2. source' = source /\ over' = over /\ rewritten' = rewritten /\ analysed' = analysed
  BY DEF Simulate
<1>3. Moved(j) /\ jobs'[j].at = "metrics"
  BY <1>1, ToIs DEF Simulate
<1>c. \A t \in Contents : Content(j, t.source) \in Contents
  BY <1>1 DEF Content, Contents
<1>4. PICK added \in SUBSET Contents : added = {Content(j, t.source) : t \in out[bt].target}
  BY <1>1, <1>c
<1>5. /\ \A c \in added : c.job = j
      /\ out[bt].target = {} => added = {}
  BY <1>4 DEF Content
<1>6. PICK new \in SUBSET Contents : new = out[bt].nav \cup added
  BY <1>1
<1>7. /\ out' = [out EXCEPT ![bt].nav = new]
      /\ out'[bt].nav = new /\ out'[bt].target = out[bt].target
      /\ out'[bt].summary = out[bt].summary
      /\ \A b \in Backtests \ {bt} : out'[b] = out[b]
  BY <1>1, <1>4, <1>6 DEF Simulate, Write, Tables, ReportTypeOK
<1>8. ReportTypeOK'
  BY <1>1, <1>2, <1>3, <1>7, TablesStay DEF ReportTypeOK, Moved
<1>9. Rest(j)
  BY <1>1, <1>2, <1>3, <1>5, <1>6, <1>7 DEF Rest
<1>10. \A b \in {jobs[j].backtest} : InOrder(b)' /\ NavWritten(b)'
  <2>1. InOrder(bt)'
    BY <1>1, <1>3, <1>5, <1>6, <1>7 DEF InOrder, Moved
  <2>2. \A c \in new : Written(c)'
    <3>1. \A c \in out[bt].nav : Written(c)'
      BY <1>1, <1>3, <1>9, WrittenStays DEF NavWritten
    <3>2. \A c \in added : Written(c)'
      BY <1>3, <1>5 DEF Written, Moved
    <3> QED BY <1>6, <3>1, <3>2
  <2> QED
    BY <1>1, <1>5, <1>6, <1>7, <2>2 DEF InOrder, NavWritten
<1>11. Guarded(j)' /\ AnalysedIsCurrent'
  BY <1>1, <1>2, <1>3 DEF Guarded, AnalysedIsCurrent
<1>12. ASSUME Undisturbed, NEW i \in DOMAIN over.own, over.own[i] = j PROVE OwnOutput(i)'
  <2>1. TailRiskArms[i] = bt /\ OwnOutput(i)
    BY <1>12, OwnJob
  <2>2. out[bt].target = {Content(j, source)} /\ out[bt].nav = {}
    BY <1>1, <1>12, <2>1 DEF OwnOutput
  <2>3. added = {Content(j, source)}
    BY <1>4, <2>2 DEF Content
  <2>4. new = {Content(j, source)}
    BY <1>6, <2>2, <2>3
  <2> QED
    BY <1>2, <1>3, <1>7, <1>12, <2>1, <2>2, <2>4 DEF OwnOutput
<1> QED
  BY <1>3, <1>8, <1>9, <1>10, <1>11, <1>12, JobKeeps

LEMMA MetricsKeeps ==
  ASSUME ReportInv, NEW j \in DOMAIN jobs, Metrics(j)
  PROVE ReportInv'
<1> USE DEF Aside, Steps, Terminal
<1> DEFINE bt == jobs[j].backtest
<1>1. /\ ReportTypeOK /\ Guarded(j) /\ jobs \in Seq(Jobs) /\ bt \in Backtests /\ j \in Nat
      /\ AnalysedIsCurrent /\ jobs[j].at = "metrics"
      /\ out[bt].nav \in SUBSET Contents /\ InOrder(bt) /\ NavWritten(bt)
  BY TablesAre DEF Metrics
<1>2. source' = source /\ over' = over /\ rewritten' = rewritten /\ analysed' = analysed
  BY DEF Metrics
<1>3. CASE /\ out' = [out EXCEPT ![jobs[j].backtest].uris = {},
                  ![jobs[j].backtest].summary = {Content(j, n.source) : n \in Tables(j).nav}]
           /\ To(j, "report")
  <2>1. Moved(j) /\ jobs'[j].at = "report"
    BY <1>1, <1>3, ToIs
  <2>c. \A n \in Contents : Content(j, n.source) \in Contents
    BY <1>1 DEF Content, Contents
  <2>2. PICK new \in SUBSET Contents : new = {Content(j, n.source) : n \in out[bt].nav}
    BY <1>1, <2>c
  <2>3. out[bt].nav = {} => new = {}
    BY <2>2
  <2>4. /\ out' = [out EXCEPT ![bt].uris = {}, ![bt].summary = new]
        /\ out'[bt].nav = out[bt].nav /\ out'[bt].target = out[bt].target
        /\ out'[bt].summary = new
        /\ \A b \in Backtests \ {bt} : out'[b] = out[b]
    BY <1>1, <1>3, <2>2 DEF Tables, ReportTypeOK
  <2>5. ReportTypeOK'
    BY <1>1, <1>2, <2>1, <2>4, TablesStay DEF ReportTypeOK, Moved
  <2>6. Rest(j)
    BY <1>1, <1>2, <2>1, <2>4 DEF Rest
  <2>7. \A b \in {jobs[j].backtest} : InOrder(b)' /\ NavWritten(b)'
    BY <1>1, <2>1, <2>3, <2>4, <2>6, WrittenStays DEF InOrder, NavWritten
  <2>8. Guarded(j)' /\ AnalysedIsCurrent'
    BY <1>1, <1>2, <2>1 DEF Guarded, AnalysedIsCurrent
  <2>9. ASSUME Undisturbed, NEW i \in DOMAIN over.own, over.own[i] = j PROVE OwnOutput(i)'
    <3>1. TailRiskArms[i] = bt /\ OwnOutput(i)
      BY <2>9, OwnJob
    <3>2. out[bt].nav = {Content(j, source)} /\ out[bt].target = {Content(j, source)}
      BY <1>1, <2>9, <3>1 DEF OwnOutput
    <3>3. new = {Content(j, source)}
      BY <2>2, <3>2 DEF Content
    <3> QED
      BY <1>2, <2>1, <2>4, <2>9, <3>1, <3>2, <3>3 DEF OwnOutput
  <2> QED
    BY <2>1, <2>5, <2>6, <2>7, <2>8, <2>9, JobKeeps
<1>4. CASE To(j, "failed") /\ UNCHANGED out
  <2>1. Moved(j) /\ jobs'[j].at = "failed"
    BY <1>1, <1>4, ToIs
  <2>2. ReportTypeOK' /\ Guarded(j)' /\ AnalysedIsCurrent'
    BY <1>1, <1>2, <1>4, <2>1 DEF ReportTypeOK, Moved, Guarded, AnalysedIsCurrent
  <2> QED
    BY <1>1, <1>2, <1>4, <2>1, <2>2, LookOn
<1> QED
  BY <1>3, <1>4 DEF Metrics

\* What Patch does to the tables, and a step that does nothing to them.
LEMMA PatchIs ==
  ASSUME ReportInv, NEW j \in DOMAIN jobs, NEW uri \in {"report", "diagnosis"},
         out' = out \/ Patch(j, uri)
  PROVE /\ \A b \in Backtests : /\ b = jobs[j].backtest \/ out'[b] = out[b]
                               /\ out'[b].target = out[b].target /\ out'[b].nav = out[b].nav
                               /\ out'[b].summary = out[b].summary
        /\ out' \in [Backtests -> [target : SUBSET Contents, nav : SUBSET Contents,
                     summary : SUBSET Contents, uris : SUBSET {"report", "diagnosis"}]]
<1>1. /\ jobs[j].backtest \in Backtests /\ ReportTypeOK
      /\ out[jobs[j].backtest].uris \in SUBSET {"report", "diagnosis"}
  BY TablesAre
<1>2. CASE out' = out
  BY <1>1, <1>2 DEF ReportTypeOK
<1>3. CASE Write(j, "uris", Tables(j).uris \cup {uri})
  <2>1. PICK new \in SUBSET {"report", "diagnosis"} : new = out[jobs[j].backtest].uris \cup {uri}
    BY <1>1
  <2>2. out' = [out EXCEPT ![jobs[j].backtest].uris = new]
    BY <1>3, <2>1 DEF Write, Tables
  <2> QED
    BY <1>1, <2>2 DEF ReportTypeOK
<1> QED
  BY <1>2, <1>3 DEF Patch

\* A step of a job that leaves targets, NAV and summary alone, up to the hashes.
LEMMA PassesOn ==
  ASSUME ReportInv, NEW j \in DOMAIN jobs, NEW at \in Steps, To(j, at), Aside,
         NEW uri \in {"report", "diagnosis"}, out' = out \/ Patch(j, uri),
         analysed' \subseteq [read : SUBSET Contents, found : SUBSET Contents],
         AnalysedIsCurrent', jobs[j].at \notin Terminal,
         at \notin {"targets", "clear", "simulate", "metrics", "analyse", "hash", "tail_qa"},
         at \in {"qa", "diagnose", "guard"} => jobs[j].full,
         at \in {"report", "rendered", "done"} =>
            jobs[j].at \in {"report", "rendered", "qa", "diagnose", "guard", "analyse", "hash", "tail_qa"}
  PROVE ReportInv'
<1>1. ReportTypeOK /\ jobs \in Seq(Jobs)
  BY TablesAre
<1>2. Moved(j) /\ jobs'[j].at = at
  BY <1>1, ToIs
<1>3. source' = source /\ over' = over /\ rewritten' = rewritten
  BY DEF Aside
<1>4. /\ \A b \in Backtests : /\ b = jobs[j].backtest \/ out'[b] = out[b]
                              /\ out'[b].target = out[b].target /\ out'[b].nav = out[b].nav
                              /\ out'[b].summary = out[b].summary
      /\ out' \in [Backtests -> [target : SUBSET Contents, nav : SUBSET Contents,
                   summary : SUBSET Contents, uris : SUBSET {"report", "diagnosis"}]]
  BY PatchIs
<1>5. ReportTypeOK'
  BY <1>1, <1>2, <1>3, <1>4 DEF ReportTypeOK, Moved
<1>6. Guarded(j)'
  BY <1>2 DEF Guarded, Moved
<1> QED
  BY <1>2, <1>3, <1>4, <1>5, <1>6, LookOn

\* What the analyses were, if none is added.
LEMMA SameAnalysed ==
  ASSUME ReportInv, analysed' = analysed
  PROVE /\ analysed' \subseteq [read : SUBSET Contents, found : SUBSET Contents]
        /\ AnalysedIsCurrent'
  BY DEF ReportInv, ReportTypeOK, AnalysedIsCurrent

LEMMA RenderKeeps ==
  ASSUME ReportInv, NEW j \in DOMAIN jobs, Render(j)
  PROVE ReportInv'
<1>1. PICK at \in {"failed", "rendered"} : To(j, at)
  BY DEF Render
<1>2. out' = out /\ analysed' = analysed /\ Aside /\ jobs[j].at = "report"
  BY DEF Render
<1> QED
  BY <1>1, <1>2, SameAnalysed, PassesOn DEF Steps, Terminal

LEMMA PublishReportKeeps ==
  ASSUME ReportInv, NEW j \in DOMAIN jobs, PublishReport(j)
  PROVE ReportInv'
<1>1. PICK at \in {"qa", "done"} : To(j, at) /\ (at = "qa" => jobs[j].full)
  BY TablesAre DEF PublishReport
<1>2. Patch(j, "report") /\ analysed' = analysed /\ Aside /\ jobs[j].at = "rendered"
  BY DEF PublishReport
<1>3. analysed' \subseteq [read : SUBSET Contents, found : SUBSET Contents] /\ AnalysedIsCurrent'
  BY <1>2, SameAnalysed
<1> QED
  BY <1>1, <1>2, <1>3, PassesOn DEF Steps, Terminal

LEMMA CheckOutputsKeeps ==
  ASSUME ReportInv, NEW j \in DOMAIN jobs, CheckOutputs(j)
  PROVE ReportInv'
<1>1. PICK at \in {"diagnose", "failed"} : To(j, at)
  BY DEF CheckOutputs
<1>2. out' = out /\ analysed' = analysed /\ Aside /\ jobs[j].at = "qa" /\ jobs[j].full
  BY TablesAre DEF CheckOutputs, Guarded
<1> QED
  BY <1>1, <1>2, SameAnalysed, PassesOn DEF Steps, Terminal

LEMMA DiagnoseKeeps ==
  ASSUME ReportInv, NEW j \in DOMAIN jobs, Diagnose(j)
  PROVE ReportInv'
<1>1. PICK at \in {"guard", "failed"} : To(j, at)
  BY DEF Diagnose
<1>2. Patch(j, "diagnosis") /\ analysed' = analysed /\ Aside /\ jobs[j].at = "diagnose"
      /\ jobs[j].full
  BY TablesAre DEF Diagnose, Guarded
<1>3. analysed' \subseteq [read : SUBSET Contents, found : SUBSET Contents] /\ AnalysedIsCurrent'
  BY <1>2, SameAnalysed
<1> QED
  BY <1>1, <1>2, <1>3, PassesOn DEF Steps, Terminal

LEMMA StepFailsKeeps ==
  ASSUME ReportInv, NEW j \in DOMAIN jobs, StepFails(j)
  PROVE ReportInv'
<1>1. PICK at \in {"done", "failed"} :
        To(j, at) /\ (at = "done" => jobs[j].at \in {"guard", "analyse", "hash"})
  BY DEF StepFails
<1>2. out' = out /\ analysed' = analysed /\ Aside /\ jobs[j].at \notin Terminal
  BY DEF StepFails
<1> QED
  BY <1>1, <1>2, SameAnalysed, PassesOn DEF Steps, Terminal

\* The hashes are hashes.
LEMMA HashIs ==
  ASSUME ReportInv, NEW j \in DOMAIN jobs
  PROVE Hash(j) \in Hashes /\ Hash(j)[1] = Tables(j).nav
  BY TablesAre DEF Hash, Hashes, Tables

\* A step of job j, which looks on and remembers.
LEMMA Remembers ==
  ASSUME ReportInv, NEW j \in DOMAIN jobs, NEW new \in Jobs, jobs' = [jobs EXCEPT ![j] = new],
         new.backtest = jobs[j].backtest, new.force = jobs[j].force, new.full = jobs[j].full,
         new.at \in {"analyse", "hash", "tail_qa"}, jobs[j].at \in {"guard", "analyse", "hash"},
         Guarded(j)', Aside, UNCHANGED <<out, analysed>>
  PROVE ReportInv'
<1>1. ReportTypeOK /\ jobs \in Seq(Jobs)
  BY TablesAre
<1>2. Moved(j) /\ jobs'[j] = new
  BY <1>1, JobBecomes
<1>3. ReportTypeOK' /\ AnalysedIsCurrent'
  BY <1>1, <1>2, SameAnalysed DEF ReportTypeOK, Moved, Aside
<1> QED
  BY <1>2, <1>3, LookOn DEF Aside, Terminal

LEMMA HashBeforeKeeps ==
  ASSUME ReportInv, NEW j \in DOMAIN jobs, HashBefore(j)
  PROVE ReportInv'
<1>1. out' = out /\ analysed' = analysed /\ Aside /\ jobs[j].at = "guard" /\ jobs[j].full
  BY TablesAre DEF HashBefore, Guarded
<1>2. CASE To(j, "done")
  BY <1>1, <1>2, SameAnalysed, PassesOn DEF Steps, Terminal
<1>3. CASE /\ Tables(j).summary # {}
           /\ jobs' = [jobs EXCEPT ![j].at = "analyse", ![j].pre = Hash(j)]
  <2>1. jobs[j] \in Jobs /\ Hash(j) \in Hashes /\ Hash(j)[1] = Tables(j).nav
        /\ InOrder(jobs[j].backtest) /\ NavWritten(jobs[j].backtest) /\ jobs \in Seq(Jobs)
    BY HashIs, TablesAre
  <2>2. PICK h \in Hashes : h = Hash(j)
    BY <2>1
  <2>3. /\ [jobs[j] EXCEPT !.at = "analyse", !.pre = h] \in Jobs
        /\ \A new \in Jobs : new = [jobs[j] EXCEPT !.at = "analyse", !.pre = h] =>
             /\ new.backtest = jobs[j].backtest /\ new.force = jobs[j].force
             /\ new.full = jobs[j].full /\ new.at = "analyse" /\ new.pre = h
    BY <2>1 DEF Jobs, Steps
  <2>4. PICK new \in Jobs : new = [jobs[j] EXCEPT !.at = "analyse", !.pre = h]
    BY <2>3
  <2>5. jobs' = [jobs EXCEPT ![j] = new]
    BY <1>3, <2>2, <2>4
  <2>6. /\ new.backtest = jobs[j].backtest /\ new.force = jobs[j].force
        /\ new.full = jobs[j].full /\ new.at = "analyse" /\ new.pre = h
    BY <2>3, <2>4
  <2>7. Moved(j) /\ jobs'[j] = new
    BY <2>1, <2>5, <2>6, JobBecomes
  <2>8. h[1] = out[jobs[j].backtest].nav /\ h[1] # {} /\ \A c \in h[1] : Written(c)
    BY <1>3, <2>1, <2>2 DEF Tables, InOrder, NavWritten
  <2>9. \A c \in h[1] : Written(c)'
    BY <1>1, <2>6, <2>7, <2>8 DEF Written, Moved
  <2>10. Guarded(j)'
    BY <1>1, <2>6, <2>7, <2>8, <2>9 DEF Guarded, Tables
  <2> QED
    BY <1>1, <2>5, <2>6, <2>10, Remembers
<1> QED
  BY <1>2, <1>3 DEF HashBefore

LEMMA AnalyseKeeps ==
  ASSUME ReportInv, NEW j \in DOMAIN jobs, Analyse(j)
  PROVE ReportInv'
<1>1. out' = out /\ analysed' = analysed /\ Aside /\ jobs[j].at = "analyse" /\ jobs[j].full
  BY TablesAre DEF Analyse, Guarded
<1>2. jobs[j] \in Jobs /\ jobs \in Seq(Jobs) /\ Guarded(j) /\ Tables(j).nav \in SUBSET Contents
  BY TablesAre DEF Tables
<1>3. PICK nav \in SUBSET Contents : nav = Tables(j).nav
  BY <1>2
<1>4. /\ [jobs[j] EXCEPT !.at = "hash", !.read = nav] \in Jobs
      /\ \A new \in Jobs : new = [jobs[j] EXCEPT !.at = "hash", !.read = nav] =>
           /\ new.backtest = jobs[j].backtest /\ new.force = jobs[j].force
           /\ new.full = jobs[j].full /\ new.at = "hash" /\ new.read = nav /\ new.pre = jobs[j].pre
  BY <1>2 DEF Jobs, Steps
<1>5. PICK new \in Jobs : new = [jobs[j] EXCEPT !.at = "hash", !.read = nav]
  BY <1>4
<1>6. jobs' = [jobs EXCEPT ![j] = new]
  BY <1>3, <1>5 DEF Analyse
<1>7. /\ new.backtest = jobs[j].backtest /\ new.force = jobs[j].force
      /\ new.full = jobs[j].full /\ new.at = "hash" /\ new.read = nav /\ new.pre = jobs[j].pre
  BY <1>4, <1>5
<1>8. Moved(j) /\ jobs'[j] = new
  BY <1>2, <1>6, <1>7, JobBecomes
<1>9. /\ jobs[j].pre \in Hashes /\ jobs[j].pre[1] # {} /\ \A c \in jobs[j].pre[1] : Written(c)
      /\ nav = jobs[j].pre[1] \/ Gone(jobs[j].backtest, jobs[j].pre[1])
  BY <1>1, <1>2, <1>3 DEF Guarded
<1>10. \A c \in jobs[j].pre[1] : Written(c)'
  BY <1>1, <1>7, <1>8, <1>9 DEF Written, Moved
<1>11. Guarded(j)'
  BY <1>1, <1>3, <1>7, <1>8, <1>9, <1>10 DEF Guarded, Tables, Gone
<1> QED
  BY <1>1, <1>6, <1>7, <1>11, Remembers

LEMMA HashAfterKeeps ==
  ASSUME ReportInv, NEW j \in DOMAIN jobs, HashAfter(j)
  PROVE ReportInv'
<1>1. out' = out /\ analysed' = analysed /\ Aside /\ jobs[j].at = "hash" /\ jobs[j].full
  BY TablesAre DEF HashAfter, Guarded
<1>2. CASE To(j, "failed")
  BY <1>1, <1>2, SameAnalysed, PassesOn DEF Steps, Terminal
<1>3. CASE /\ Hash(j) = jobs[j].pre
           /\ jobs' = [jobs EXCEPT ![j].at = "tail_qa", ![j].post = Hash(j)]
  <2>1. jobs[j] \in Jobs /\ Hash(j) \in Hashes /\ Hash(j)[1] = Tables(j).nav
        /\ Guarded(j) /\ jobs \in Seq(Jobs)
    BY HashIs, TablesAre
  <2>2. PICK h \in Hashes : h = Hash(j)
    BY <2>1
  <2>3. /\ [jobs[j] EXCEPT !.at = "tail_qa", !.post = h] \in Jobs
        /\ \A new \in Jobs : new = [jobs[j] EXCEPT !.at = "tail_qa", !.post = h] =>
             /\ new.backtest = jobs[j].backtest /\ new.force = jobs[j].force
             /\ new.full = jobs[j].full /\ new.at = "tail_qa" /\ new.post = h
             /\ new.read = jobs[j].read
    BY <2>1 DEF Jobs, Steps
  <2>4. PICK new \in Jobs : new = [jobs[j] EXCEPT !.at = "tail_qa", !.post = h]
    BY <2>3
  <2>5. jobs' = [jobs EXCEPT ![j] = new]
    BY <1>3, <2>2, <2>4
  <2>6. /\ new.backtest = jobs[j].backtest /\ new.force = jobs[j].force
        /\ new.full = jobs[j].full /\ new.at = "tail_qa" /\ new.post = h /\ new.read = jobs[j].read
    BY <2>3, <2>4
  <2>7. Moved(j) /\ jobs'[j] = new
    BY <2>1, <2>5, <2>6, JobBecomes
  <2>8. PICK nav : nav = h[1]
    OBVIOUS
  <2>9. nav = Tables(j).nav /\ nav # {}
        /\ (jobs[j].read = nav \/ Gone(jobs[j].backtest, nav))
    BY <1>1, <1>3, <2>1, <2>2, <2>8 DEF Guarded
  <2>10. jobs[j].read = nav
    BY <2>9 DEF Gone, Tables
  <2>11. Guarded(j)'
    BY <1>1, <2>6, <2>7, <2>8, <2>10 DEF Guarded
  <2> QED
    BY <1>1, <2>5, <2>6, <2>11, Remembers
<1> QED
  BY <1>2, <1>3 DEF HashAfter

LEMMA TailRiskQaKeeps ==
  ASSUME ReportInv, NEW j \in DOMAIN jobs, TailRiskQa(j)
  PROVE ReportInv'
<1>1. out' = out /\ Aside /\ jobs[j].at = "tail_qa"
  BY DEF TailRiskQa
<1>2. CASE To(j, "failed") /\ UNCHANGED analysed
  BY <1>1, <1>2, SameAnalysed, PassesOn DEF Steps, Terminal
<1>3. CASE /\ Hash(j) = jobs[j].post /\ To(j, "done")
           /\ analysed' = analysed \cup {[read |-> jobs[j].read, found |-> Tables(j).nav]}
  <2>1. Hash(j)[1] = Tables(j).nav /\ Guarded(j) /\ Tables(j).nav \in SUBSET Contents
    BY HashIs, TablesAre DEF Tables
  <2>2. jobs[j].read = Tables(j).nav
    BY <1>1, <1>3, <2>1 DEF Guarded
  <2>3. analysed \subseteq [read : SUBSET Contents, found : SUBSET Contents] /\ AnalysedIsCurrent
    BY DEF ReportInv, ReportTypeOK
  <2>4. analysed' \subseteq [read : SUBSET Contents, found : SUBSET Contents] /\ AnalysedIsCurrent'
    BY <1>3, <2>1, <2>2, <2>3 DEF AnalysedIsCurrent
  <2> QED
    BY <1>1, <1>3, <2>4, PassesOn DEF Steps, Terminal
<1> QED
  BY <1>2, <1>3 DEF TailRiskQa

LEMMA JobStepKeeps ==
  ASSUME ReportInv, JobStep
  PROVE ReportInv'
  BY BuildTargetsKeeps, ClearLedgerKeeps, SimulateKeeps, MetricsKeeps, RenderKeeps,
     PublishReportKeeps, CheckOutputsKeeps, DiagnoseKeeps, HashBeforeKeeps, AnalyseKeeps,
     HashAfterKeeps, TailRiskQaKeeps, StepFailsKeeps DEF JobStep

-----------------------------------------------------------------------------
(* Executions that are started, and the overlay program.                   *)

\* An execution that starts changes nothing for the others.
LEMMA Starts ==
  ASSUME ReportInv, NEW new \in Jobs, new.at = "targets", jobs' = Append(jobs, new),
         source' = source, out' = out, analysed' = analysed, rewritten' = rewritten,
         over' \in {NotStarted} \cup Programs
  PROVE /\ ReportTypeOK' /\ AnalysedIsCurrent'
        /\ \A b \in Backtests : InOrder(b)' /\ NavWritten(b)'
        /\ \A j \in DOMAIN jobs' : Guarded(j)'
        /\ Len(jobs) + 1 \in DOMAIN jobs' /\ jobs'[Len(jobs) + 1] = new
        /\ DOMAIN jobs' = DOMAIN jobs \cup {Len(jobs) + 1} /\ Len(jobs) + 1 \in Nat
        /\ \A k \in DOMAIN jobs : jobs'[k] = jobs[k]
<1>1. ReportTypeOK /\ jobs \in Seq(Jobs)
  BY DEF ReportInv, ReportTypeOK
<1>2. /\ jobs' \in Seq(Jobs) /\ Len(jobs) + 1 \in DOMAIN jobs' /\ jobs'[Len(jobs) + 1] = new
      /\ DOMAIN jobs' = DOMAIN jobs \cup {Len(jobs) + 1} /\ Len(jobs) + 1 \in Nat
      /\ \A k \in DOMAIN jobs : jobs'[k] = jobs[k]
  BY <1>1
<1>3. ReportTypeOK' /\ AnalysedIsCurrent'
  BY <1>1, <1>2, SameAnalysed DEF ReportTypeOK
<1>4. \A c : Written(c) => Written(c)'
  BY <1>2 DEF Written
<1>5. \A b \in Backtests : InOrder(b)' /\ NavWritten(b)'
  BY <1>4 DEF ReportInv, InOrder, NavWritten
<1>6. ASSUME NEW k \in DOMAIN jobs PROVE Guarded(k)'
  <2>1. jobs'[k] = jobs[k] /\ Guarded(k)
    BY <1>2 DEF ReportInv
  <2> QED
    BY <1>4, <2>1 DEF Guarded, Gone, Tables
<1>7. ASSUME NEW k \in {Len(jobs) + 1} PROVE Guarded(k)'
  BY <1>2 DEF Guarded
<1> QED
  BY <1>2, <1>3, <1>5, <1>6, <1>7

LEMMA JobStarts ==
  ASSUME NEW b \in Backtests, NEW force \in BOOLEAN, NEW full \in BOOLEAN
  PROVE /\ Job(b, force, full) \in Jobs /\ Job(b, force, full).at = "targets"
        /\ Job(b, force, full).backtest = b /\ Job(b, force, full).full = full
<1>1. Job(b, force, full) \in Jobs
  BY DEF Job, Jobs, Steps
<1>2. Job(b, force, full).at = "targets" /\ Job(b, force, full).backtest = b
      /\ Job(b, force, full).full = full
  BY DEF Job
<1> QED
  BY <1>1, <1>2

LEMMA OverIs ==
  ASSUME ReportInv
  PROVE /\ over \in {NotStarted} \cup Programs /\ over.own \in Seq(Nat)
        /\ over.at # "idle" => over \in Programs
        /\ DOMAIN over.own = 1 .. Len(over.own) /\ Len(over.own) \in Nat
<1>1. over \in {NotStarted} \cup Programs
  BY DEF ReportInv, ReportTypeOK
<1>2. CASE over = NotStarted
  <2>1. over.own = <<>> /\ over.at = "idle"
    BY <1>2 DEF NotStarted
  <2> QED BY <1>1, <2>1
<1>3. CASE over \in Programs
  BY <1>3 DEF Programs
<1> QED BY <1>1, <1>2, <1>3

LEMMA StartByHandKeeps ==
  ASSUME ReportInv, StartByHand
  PROVE ReportInv'
<1>1. PICK force \in BOOLEAN : jobs' = Append(jobs, Job(Base, force, TRUE))
  BY StartsAssumption DEF StartByHand
<1>2. PICK new \in Jobs : /\ jobs' = Append(jobs, new) /\ new.at = "targets"
                         /\ new.backtest = Base
  BY <1>1, JobStarts DEF Backtests
<1>3. /\ source' = source /\ over' = over /\ rewritten' = rewritten /\ out' = out
      /\ analysed' = analysed /\ over' \in {NotStarted} \cup Programs
  BY OverIs DEF StartByHand, Aside
<1>4. /\ ReportTypeOK' /\ AnalysedIsCurrent'
      /\ \A b \in Backtests : InOrder(b)' /\ NavWritten(b)'
      /\ \A j \in DOMAIN jobs' : Guarded(j)'
      /\ jobs'[Len(jobs) + 1] = new /\ DOMAIN jobs' = DOMAIN jobs \cup {Len(jobs) + 1}
      /\ \A k \in DOMAIN jobs : jobs'[k] = jobs[k]
  BY <1>2, <1>3, Starts
<1>5. Advances' /\ Owns'
  BY <1>3, <1>4 DEF ReportInv, Advances, Owns
<1>6. OnlyOwn'
  BY <1>2, <1>3, <1>4, ArmsAssumption DEF ReportInv, OnlyOwn
<1>7. \A i \in DOMAIN over.own : jobs'[over.own[i]] = jobs[over.own[i]]
  BY <1>4 DEF ReportInv, Owns
<1>8. Waited'
  BY <1>3, <1>7 DEF ReportInv, Waited, Collected
<1>9. OverlayTrue'
  BY <1>3, <1>7 DEF ReportInv, OverlayTrue, Undisturbed, OwnOutput
<1> QED
  BY <1>4, <1>5, <1>6, <1>8, <1>9 DEF ReportInv

\* A step of the overlay program that starts no execution.
LEMMA OverMoves ==
  ASSUME ReportInv, jobs' = jobs, Outside, rewritten' \in BOOLEAN, over' \in Programs,
         Advances', Owns', OnlyOwn', Waited', OverlayTrue'
  PROVE ReportInv'
<1>1. ReportTypeOK' /\ AnalysedIsCurrent'
  BY SameAnalysed DEF ReportInv, ReportTypeOK, Outside
<1>2. \A b \in Backtests : InOrder(b)' /\ NavWritten(b)'
  BY DEF ReportInv, InOrder, NavWritten, Written, Outside
<1>3. \A j \in DOMAIN jobs' : Guarded(j)'
  BY DEF ReportInv, Guarded, Written, Gone, Tables, Outside
<1> QED
  BY <1>1, <1>2, <1>3 DEF ReportInv

LEMMA StartOverlayKeeps ==
  ASSUME ReportInv, NEW r \in Requests, StartOverlay(r)
  PROVE ReportInv'
<1>1. /\ r.wait \in BOOLEAN /\ r.force \in BOOLEAN /\ r.parallel \in BOOLEAN
  BY StartsAssumption
<1>2. /\ over' = [at |-> "submit", own |-> <<>>, arm |-> 1, wait |-> r.wait, force |-> r.force,
                parallel |-> r.parallel, clean |-> BusyArms = {}, lost |-> FALSE, failed |-> FALSE]
      /\ rewritten' = FALSE /\ Outside /\ jobs' = jobs
  BY DEF StartOverlay
<1>3. /\ over'.at = "submit" /\ over'.own = <<>> /\ over'.arm = 1 /\ over'.failed = FALSE
      /\ (over'.clean <=> BusyArms = {})
  BY <1>2
<1>4. over' \in Programs
  BY <1>1, <1>2 DEF Programs, Phases
<1>5. Advances' /\ Owns'
  <2>1. TailRiskArms \in Seq(ArmNames) /\ DOMAIN TailRiskArms # {}
    BY ArmsAssumption DEF ArmNames
  <2>2. Len(TailRiskArms) \in Nat /\ DOMAIN TailRiskArms = 1 .. Len(TailRiskArms)
    BY <2>1
  <2>3. 1 \in DOMAIN TailRiskArms
    BY <2>1, <2>2
  <2> QED BY <1>3, <2>2, <2>3 DEF Advances, Owns
<1>6. OnlyOwn'
  <2>1. ASSUME BusyArms = {}, NEW j \in DOMAIN jobs, jobs[j].backtest \in ArmNames,
               jobs[j].at \notin Terminal
        PROVE FALSE
    <3>1. PICK i \in DOMAIN TailRiskArms : TailRiskArms[i] = jobs[j].backtest
      BY <2>1 DEF ArmNames
    <3>2. Busy(TailRiskArms[i])
      BY <2>1, <3>1 DEF Busy
    <3> QED BY <2>1, <3>2 DEF BusyArms
  <2> QED BY <1>2, <1>3, <2>1 DEF OnlyOwn
<1>7. Waited' /\ OverlayTrue'
  BY <1>3 DEF Waited, OverlayTrue
<1> QED
  BY <1>2, <1>4, <1>5, <1>6, <1>7, OverMoves

LEMMA SubmitKeeps ==
  ASSUME ReportInv, Submit
  PROVE ReportInv'
<1> DEFINE all == Len(over.own) + 1 = Len(TailRiskArms)
<1>1. /\ over \in Programs /\ over.at = "submit" /\ over.own \in Seq(Nat)
      /\ DOMAIN over.own = 1 .. Len(over.own) /\ Len(over.own) \in Nat
  BY OverIs DEF Submit
<1>2. /\ over.arm \in DOMAIN TailRiskArms /\ Len(over.own) = over.arm - 1 /\ ~over.failed
      /\ Len(TailRiskArms) \in Nat /\ DOMAIN TailRiskArms = 1 .. Len(TailRiskArms)
      /\ over.arm \in Nat /\ over.arm >= 1 /\ over.arm <= Len(TailRiskArms)
  BY <1>1, ArmsAssumption DEF ReportInv, Advances
<1>3. TailRiskArms[over.arm] \in Backtests /\ TailRiskArms[over.arm] \in ArmNames
  BY <1>2 DEF Backtests, ArmNames
<1>4. PICK new \in Jobs : /\ jobs' = Append(jobs, new) /\ new.at = "targets"
                         /\ new.backtest = TailRiskArms[over.arm] /\ ~new.full
  <2>1. over.force \in BOOLEAN
    BY <1>1 DEF Programs
  <2> QED BY <1>3, <2>1, JobStarts DEF Submit
<1>5. /\ source' = source /\ rewritten' = rewritten /\ out' = out /\ analysed' = analysed
  BY DEF Submit, Outside
<1>l. Len(jobs) + 1 \in Nat
  BY DEF ReportInv, ReportTypeOK
<1>6. PICK own \in Seq(Nat) :
        /\ own = Append(over.own, Len(jobs) + 1) /\ Len(own) = over.arm
        /\ DOMAIN own = DOMAIN over.own \cup {over.arm} /\ own[over.arm] = Len(jobs) + 1
        /\ \A i \in DOMAIN over.own : own[i] = over.own[i] /\ i < over.arm
  <2>1. PICK n \in Nat : n = Len(jobs) + 1
    BY <1>l
  <2>2. PICK old \in Seq(Nat) : old = over.own
    BY <1>1
  <2>3. over.arm = Len(old) + 1
    BY <1>1, <1>2, <2>2
  <2>a. Append(old, n) \in Seq(Nat)
    OBVIOUS
  <2>4. PICK own \in Seq(Nat) : own = Append(old, n)
    BY <2>a
  <2>5. /\ Len(own) = Len(old) + 1 /\ own[Len(old) + 1] = n
        /\ DOMAIN own = 1 .. (Len(old) + 1) /\ DOMAIN old = 1 .. Len(old) /\ Len(old) \in Nat
        /\ \A i \in 1 .. Len(old) : own[i] = old[i]
    BY <2>4
  <2>6. 1 .. (Len(old) + 1) = (1 .. Len(old)) \cup {Len(old) + 1}
    BY <2>5
  <2>7. \A i \in 1 .. Len(old) : i < Len(old) + 1
    BY <2>5
  <2>8. DOMAIN own = DOMAIN over.own \cup {over.arm}
    BY <2>2, <2>3, <2>5, <2>6
  <2>9. \A i \in DOMAIN over.own : own[i] = over.own[i] /\ i < over.arm
    BY <2>2, <2>3, <2>5, <2>7
  <2>10. /\ own = Append(over.own, Len(jobs) + 1) /\ Len(own) = over.arm
         /\ own[over.arm] = Len(jobs) + 1
    BY <2>1, <2>2, <2>3, <2>4, <2>5
  <2> QED BY <2>8, <2>9, <2>10
<1>7. over' = [over EXCEPT !.own = own,
                 !.at = IF over.parallel /\ over.arm # Len(TailRiskArms) THEN "submit" ELSE "wait",
                 !.arm = IF ~over.parallel THEN over.arm
                         ELSE IF over.arm = Len(TailRiskArms) THEN 1 ELSE over.arm + 1]
  BY <1>6 DEF Submit
<1>s. PICK at \in {"submit", "wait"} :
        at = IF over.parallel /\ over.arm # Len(TailRiskArms) THEN "submit" ELSE "wait"
  OBVIOUS
<1>t. PICK arm \in Nat :
        arm = IF ~over.parallel THEN over.arm
              ELSE IF over.arm = Len(TailRiskArms) THEN 1 ELSE over.arm + 1
  BY <1>2
<1>u. over' = [over EXCEPT !.own = own, !.at = at, !.arm = arm]
  BY <1>7, <1>s, <1>t
<1>8. /\ over' \in Programs /\ over'.own = own
      /\ over'.wait = over.wait /\ over'.parallel = over.parallel /\ over'.clean = over.clean
      /\ over'.lost = over.lost /\ over'.failed = over.failed
      /\ over'.at = (IF over.parallel /\ over.arm # Len(TailRiskArms) THEN "submit" ELSE "wait")
      /\ over'.arm = (IF ~over.parallel THEN over.arm
                      ELSE IF over.arm = Len(TailRiskArms) THEN 1 ELSE over.arm + 1)
  <2>1. /\ over' \in Programs /\ over'.own = own /\ over'.at = at /\ over'.arm = arm
        /\ over'.wait = over.wait /\ over'.parallel = over.parallel /\ over'.clean = over.clean
        /\ over'.lost = over.lost /\ over'.failed = over.failed
    BY <1>1, <1>u DEF Programs, Phases
  <2> QED BY <1>s, <1>t, <2>1
<1>9. /\ ReportTypeOK' /\ AnalysedIsCurrent'
      /\ \A b \in Backtests : InOrder(b)' /\ NavWritten(b)'
      /\ \A j \in DOMAIN jobs' : Guarded(j)'
      /\ Len(jobs) + 1 \in DOMAIN jobs' /\ jobs'[Len(jobs) + 1] = new
      /\ DOMAIN jobs' = DOMAIN jobs \cup {Len(jobs) + 1}
      /\ \A k \in DOMAIN jobs : jobs'[k] = jobs[k]
  BY <1>4, <1>5, <1>8, Starts
<1>10. Advances'
  BY <1>1, <1>2, <1>6, <1>8 DEF Advances
<1>11. ASSUME NEW i \in DOMAIN over.own
       PROVE /\ own[i] = over.own[i] /\ over.own[i] \in DOMAIN jobs
             /\ jobs'[own[i]] = jobs[over.own[i]] /\ i < over.arm
             /\ jobs[over.own[i]].backtest = TailRiskArms[i] /\ ~jobs[over.own[i]].full
  BY <1>6, <1>9 DEF ReportInv, Owns
<1>12. Owns'
  <2>1. ASSUME NEW i \in DOMAIN own
        PROVE  /\ own[i] \in DOMAIN jobs' /\ jobs'[own[i]].backtest = TailRiskArms[i]
               /\ ~jobs'[own[i]].full
    <3>1. CASE i = over.arm
      BY <1>4, <1>6, <1>9, <3>1
    <3>2. CASE i \in DOMAIN over.own
      BY <1>9, <1>11, <3>2
    <3> QED BY <1>6, <3>1, <3>2
  <2> QED BY <1>8, <2>1 DEF Owns
<1>13. OnlyOwn'
  <2> SUFFICES ASSUME over.clean, NEW j \in DOMAIN jobs', jobs'[j].backtest \in ArmNames,
                      jobs'[j].at \notin Terminal
               PROVE \E i \in DOMAIN own : own[i] = j
    BY <1>8 DEF OnlyOwn
  <2>1. CASE j = Len(jobs) + 1
    BY <1>6, <2>1
  <2>2. CASE j \in DOMAIN jobs
    <3>1. PICK i \in DOMAIN over.own : over.own[i] = j
      BY <1>1, <1>9, <2>2 DEF ReportInv, OnlyOwn
    <3> QED BY <1>6, <3>1
  <2> QED BY <1>9, <2>1, <2>2
<1>14. Waited'
  <2> SUFFICES ASSUME over.wait, NEW i \in DOMAIN own, Collected(i)'
               PROVE /\ ~over.lost => jobs'[own[i]].at \in Terminal
                     /\ jobs'[own[i]].at = "done"
    BY <1>8 DEF Waited
  <2>1. i < over.arm /\ ~over.parallel
    BY <1>2, <1>6, <1>8 DEF Collected
  <2>2. i \in DOMAIN over.own /\ Collected(i)
    BY <1>1, <1>6, <2>1, <1>2 DEF Collected
  <2> QED
    BY <1>1, <1>2, <1>11, <2>2 DEF ReportInv, Waited
<1>15. OverlayTrue'
  <2> SUFFICES ASSUME Undisturbed, NEW i \in DOMAIN own PROVE OwnOutput(i)'
    BY <1>1, <1>5, <1>8 DEF OverlayTrue, Undisturbed
  <2>1. CASE i \in DOMAIN over.own
    BY <1>5, <1>8, <1>11, <2>1 DEF ReportInv, OverlayTrue, OwnOutput
  <2>2. CASE i = over.arm
    BY <1>4, <1>6, <1>8, <1>9, <2>2 DEF OwnOutput
  <2> QED BY <1>6, <2>1, <2>2
<1> QED
  BY <1>9, <1>10, <1>12, <1>13, <1>14, <1>15 DEF ReportInv

\* A step in which the overlay program only goes on among its arms.
LEMMA GoesOn ==
  ASSUME ReportInv, over.at # "idle", over' \in Programs, over'.own = over.own,
         over'.clean = over.clean, Outside, UNCHANGED <<jobs, rewritten>>, Advances', Waited',
         Undisturbed /\ over'.at = "succeeded" /\ over'.wait =>
            SourcesOf(out[Base].target) = {source}
  PROVE ReportInv'
<1>1. over'.at # "idle"
  BY DEF Programs, Phases
<1>2. Owns' /\ OnlyOwn'
  BY <1>1 DEF ReportInv, Owns, OnlyOwn
<1>3. \A i : OwnOutput(i) => OwnOutput(i)'
  BY DEF OwnOutput, Outside
<1>4. OverlayTrue'
  BY <1>1, <1>3 DEF ReportInv, OverlayTrue, Undisturbed, Outside
<1>5. rewritten' \in BOOLEAN
  BY DEF ReportInv, ReportTypeOK
<1> QED
  BY <1>2, <1>4, <1>5, OverMoves

LEMMA AmongArms ==
  ASSUME ReportInv, over.at \in {"wait", "qa"}
  PROVE /\ over \in Programs /\ over.arm \in Nat /\ Len(TailRiskArms) \in Nat
        /\ DOMAIN TailRiskArms = 1 .. Len(TailRiskArms)
        /\ over.arm >= 1 /\ over.arm <= Len(TailRiskArms)
        /\ over.own \in Seq(Nat) /\ DOMAIN over.own = 1 .. Len(over.own)
        /\ Len(over.own) = (IF over.parallel THEN Len(TailRiskArms) ELSE over.arm)
        /\ over.arm \in DOMAIN over.own
<1>1. /\ over \in Programs /\ over.own \in Seq(Nat)
      /\ DOMAIN over.own = 1 .. Len(over.own)
  BY OverIs
<1>2. /\ Len(TailRiskArms) \in Nat /\ DOMAIN TailRiskArms = 1 .. Len(TailRiskArms)
      /\ over.arm \in DOMAIN TailRiskArms
      /\ Len(over.own) = (IF over.parallel THEN Len(TailRiskArms) ELSE over.arm)
  BY ArmsAssumption DEF ReportInv, Advances
<1> QED
  BY <1>1, <1>2

LEMMA CommunicateKeeps ==
  ASSUME ReportInv, NEW lost \in BOOLEAN, Communicate(lost)
  PROVE ReportInv'
<1> DEFINE j == over.own[over.arm]
           ok == Result(j, lost)
           failed == over.failed \/ ~ok
<1>1. over.at = "wait" /\ Outside /\ UNCHANGED <<jobs, rewritten>>
  BY DEF Communicate
<1>2. /\ over \in Programs /\ over.arm \in Nat /\ Len(TailRiskArms) \in Nat
      /\ DOMAIN TailRiskArms = 1 .. Len(TailRiskArms)
      /\ over.arm >= 1 /\ over.arm <= Len(TailRiskArms)
      /\ over.own \in Seq(Nat) /\ DOMAIN over.own = 1 .. Len(over.own)
      /\ Len(over.own) = (IF over.parallel THEN Len(TailRiskArms) ELSE over.arm)
      /\ over.arm \in DOMAIN over.own
  BY <1>1, AmongArms
<1>3. /\ over.wait /\ ~lost => jobs[j].at \in Terminal
      /\ over.wait /\ ok => jobs[j].at = "done"
  <2>1. over.wait /\ ~lost => State(j) # "running"
    BY DEF Communicate
  <2>2. over.wait /\ ok => State(j) = "succeeded"
    BY DEF Result
  <2>3. /\ State(j) # "running" => jobs[j].at \in Terminal
        /\ State(j) = "succeeded" => jobs[j].at = "done"
    BY DEF State, Terminal
  <2> QED BY <2>1, <2>2, <2>3
<1>o. PICK good \in BOOLEAN : good <=> ok
  BY DEF Result
<1>4. over' = [over EXCEPT
        !.lost = over.lost \/ lost, !.failed = over.failed \/ ~good,
        !.at = IF over.parallel /\ over.arm # Len(TailRiskArms) THEN "wait"
               ELSE IF over.failed \/ ~good THEN "failed" ELSE "qa",
        !.arm = IF ~over.parallel THEN over.arm
                ELSE IF over.arm = Len(TailRiskArms) THEN 1 ELSE over.arm + 1]
  BY <1>o DEF Communicate, Collect, LastArm
<1>5. /\ over' \in Programs /\ over'.own = over.own /\ over'.clean = over.clean
      /\ over'.wait = over.wait /\ over'.parallel = over.parallel
      /\ (over'.lost <=> over.lost \/ lost) /\ (over'.failed <=> over.failed \/ ~good)
      /\ over'.at = (IF over.parallel /\ over.arm # Len(TailRiskArms) THEN "wait"
                     ELSE IF over.failed \/ ~good THEN "failed" ELSE "qa")
      /\ over'.arm = (IF ~over.parallel THEN over.arm
                      ELSE IF over.arm = Len(TailRiskArms) THEN 1 ELSE over.arm + 1)
  <2> HIDE DEF ok, failed
  <2>1. PICK lost2 \in BOOLEAN : lost2 <=> over.lost \/ lost
    OBVIOUS
  <2>2. PICK failed2 \in BOOLEAN : failed2 <=> over.failed \/ ~good
    OBVIOUS
  <2>3. PICK at \in {"wait", "failed", "qa"} :
          at = IF over.parallel /\ over.arm # Len(TailRiskArms) THEN "wait"
               ELSE IF over.failed \/ ~good THEN "failed" ELSE "qa"
    OBVIOUS
  <2>4. PICK arm \in Nat :
          arm = IF ~over.parallel THEN over.arm
                ELSE IF over.arm = Len(TailRiskArms) THEN 1 ELSE over.arm + 1
    BY <1>2
  <2>5. over.lost \in BOOLEAN /\ over.failed \in BOOLEAN
    BY <1>2 DEF Programs
  <2>6. (over.lost \/ lost) = lost2 /\ (over.failed \/ ~good) = failed2
    BY <2>1, <2>2, <2>5
  <2>7. over' = [over EXCEPT !.lost = lost2, !.failed = failed2, !.at = at, !.arm = arm]
    BY <1>4, <2>3, <2>4, <2>6
  <2>8. /\ over' \in Programs /\ over'.own = over.own /\ over'.clean = over.clean
        /\ over'.wait = over.wait /\ over'.parallel = over.parallel
        /\ over'.lost = lost2 /\ over'.failed = failed2 /\ over'.at = at /\ over'.arm = arm
    BY <1>2, <2>7 DEF Programs, Phases
  <2> QED BY <2>1, <2>2, <2>3, <2>4, <2>8
<1> HIDE DEF ok, failed
<1>6. Advances'
  BY <1>2, <1>5 DEF Advances
<1>7. Waited'
  <2> SUFFICES ASSUME over.wait, NEW i \in DOMAIN over.own, Collected(i)'
               PROVE /\ ~over'.lost => jobs[over.own[i]].at \in Terminal
                     /\ ~over'.failed /\ over'.at # "failed" => jobs[over.own[i]].at = "done"
    BY <1>1, <1>5 DEF Waited
  <2>1. i <= over.arm /\ i \in Nat
    BY <1>2, <1>5 DEF Collected
  <2>2. CASE i = over.arm
    BY <1>3, <1>o, <1>5, <2>2
  <2>3. CASE i < over.arm
    <3>1. /\ ~over.lost => jobs[over.own[i]].at \in Terminal
          /\ ~over.failed => jobs[over.own[i]].at = "done"
      BY <1>1, <2>3 DEF ReportInv, Waited, Collected
    <3> QED BY <1>5, <3>1
  <2> QED BY <1>2, <2>1, <2>2, <2>3
<1> QED
  BY <1>1, <1>5, <1>6, <1>7, GoesOn

LEMMA ArmQaKeeps ==
  ASSUME ReportInv, ArmQa
  PROVE ReportInv'
<1>1. over.at = "qa" /\ Outside /\ UNCHANGED <<jobs, rewritten>> /\ ~over.failed
  BY DEF ArmQa, ReportInv, Advances
<1>2. /\ over \in Programs /\ over.arm \in Nat /\ Len(TailRiskArms) \in Nat
      /\ DOMAIN TailRiskArms = 1 .. Len(TailRiskArms)
      /\ over.arm >= 1 /\ over.arm <= Len(TailRiskArms)
      /\ Len(over.own) = (IF over.parallel THEN Len(TailRiskArms) ELSE over.arm)
  BY <1>1, AmongArms
<1>3. PICK at \in {"failed", "compare", "qa", "submit"}, arm \in Nat :
        /\ over' = [over EXCEPT !.at = at, !.arm = arm]
        /\ at = "compare" => over.arm = Len(TailRiskArms)
        /\ at \in {"qa", "submit"} => /\ over.arm < Len(TailRiskArms) /\ arm = over.arm + 1
                                    /\ (at = "qa" <=> over.parallel)
  <2>1. CASE over' = [over EXCEPT !.at = "failed"]
    <3>1. over' = [over EXCEPT !.at = "failed", !.arm = over.arm]
      BY <1>2, <2>1 DEF Programs
    <3> QED BY <1>2, <3>1
  <2>2. CASE over' = [over EXCEPT
                !.at = IF LastArm THEN "compare"
                       ELSE IF over.parallel THEN "qa" ELSE "submit",
                !.arm = IF LastArm THEN over.arm ELSE over.arm + 1]
    <3>1. CASE LastArm
      <4>1. over' = [over EXCEPT !.at = "compare", !.arm = over.arm]
        BY <2>2, <3>1
      <4> QED BY <1>2, <3>1, <4>1 DEF LastArm
    <3>2. CASE ~LastArm
      <4>1. PICK at \in {"qa", "submit"} : at = IF over.parallel THEN "qa" ELSE "submit"
        OBVIOUS
      <4>2. PICK arm \in Nat : arm = over.arm + 1
        BY <1>2
      <4>3. over' = [over EXCEPT !.at = at, !.arm = arm]
        BY <2>2, <3>2, <4>1, <4>2
      <4>4. over.arm < Len(TailRiskArms) /\ (at = "qa" <=> over.parallel)
        BY <1>2, <3>2, <4>1 DEF LastArm
      <4> QED BY <4>2, <4>3, <4>4
    <3> QED BY <3>1, <3>2
  <2> QED BY <2>1, <2>2 DEF ArmQa, Over
<1>4. /\ over' \in Programs /\ over'.own = over.own /\ over'.clean = over.clean
      /\ over'.wait = over.wait /\ over'.parallel = over.parallel /\ over'.lost = over.lost
      /\ over'.failed = over.failed /\ over'.at = at /\ over'.arm = arm
  BY <1>2, <1>3 DEF Programs, Phases
<1>5. Advances'
  BY <1>1, <1>2, <1>3, <1>4 DEF Advances
<1>6. Waited'
  BY <1>1, <1>4 DEF ReportInv, Waited, Collected
<1> QED
  BY <1>1, <1>3, <1>4, <1>5, <1>6, GoesOn

LEMMA CompareKeeps ==
  ASSUME ReportInv, Compare
  PROVE ReportInv'
<1>1. /\ over.at = "compare" /\ Outside /\ UNCHANGED <<jobs, rewritten>> /\ ~over.failed
      /\ Len(over.own) = Len(TailRiskArms) /\ over \in Programs
  BY OverIs DEF Compare, ReportInv, Advances
<1>2. PICK at \in {"succeeded", "failed"} :
        over' = [over EXCEPT !.at = at] /\ (at = "succeeded" => OverlayOutputs)
  BY DEF Compare, Over
<1>3. /\ over' \in Programs /\ over'.own = over.own /\ over'.clean = over.clean
      /\ over'.wait = over.wait /\ over'.parallel = over.parallel /\ over'.lost = over.lost
      /\ over'.failed = over.failed /\ over'.at = at /\ over'.arm = over.arm
  BY <1>1, <1>2 DEF Programs, Phases
<1>4. Advances'
  BY <1>1, <1>3 DEF ReportInv, Advances
<1>5. Waited'
  BY <1>1, <1>3 DEF ReportInv, Waited, Collected
<1>6. ASSUME Undisturbed, at = "succeeded", over.wait
      PROVE SourcesOf(out[Base].target) = {source}
  <2>1. PICK i \in DOMAIN TailRiskArms : TailRiskArms[i] = MarketArm
    BY ArmsAssumption DEF ArmNames
  <2>2. i \in DOMAIN over.own
    BY <1>1, <2>1, OverIs, ArmsAssumption
  <2>3. jobs[over.own[i]].at = "done" /\ OwnOutput(i)
    BY <1>1, <1>6, <2>2 DEF ReportInv, Waited, Collected, OverlayTrue
  <2>4. out[MarketArm].target = {Content(over.own[i], source)}
    BY <2>1, <2>3 DEF OwnOutput
  <2>5. SourcesOf(out[MarketArm].target) = {source}
    BY <2>4 DEF SourcesOf, Content
  <2> QED BY <1>2, <1>6, <2>5 DEF OverlayOutputs
<1> QED
  BY <1>1, <1>3, <1>4, <1>5, <1>6, GoesOn

LEMMA KilledKeeps ==
  ASSUME ReportInv, Killed
  PROVE ReportInv'
<1>1. over.at # "idle" /\ over \in Programs /\ Outside /\ UNCHANGED <<jobs, rewritten>>
  BY OverIs DEF Killed, Ended
<1>2. /\ over' \in Programs /\ over'.own = over.own /\ over'.clean = over.clean
      /\ over'.wait = over.wait /\ over'.at = "killed"
  BY <1>1 DEF Killed, Over, Programs, Phases
<1>3. Advances' /\ Waited'
  BY <1>2 DEF ReportInv, Advances, Waited, Collected
<1> QED
  BY <1>1, <1>2, <1>3, GoesOn

LEMMA RewriteKeeps ==
  ASSUME ReportInv, Rewrite
  PROVE ReportInv'
<1>1. /\ source' = source + 1 /\ rewritten' = TRUE /\ out' = out /\ jobs' = jobs
      /\ over' = over /\ analysed' = analysed
  BY DEF Rewrite
<1>2. ReportTypeOK' /\ AnalysedIsCurrent'
  BY <1>1, SameAnalysed DEF ReportInv, ReportTypeOK
<1>3. \A b \in Backtests : InOrder(b)' /\ NavWritten(b)'
  BY <1>1 DEF ReportInv, InOrder, NavWritten, Written
<1>4. \A j \in DOMAIN jobs' : Guarded(j)'
  BY <1>1 DEF ReportInv, Guarded, Written, Gone, Tables
<1>5. Advances' /\ Owns' /\ OnlyOwn' /\ Waited' /\ OverlayTrue'
  BY <1>1 DEF ReportInv, Advances, Owns, OnlyOwn, Waited, Collected, OverlayTrue, Undisturbed
<1> QED
  BY <1>2, <1>3, <1>4, <1>5 DEF ReportInv

LEMMA ReportStarts ==
  ASSUME ReportInit
  PROVE ReportInv
<1> DEFINE c == {Content(0, 0)}
<1>1. c \in SUBSET Contents
  BY DEF Content, Contents
<1>2. PICK none \in SUBSET Contents : none = {}
  OBVIOUS
<1>3. PICK first \in SUBSET Contents : first = c
  BY <1>1
<1> HIDE DEF c
<1>4. /\ out \in [Backtests -> [target : SUBSET Contents, nav : SUBSET Contents,
                             summary : SUBSET Contents, uris : SUBSET {"report", "diagnosis"}]]
      /\ \A b \in Backtests : /\ out[b].nav = first \/ out[b].nav = {}
                              /\ out[b].target = out[b].nav /\ out[b].summary = out[b].nav
  BY <1>3 DEF ReportInit, Empty, c
<1>5. /\ source = 0 /\ jobs = <<>> /\ over = NotStarted /\ rewritten = FALSE /\ analysed = {}
  BY DEF ReportInit
<1>6. over.at = "idle" /\ over.own = <<>>
  BY <1>5 DEF NotStarted
<1>7. ReportTypeOK
  <2>0. <<>> \in Seq(Jobs)
    OBVIOUS
  <2>1. jobs \in Seq(Jobs) /\ source \in Nat /\ rewritten \in BOOLEAN
        /\ analysed \subseteq [read : SUBSET Contents, found : SUBSET Contents]
    BY <1>5, <2>0
  <2>2. over \in {NotStarted} \cup Programs
    BY <1>5
  <2> QED BY <1>4, <2>1, <2>2 DEF ReportTypeOK
<1>8. \A b \in Backtests : InOrder(b) /\ NavWritten(b)
  BY <1>3, <1>4 DEF InOrder, NavWritten, Written, Content, c
<1>9. Len(TailRiskArms) \in Nat
  BY ArmsAssumption
<1>10. Advances /\ Owns /\ OnlyOwn /\ Waited /\ OverlayTrue /\ AnalysedIsCurrent
  BY <1>5, <1>6, <1>9
     DEF Advances, Owns, OnlyOwn, Waited, OverlayTrue, Undisturbed, AnalysedIsCurrent
<1> QED
  BY <1>5, <1>7, <1>8, <1>10 DEF ReportInv

LEMMA ReportSteps ==
  ASSUME ReportInv, [ReportNext]_reportVars
  PROVE ReportInv'
<1>1. CASE ReportNext
  BY <1>1, JobStepKeeps, StartByHandKeeps, SubmitKeeps, ArmQaKeeps, CompareKeeps, KilledKeeps,
     RewriteKeeps, StartOverlayKeeps, CommunicateKeeps DEF ReportNext
<1>2. CASE UNCHANGED reportVars
  <2>1. /\ source' = source /\ rewritten' = rewritten /\ out' = out /\ jobs' = jobs
        /\ over' = over /\ analysed' = analysed
    BY <1>2 DEF reportVars
  <2>2. ReportTypeOK' /\ AnalysedIsCurrent'
    BY <2>1, SameAnalysed DEF ReportInv, ReportTypeOK
  <2>3. \A b \in Backtests : InOrder(b)' /\ NavWritten(b)'
    BY <2>1 DEF ReportInv, InOrder, NavWritten, Written
  <2>4. \A j \in DOMAIN jobs' : Guarded(j)'
    BY <2>1 DEF ReportInv, Guarded, Written, Gone, Tables
  <2>5. Advances' /\ Owns' /\ OnlyOwn' /\ Waited'
    BY <2>1 DEF ReportInv, Advances, Owns, OnlyOwn, Waited, Collected
  <2>6. OverlayTrue'
    BY <2>1 DEF ReportInv, OverlayTrue, Undisturbed, OwnOutput
  <2> QED
    BY <2>2, <2>3, <2>4, <2>5, <2>6 DEF ReportInv
<1> QED
  BY <1>1, <1>2

\* The NAV a tail-risk analysis has read is the NAV its QA finds: for any number
\* of jobs on the same backtest, because a NAV that was cleared or added to
\* while the job looked on never comes back.
THEOREM ReportAnalysesWhatIsThere ==
  ReportSpec => []AnalysedIsCurrent
<1>1. ReportInv => AnalysedIsCurrent
  BY DEF ReportInv
<1> QED
  BY <1>1, ReportStarts, ReportSteps, PTL DEF ReportSpec

\* An overlay program that waits and ends by itself leaves none of its jobs
\* running, for any arms: it has heard of each of them, in parallel too.
THEOREM OverlayLeavesNothingRunning ==
  ReportSpec => []NothingRunsOn
<1>1. ReportInv => NothingRunsOn
  <2> SUFFICES ASSUME ReportInv, over.at \in {"succeeded", "failed"}, over.wait, over.clean,
                      ~over.lost, NEW m \in BusyArms
               PROVE FALSE
    BY DEF NothingRunsOn
  <2>1. PICK j \in DOMAIN jobs : jobs[j].backtest = TailRiskArms[m] /\ jobs[j].at \notin Terminal
    BY DEF BusyArms, Busy
  <2>2. jobs[j].backtest \in ArmNames
    BY <2>1 DEF BusyArms, ArmNames
  <2>3. PICK i \in DOMAIN over.own : over.own[i] = j
    BY <2>1, <2>2 DEF ReportInv, OnlyOwn
  <2>4. jobs[over.own[i]].at \in Terminal
    BY <2>3 DEF ReportInv, Waited, Collected
  <2> QED BY <2>1, <2>3, <2>4
<1> QED
  BY <1>1, ReportStarts, ReportSteps, PTL DEF ReportSpec

\* A comparison that waited for its arms and succeeded compares what its own
\* jobs wrote, from the predictions the baseline was computed from: for any
\* arms, whatever earlier starts left in the tables, however gcloud fails.
THEOREM OverlayComparesItsOwn ==
  ReportSpec => []ComparesItsOwn
<1>1. ReportInv => ComparesItsOwn
  <2> SUFFICES ASSUME ReportInv, over.at = "succeeded", over.wait, over.clean, ~rewritten,
                      NEW i \in DOMAIN TailRiskArms
               PROVE /\ \A table \in {"target", "nav", "summary"} :
                          {c.job : c \in out[TailRiskArms[i]][table]} = {over.own[i]}
                     /\ SourcesOf(out[TailRiskArms[i]].summary) = SourcesOf(out[Base].target)
    BY DEF ComparesItsOwn
  <2>1. i \in DOMAIN over.own /\ ~over.failed
    BY OverIs, ArmsAssumption DEF ReportInv, Advances
  <2>2. Undisturbed
    BY DEF Undisturbed
  <2>3. /\ jobs[over.own[i]].at = "done" /\ OwnOutput(i)
        /\ SourcesOf(out[Base].target) = {source}
    BY <2>1, <2>2 DEF ReportInv, Waited, Collected, OverlayTrue
  <2>4. \A table \in {"target", "nav", "summary"} :
          out[TailRiskArms[i]][table] = {Content(over.own[i], source)}
    BY <2>3 DEF OwnOutput
  <2>5. {c.job : c \in {Content(over.own[i], source)}} = {over.own[i]}
    BY DEF Content
  <2>6. SourcesOf({Content(over.own[i], source)}) = {source}
    BY DEF SourcesOf, Content
  <2> QED BY <2>3, <2>4, <2>5, <2>6
<1> QED
  BY <1>1, ReportStarts, ReportSteps, PTL DEF ReportSpec
=============================================================================
