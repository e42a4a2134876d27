----------------------------- MODULE RampsProofs -----------------------------
(***************************************************************************)
(* The theorems about Ramps, for any number of scales, any widths and      *)
(* ratios that do not overflow, any moves of the encoders and any writes   *)
(* of the host between two steps.                                          *)
(***************************************************************************)
EXTENDS Ramps, FiniteSetTheorems, WellFoundedInduction, TLAPS

(***************************************************************************)
(* Arithmetic.                                                             *)
(***************************************************************************)
LEMMA DivMod ==
  ASSUME NEW x \in Int, NEW m \in Nat \ {0}
  PROVE  x % m \in 0..(m - 1) /\ x \div m \in Int /\ x = m * (x \div m) + (x % m)
OBVIOUS

\* The remainder is the only number in its range that differs by a multiple.
LEMMA ModUnique ==
  ASSUME NEW m \in Nat \ {0}, NEW x \in Int, NEW q \in Int, NEW r \in 0..(m - 1), x = m * q + r
  PROVE  x % m = r
OBVIOUS

\* A number cut to a word is a word.
LEMMA WordTyped ==
  ASSUME NEW x \in Int, NEW half \in Nat \ {0}
  PROVE  x % (2 * half) \in 0..(2 * half - 1)
BY DivMod

\* A signed cut lies in the signed range.
LEMMA SignedTyped ==
  ASSUME NEW x \in Int, NEW half \in Nat \ {0}
  PROVE  Signed(x, half) \in (-half)..(half - 1)
<1>1. (x + half) % (2 * half) \in 0..(2 * half - 1)
  BY WordTyped
<1> QED BY <1>1 DEF Signed

\* A signed cut keeps what already lies in the signed range.
LEMMA SignedSmall ==
  ASSUME NEW half \in Nat \ {0}, NEW x \in (-half)..(half - 1)
  PROVE  Signed(x, half) = x
<1>1. x + half = (2 * half) * 0 + (x + half)
  OBVIOUS
<1>2. (x + half) % (2 * half) = x + half
  BY <1>1, ModUnique
<1> QED BY <1>2 DEF Signed

\* The signed difference of two positions of a counter is the move between them, through its wrap.
LEMMA SignedDifference ==
  ASSUME NEW half \in Nat \ {0}, NEW p \in Int, NEW d \in (-half)..(half - 1)
  PROVE  Signed(((p + d) % (2 * half)) - p, half) = d
<1> DEFINE m == 2 * half
           w == (p + d) % m
           k == (p + d) \div m
<1>1. m \in Nat \ {0} /\ w \in Int /\ k \in Int /\ p + d = m * k + w
  <2>1. p + d \in Int /\ m \in Nat \ {0}
    OBVIOUS
  <2> HIDE DEF m
  <2> QED BY <2>1, DivMod
<1>2. (w - p) + half = m * (-k) + (d + half)
  <2> HIDE DEF w, k, m
  <2>1. m * (-k) = - (m * k)
    BY <1>1
  <2> QED BY <1>1, <2>1
<1>3. d + half \in 0..(m - 1) /\ (w - p) + half \in Int /\ -k \in Int
  BY <1>1
<1>4. ((w - p) + half) % m = d + half
  <2> HIDE DEF w, k, m
  <2> QED BY <1>1, <1>2, <1>3, ModUnique
<1> QED BY <1>4 DEF Signed

\* A magnitude is a natural number, and only zero has none.
LEMMA MagnitudeTyped ==
  ASSUME NEW x \in Int
  PROVE  Magnitude(x) \in Nat /\ (x # 0 => Magnitude(x) \in Nat \ {0})
BY DEF Magnitude

\* C division yields an integer, by zero too.
LEMMA QuotientTyped ==
  ASSUME NEW a \in Int, NEW b \in Int
  PROVE  Quotient(a, b) \in Int
<1>1. CASE b = 0
  BY <1>1 DEF Quotient
<1>2. CASE b # 0
  <2>1. Magnitude(a) \div Magnitude(b) \in Int
    BY <1>2, MagnitudeTyped, DivMod
  <2> QED BY <1>2, <2>1 DEF Quotient
<1> QED BY <1>1, <1>2

\* The remainder of C division is an integer.
LEMMA RemainderTyped ==
  ASSUME NEW a \in Int, NEW b \in Int
  PROVE  Remainder(a, b) \in Int
BY QuotientTyped DEF Remainder

\* The remainder of C division is smaller than the divisor, whatever the signs.
LEMMA RemainderSmall ==
  ASSUME NEW a \in Int, NEW b \in Int, b # 0
  PROVE  Magnitude(Remainder(a, b)) < Magnitude(b)
<1> DEFINE A == Magnitude(a)
           B == Magnitude(b)
           q == A \div B
           r == A % B
<1>1. A \in Nat /\ B \in Nat \ {0}
  BY MagnitudeTyped
<1>2. q \in Int /\ r \in 0..(B - 1) /\ A = B * q + r
  <2> HIDE DEF A, B
  <2> QED BY <1>1, DivMod
<1>3. Remainder(a, b) = r \/ Remainder(a, b) = -r
  <2>1. Quotient(a, b) = IF (a < 0) = (b < 0) THEN q ELSE -q
    BY DEF Quotient
  <2> HIDE DEF q, r
  <2>2. B * q = IF b < 0 THEN -(b * q) ELSE b * q
    BY <1>2 DEF Magnitude
  <2>3. b * (-q) = -(b * q) /\ b * q \in Int
    BY <1>2
  <2>4. CASE a < 0
    BY <1>2, <2>1, <2>2, <2>3, <2>4 DEF Magnitude, Remainder
  <2>5. CASE ~(a < 0)
    BY <1>2, <2>1, <2>2, <2>3, <2>5 DEF Magnitude, Remainder
  <2> QED BY <2>4, <2>5
<1> QED BY <1>1, <1>2, <1>3 DEF Magnitude
(***************************************************************************)
(* The sum over the scales in sync is an integer.  The library's induction *)
(* theorems take an operator and cannot be instantiated by the provers;    *)
(* that a set of numbers has a least element can be cited instead.         *)
(***************************************************************************)
LEMMA LeastNatural ==
  ASSUME NEW T \in SUBSET Nat, T # {}
  PROVE  \E n \in T : \A m \in T : ~(m < n)
<1>1. PICK n \in T : \A m \in T : ~(<<m, n>> \in OpToRel(<, Nat))
  BY NatLessThanWellFounded, WFMin
<1>2. \A m \in T : m < n => <<m, n>> \in OpToRel(<, Nat)
  BY DEF OpToRel
<1> QED BY <1>1, <1>2

Synced == {s \in Scales : scale[s].sync}
Chosen(S) == CHOOSE x \in S : TRUE
SumIs(g, F, mv) ==
  \A S \in F : g[S] = IF S = {} THEN 0
                      ELSE ScaledDelta(Chosen(S), mv) + g[S \ {Chosen(S)}]
UpToSize(n) == {S \in SUBSET Synced : Cardinality(S) <= n}

\* Sets of scales in sync are finite, and lose one element at a time.
LEMMA SyncedFinite ==
  /\ IsFiniteSet(Synced)
  /\ \A S \in SUBSET Synced : IsFiniteSet(S) /\ Cardinality(S) \in Nat
  /\ \A S \in SUBSET Synced : S # {} => 
       /\ Chosen(S) \in S
       /\ Cardinality(S \ {Chosen(S)}) = Cardinality(S) - 1
  /\ \A S \in SUBSET Synced : Cardinality(S) <= 0 => S = {}
<1>1. IsFiniteSet(Synced)
  BY ScaleAssumption, FS_Subset DEF Synced
<1>2. ASSUME NEW S \in SUBSET Synced PROVE IsFiniteSet(S) /\ Cardinality(S) \in Nat
  BY <1>1, FS_Subset, FS_CardinalityType
<1>3. ASSUME NEW S \in SUBSET Synced, S # {}
      PROVE  Chosen(S) \in S /\ Cardinality(S \ {Chosen(S)}) = Cardinality(S) - 1
  <2>1. Chosen(S) \in S
    BY <1>3 DEF Chosen
  <2> QED BY <2>1, <1>2, FS_RemoveElement
<1>4. ASSUME NEW S \in SUBSET Synced, Cardinality(S) <= 0 PROVE S = {}
  BY <1>2, <1>4, FS_EmptySet
<1> QED BY <1>1, <1>2, <1>3, <1>4

\* A recursive sum over the sets of n scales extends to the sets of n + 1.
LEMMA SumStep ==
  ASSUME NEW mv, NEW n \in Nat, NEW g, SumIs(g, UpToSize(n), mv)
  PROVE  \E h : SumIs(h, UpToSize(n + 1), mv)
<1> DEFINE h == [S \in UpToSize(n + 1) |->
                   IF S \in UpToSize(n) THEN g[S]
                   ELSE ScaledDelta(Chosen(S), mv) + g[S \ {Chosen(S)}]]
<1>1. ASSUME NEW S \in UpToSize(n + 1), S # {}
      PROVE  S \ {Chosen(S)} \in UpToSize(n) /\ S \ {Chosen(S)} \in UpToSize(n + 1)
  BY <1>1, SyncedFinite DEF UpToSize
<1>2. {} \in UpToSize(n)
  BY FS_EmptySet DEF UpToSize
<1>3. ASSUME NEW S \in UpToSize(n + 1)
      PROVE  h[S] = IF S = {} THEN 0 ELSE ScaledDelta(Chosen(S), mv) + h[S \ {Chosen(S)}]
  <2>1. CASE S = {}
    BY <2>1, <1>2 DEF SumIs
  <2>2. CASE S # {}
    <3>1. h[S \ {Chosen(S)}] = g[S \ {Chosen(S)}]
      BY <1>1, <2>2
    <3> QED BY <3>1, <2>2 DEF SumIs
  <2> QED BY <2>1, <2>2
<1> HIDE DEF h
<1>4. SumIs(h, UpToSize(n + 1), mv)
  BY <1>3 DEF SumIs
<1> QED BY <1>4

\* The recursive definition of the sum over the scales in sync has a solution.
LEMMA SumExists ==
  ASSUME NEW mv
  PROVE  \E g : SumIs(g, SUBSET Synced, mv)
<1> DEFINE Bad == {n \in Nat : ~\E g : SumIs(g, UpToSize(n), mv)}
<1>1. 0 \notin Bad
  <2>1. SumIs([S \in UpToSize(0) |-> 0], UpToSize(0), mv)
    BY SyncedFinite DEF SumIs, UpToSize
  <2> QED BY <2>1
<1>2. Bad = {}
  <2>1. SUFFICES ASSUME Bad # {} PROVE FALSE
    OBVIOUS
  <2>2. PICK n \in Bad : \A m \in Bad : ~(m < n)
    BY <2>1, LeastNatural
  <2>3. n - 1 \in Nat /\ n - 1 \notin Bad /\ (n - 1) + 1 = n
    BY <1>1, <2>2
  <2>4. PICK g : SumIs(g, UpToSize(n - 1), mv)
    BY <2>3
  <2>5. \E h : SumIs(h, UpToSize(n), mv)
    BY <2>3, <2>4, SumStep
  <2> QED BY <2>5
<1>3. Cardinality(Synced) \in Nat /\ UpToSize(Cardinality(Synced)) = SUBSET Synced
  <2>1. ASSUME NEW S \in SUBSET Synced PROVE Cardinality(S) <= Cardinality(Synced)
    BY SyncedFinite, FS_Subset
  <2>2. UpToSize(Cardinality(Synced)) = SUBSET Synced
    BY <2>1 DEF UpToSize
  <2>3. Synced \in SUBSET Synced
    OBVIOUS
  <2> QED BY <2>2, <2>3, SyncedFinite
<1>4. \E g : SumIs(g, UpToSize(Cardinality(Synced)), mv)
  BY <1>2, <1>3
<1> HIDE DEF Bad
<1> QED BY <1>3, <1>4, Zenon

\* Any solution of it is an integer.
LEMMA SumTyped ==
  ASSUME NEW mv, NEW g, SumIs(g, SUBSET Synced, mv), \A s \in Scales : ScaledDelta(s, mv) \in Int
  PROVE  g[Synced] \in Int
<1> DEFINE Bad == {n \in Nat : \E S \in SUBSET Synced : Cardinality(S) = n /\ g[S] \notin Int}
<1>1. Bad = {}
  <2>1. SUFFICES ASSUME Bad # {} PROVE FALSE
    OBVIOUS
  <2>2. PICK n \in Bad : \A m \in Bad : ~(m < n)
    BY <2>1, LeastNatural
  <2>3. PICK S \in SUBSET Synced : Cardinality(S) = n /\ g[S] \notin Int
    BY <2>2
  <2>4. S # {}
    <3>1. g[{}] = 0
      <4>1. {} \in SUBSET Synced
        OBVIOUS
      <4> QED BY <4>1 DEF SumIs
    <3>2. ASSUME S = {} PROVE FALSE
      <4>1. g[S] = 0
        BY <3>1, <3>2
      <4> QED BY <2>3, <4>1
    <3> QED BY <3>2
  <2>5. Chosen(S) \in Scales /\ n - 1 \in Nat /\ n - 1 < n /\ S \ {Chosen(S)} \in SUBSET Synced
        /\ Cardinality(S \ {Chosen(S)}) = n - 1
    <3>1. Chosen(S) \in S /\ Cardinality(S \ {Chosen(S)}) = n - 1
      BY <2>3, <2>4, SyncedFinite
    <3>2. Cardinality(S \ {Chosen(S)}) \in Nat
      BY SyncedFinite
    <3> QED BY <3>1, <3>2 DEF Synced
  <2>6. g[S \ {Chosen(S)}] \in Int
    BY <2>2, <2>5
  <2> QED BY <2>3, <2>4, <2>5, <2>6 DEF SumIs
<1> QED BY <1>1, SyncedFinite

\* What the followers pull the servo by in one tick is an integer.
LEMMA PullTyped ==
  ASSUME NEW mv, \A s \in Scales : ScaledDelta(s, mv) \in Int
  PROVE  Pull(mv) \in Int
<1> DEFINE iter == CHOOSE g : g = [S \in SUBSET Synced |->
                     IF S = {} THEN 0 ELSE ScaledDelta(Chosen(S), mv) + g[S \ {Chosen(S)}]]
<1>1. \E g : g = [S \in SUBSET Synced |->
                     IF S = {} THEN 0 ELSE ScaledDelta(Chosen(S), mv) + g[S \ {Chosen(S)}]]
  <2>1. PICK g : SumIs(g, SUBSET Synced, mv)
    BY SumExists
  <2> DEFINE h == [S \in SUBSET Synced |-> g[S]]
  <2>2. h = [S \in SUBSET Synced |->
                     IF S = {} THEN 0 ELSE ScaledDelta(Chosen(S), mv) + h[S \ {Chosen(S)}]]
    BY <2>1 DEF SumIs
  <2> QED BY <2>2
<1>2. iter = [S \in SUBSET Synced |->
                IF S = {} THEN 0 ELSE ScaledDelta(Chosen(S), mv) + iter[S \ {Chosen(S)}]]
  BY <1>1
<1>3. Pull(mv) = iter[Synced]
  BY DEF Pull, MapThenSumSet, MapThenFoldSet, Synced, Chosen
<1>4. SumIs(iter, SUBSET Synced, mv)
  <2> HIDE DEF iter
  <2> QED BY <1>2 DEF SumIs
<1> HIDE DEF iter
<1> QED BY <1>3, <1>4, SumTyped
(***************************************************************************)
(* The inductive invariant.                                                *)
(***************************************************************************)
\* Unless the host has written it since the tick, a position is the one last followed.
PositionsFollowed == \A s \in Scales : ~touched[s] => scale[s].pos = scale[s].old

\* What a follower has not commanded yet is its remainder, less than one step.
DriftIsRemainder ==
  \A s \in Scales : scale[s].den # 0 /\ ~touched[s] =>
     drift[s] = scale[s].err /\ Magnitude(scale[s].err) < Magnitude(scale[s].den)

\* Nothing that could turn the servo on is under way.
OffInv == off => mode = 0 /\ enable # "write" /\ \A s \in Scales : ~scale[s].sync

\* DIR shows the direction of the last slot.
DirShown == ~dirFree => IF pins.dir THEN step.prev = 1 ELSE step.prev = -1

IInv == TypeOK /\ PositionsFollowed /\ DriftIsRemainder /\ OffInv /\ DirShown

(***************************************************************************)
(* Types.                                                                  *)
(***************************************************************************)
LEMMA Widths ==
  /\ HalfCounter \in Nat \ {0} /\ HalfWord \in Nat \ {0} /\ HalfInt \in Nat \ {0}
  /\ CycleRange \in Nat \ {0} /\ CycleRange > 1 /\ Clock \in Nat \ {0} /\ Accel \in Nat \ {0}
  /\ 0 \in Position /\ 0 \in StepCount /\ 0 \in Cycles
  /\ Position \subseteq Int /\ StepCount \subseteq Int /\ Cycles \subseteq Int
BY WidthAssumption, RateAssumption DEF Position, StepCount, Cycles

\* What the host writes fits the fields it is written to.
LEMMA Written ==
  /\ Nums \subseteq Int /\ Dens \subseteq Int /\ Targets \subseteq Int /\ MaxSpeeds \subseteq Int
  /\ JogSpeeds \subseteq Int /\ IndexSpeeds \subseteq Int /\ Presets \subseteq Position
BY WriteAssumption DEF Position

\* The moves of a tick are less than half the range of a counter.
LEMMA MovesBounded ==
  ASSUME TypeOK, NEW mv \in [Scales -> session.moves], NEW s \in Scales
  PROVE  mv[s] \in (-HalfCounter)..(HalfCounter - 1) /\ -mv[s] \in (-HalfCounter)..(HalfCounter - 1)
         /\ Magnitude(mv[s]) <= HalfCounter - 1 /\ Magnitude(-mv[s]) <= HalfCounter - 1
<1>1. mv[s] \in (1 - HalfCounter)..(HalfCounter - 1)
  BY MoveAssumption, SessionAssumption DEF TypeOK
<1>2. HalfCounter \in Nat \ {0}
  BY Widths
<1> QED BY <1>1, <1>2 DEF Magnitude

\* A tick samples exactly what the encoder moved by, through the wrap of its counter.
LEMMA DeltaIsMove ==
  ASSUME TypeOK, NEW mv \in [Scales -> session.moves], NEW s \in Scales
  PROVE  Delta(s, mv) = Asked(s, mv) /\ Asked(s, mv) \in (-HalfCounter)..(HalfCounter - 1)
         /\ Magnitude(Asked(s, mv)) <= HalfCounter - 1
<1>1. counter[s] \in Int /\ HalfCounter \in Nat \ {0}
  BY Widths DEF TypeOK
<1>2. mv[s] \in (-HalfCounter)..(HalfCounter - 1)
  BY MovesBounded
<1>3. Signed(((counter[s] + mv[s]) % (2 * HalfCounter)) - counter[s], HalfCounter) = mv[s]
  BY <1>1, <1>2, SignedDifference
<1>4. Delta(s, mv) = Asked(s, mv)
  BY <1>3 DEF Delta, Int16, Asked
<1> QED BY <1>4, MovesBounded DEF Asked

\* The fields of a scale.
LEMMA ScaleFields ==
  ASSUME TypeOK, NEW s \in Scales
  PROVE  /\ scale[s] \in ScaleState /\ counter[s] \in Position /\ counter[s] \in Int
         /\ scale[s].pos \in Int /\ scale[s].old \in Int /\ scale[s].err \in Int
         /\ scale[s].num \in Int /\ scale[s].num \in Nums
         /\ scale[s].den \in Int /\ scale[s].den \in Dens
         /\ scale[s].sync \in BOOLEAN /\ touched[s] \in BOOLEAN /\ drift[s] \in Int
<1>1. scale[s] \in ScaleState /\ counter[s] \in Position
  BY DEF TypeOK
<1> QED BY <1>1, Widths, Written DEF ScaleState, TypeOK

\* Following a scale through one tick keeps its types.
LEMMA FollowedTyped ==
  ASSUME TypeOK, NEW mv \in [Scales -> session.moves], NEW s \in Scales
  PROVE  /\ NewPos(s, mv) \in Position
         /\ StartValue(s, mv) \in Int
         /\ ScaledDelta(s, mv) \in Int
         /\ Followed(s, mv) \in ScaleState
<1>1. NewPos(s, mv) \in Position /\ NewPos(s, mv) \in Int
  <2>1. scale[s].pos + Delta(s, mv) \in Int
    BY DeltaIsMove, ScaleFields
  <2> QED BY <2>1, Widths, WordTyped DEF NewPos, Position
<1>2. StartValue(s, mv) \in Int
  <2>1. NewPos(s, mv) - scale[s].old \in Int
    BY <1>1, ScaleFields
  <2>2. Int16(NewPos(s, mv) - scale[s].old) \in Int
    BY <2>1, Widths, SignedTyped DEF Int16
  <2>3. Int16(NewPos(s, mv) - scale[s].old) * scale[s].num + scale[s].err \in Int
    BY <2>2, ScaleFields
  <2> QED BY <2>3, Widths, SignedTyped DEF StartValue
<1>3. ScaledDelta(s, mv) \in Int /\ Remainder(StartValue(s, mv), scale[s].den) \in Int
  BY <1>2, ScaleFields, QuotientTyped, RemainderTyped DEF ScaledDelta
<1>4. Followed(s, mv) \in ScaleState
  BY <1>1, <1>3, ScaleFields DEF Followed, ScaleState
<1> QED BY <1>1, <1>2, <1>3, <1>4

\* The fields of the servo.
LEMMA ServoFields ==
  ASSUME TypeOK
  PROVE  /\ servo.desired \in StepCount /\ servo.current \in StepCount
         /\ servo.desired \in Int /\ servo.current \in Int /\ servo.tgt \in Int
         /\ servo.speed \in Int /\ servo.err \in Int /\ servo.max \in Int
         /\ servo.idx \in Int /\ servo.jog \in Int
<1>1. servo \in ServoState
  BY DEF TypeOK
<1> QED BY <1>1, Widths DEF ServoState

\* What the ramp of the mode leaves: the step count is not yet cut to its word.
RampedState == [desired: Int, current: StepCount, tgt: Int, speed: Int, err: Int, max: Int,
                idx: Int, jog: Int]

\* A tick of the ramp of an index move yields a speed.
LEMMA RampUpTyped ==
  ASSUME NEW tgt \in Int, NEW v \in Int, NEW cap \in Int
  PROVE  RampUp(tgt, v, cap) \in Int
<1> DEFINE reach == 2 * Accel * Clock * tgt
           faster == IF reach > v * v /\ v < cap THEN Least(v + Accel, cap) ELSE v
<1>1. reach \in Int /\ v * v \in Int
  BY Widths
<1>2. faster \in Int
  <2> HIDE DEF reach
  <2> QED BY <1>1, Widths DEF Least
<1>3. RampUp(tgt, v, cap) = IF reach < v * v THEN Greatest(faster - Accel, 0) ELSE faster
  BY DEF RampUp
<1> HIDE DEF reach, faster
<1> QED BY <1>1, <1>2, <1>3, Widths DEF Greatest

\* Both ramps yield a speed.
LEMMA SpeedTyped ==
  ASSUME TypeOK
  PROVE  IndexSpeed \in Int /\ JogSpeed \in Int
<1>1. IndexCap \in Int
  BY ServoFields DEF IndexCap
<1>2. IndexSpeed \in Int
  <2>1. RampUp(servo.tgt, servo.speed, IndexCap) \in Int
    BY <1>1, ServoFields, RampUpTyped
  <2>2. -servo.tgt \in Int /\ -servo.speed \in Int
    BY ServoFields
  <2>3. RampUp(-servo.tgt, -servo.speed, IndexCap) \in Int
    BY <1>1, <2>2, RampUpTyped
  <2> QED BY <2>1, <2>3 DEF IndexSpeed
<1>3. JogStarted \in Int
  BY ServoFields, Widths DEF JogStarted, Least, Greatest
<1>4. JogSpeed \in Int
  BY <1>3, ServoFields, Widths DEF JogSpeed, Least, Greatest
<1> QED BY <1>2, <1>4

\* Advancing by a speed keeps the types, the remainder of the position included.
LEMMA AdvanceTyped ==
  ASSUME TypeOK, NEW v \in Int, NEW togo \in BOOLEAN
  PROVE  Advance(v, togo) \in RampedState
<1> DEFINE asked == v + servo.err
           inc == Quotient(asked, Clock)
           rest == Remainder(asked, Clock)
<1>1. asked \in Int /\ Clock \in Int
  BY ServoFields, Widths
<1>2. inc \in Int /\ rest \in Int
  <2> HIDE DEF asked
  <2> QED BY <1>1, QuotientTyped, RemainderTyped
<1>3. servo \in RampedState
  BY Widths DEF TypeOK, ServoState, RampedState
<1>4. Advance(v, togo) = [servo EXCEPT !.speed = v, !.err = rest, !.desired = @ + inc,
                                       !.tgt = IF togo THEN @ - inc ELSE @]
  BY DEF Advance
<1> HIDE DEF inc, rest
<1>5. servo.tgt - inc \in Int /\ servo.desired + inc \in Int
  BY <1>2, ServoFields
<1>6. CASE togo
  BY <1>2, <1>3, <1>4, <1>5, <1>6 DEF RampedState
<1>7. CASE ~togo
  BY <1>2, <1>3, <1>4, <1>5, <1>7 DEF RampedState
<1> QED BY <1>6, <1>7

\* The ramp of a mode keeps the types and leaves the count of steps.
LEMMA RampedTyped ==
  ASSUME TypeOK
  PROVE  Ramped \in RampedState /\ Ramped.current = servo.current
<1>1. servo \in RampedState
  BY Widths DEF TypeOK, ServoState, RampedState
<1>2. [servo EXCEPT !.speed = 0] \in RampedState
  BY <1>1 DEF RampedState
<1>3. Advance(IndexSpeed, TRUE) \in RampedState /\ Advance(JogSpeed, FALSE) \in RampedState
  BY SpeedTyped, AdvanceTyped
<1>4. Ramped \in RampedState
  BY <1>1, <1>2, <1>3 DEF Ramped
<1>5. \A v, togo : Advance(v, togo).current = servo.current
  BY <1>1 DEF Advance, RampedState
<1>6. Ramped.current = servo.current
  BY <1>1, <1>5 DEF Ramped, RampedState
<1> QED BY <1>4, <1>6

(***************************************************************************)
(* The interrupt: the step it emits, and the scales it follows.            *)
(***************************************************************************)
LEMMA NextCountTyped ==
  ASSUME TypeOK
  PROVE  NextCount \in Cycles
<1>1. step.cycles \in Cycles /\ step.count \in Cycles
  BY DEF TypeOK, StepState
<1>2. step.cycles \in Int /\ step.count \in Int /\ step.count + 1 \in Int
      /\ CycleRange \in Nat \ {0}
  BY <1>1, Widths DEF Cycles
<1>3. CASE step.cycles = 0
  <2>1. (step.count + 1) % CycleRange \in 0..(CycleRange - 1)
    BY <1>2, DivMod
  <2> QED BY <1>3, <2>1 DEF NextCount, Cycles
<1>4. CASE step.cycles # 0
  <2>1. step.cycles \in Nat \ {0} /\ step.cycles <= CycleRange - 1
    BY <1>1, <1>2, <1>4 DEF Cycles
  <2>2. (step.count + 1) % step.cycles \in 0..(step.cycles - 1)
    BY <1>2, <2>1, DivMod
  <2> QED BY <1>2, <1>4, <2>1, <2>2 DEF NextCount, Cycles
<1> QED BY <1>3, <1>4

\* What one tick does to the count, DIR and STEP: a step is one in the direction DIR shows,
\* DIR was left by the slot before, and the slot leaves it in the direction it records.
StepFollowsPins ==
  servo'.current # servo.current
    => /\ pins'.step
       /\ servo'.current = (servo.current + (IF pins'.dir THEN 1 ELSE -1)) % (2 * HalfWord)
StepFollowsDir == servo'.current # servo.current /\ ~dirFree => pins'.dir = pins.dir

\* One tick of step generation.
LEMMA StepOutFacts ==
  ASSUME TypeOK, DirShown, NEW mv \in [Scales -> session.moves], StepOut(mv)
  PROVE  /\ servo' \in ServoState /\ step' \in StepState /\ pins' \in PinState
         /\ dirFree' \in BOOLEAN
         /\ DirShown' /\ StepFollowsPins /\ StepFollowsDir
<1> DEFINE ramped == Ramped
           desired == (ramped.desired + Pull(mv)) % (2 * HalfWord)
           change == Signed(desired - servo.current, HalfWord)
           direction == IF change < 0 THEN -1 ELSE 1
           pulse == Slot /\ ~Reversed(direction) /\ change # 0
           counted == (servo.current + direction) % (2 * HalfWord)
<1>1. ramped \in RampedState /\ ramped.current = servo.current
  BY RampedTyped
<1>2. desired \in StepCount /\ desired \in Int
  <2>1. \A s \in Scales : ScaledDelta(s, mv) \in Int
    BY FollowedTyped
  <2>2. Pull(mv) \in Int
    BY <2>1, PullTyped
  <2>3. ramped.desired + Pull(mv) \in Int
    BY <1>1, <2>2 DEF RampedState
  <2> QED BY <2>3, Widths, WordTyped DEF StepCount
<1>3. change \in Int
  <2>1. desired - servo.current \in Int
    BY <1>2, ServoFields
  <2> QED BY <2>1, Widths, SignedTyped
<1>4. direction \in {-1, 1} /\ direction \in Int
  OBVIOUS
<1>5. counted \in StepCount
  <2>1. servo.current + direction \in Int
    BY <1>4, ServoFields
  <2> QED BY <2>1, Widths, WordTyped DEF StepCount
<1>6. /\ servo' = [ramped EXCEPT !.desired = desired, !.current = IF pulse THEN counted ELSE @]
      /\ step' = [step EXCEPT !.count = NextCount, !.prev = IF Slot THEN direction ELSE @]
      /\ pins' = [pins EXCEPT !.step = pulse,
                              !.dir = IF Slot /\ DirDue(change) THEN change > 0 ELSE @]
      /\ dirFree' = IF Slot THEN change = 0 ELSE dirFree
  <2>1. servo' = [ramped EXCEPT !.desired = desired,
                    !.current = IF pulse THEN (@ + direction) % (2 * HalfWord) ELSE @]
    BY DEF StepOut
  <2>2. servo' = [ramped EXCEPT !.desired = desired, !.current = IF pulse THEN counted ELSE @]
    <3> HIDE DEF desired, change, direction, pulse, ramped
    <3> QED BY <1>1, <2>1 DEF RampedState
  <2> QED BY <2>2 DEF StepOut
<1>7. step \in StepState /\ pins \in PinState /\ dirFree \in BOOLEAN /\ servo.current \in StepCount
  BY ServoFields DEF TypeOK
<1>8. pulse \in BOOLEAN /\ (pulse => Slot /\ direction = step.prev /\ change # 0)
  BY DEF Reversed
<1>9. DirDue(change) <=> change # 0
  BY DEF DirDue
<1>10. Slot \in BOOLEAN
  BY DEF Slot
<1>11. direction = IF change < 0 THEN -1 ELSE 1
  OBVIOUS
<1>12. counted = (servo.current + direction) % (2 * HalfWord)
  OBVIOUS
<1> HIDE DEF ramped, desired, change, direction, pulse, counted
<1>13. servo'.current = IF pulse THEN counted ELSE servo.current
  BY <1>1, <1>6 DEF RampedState
<1>14. /\ pins'.step = pulse
       /\ pins'.dir = IF Slot /\ change # 0 THEN change > 0 ELSE pins.dir
       /\ step'.prev = IF Slot THEN direction ELSE step.prev
  BY <1>6, <1>7, <1>9 DEF PinState, StepState
<1>15. servo' \in ServoState
  BY <1>1, <1>2, <1>5, <1>6 DEF RampedState, ServoState
<1>16. step' \in StepState
  BY <1>4, <1>6, <1>7, NextCountTyped DEF StepState
<1>17. pins' \in PinState
  <2>1. (change > 0) \in BOOLEAN
    OBVIOUS
  <2> QED BY <1>6, <1>7, <1>8, <2>1 DEF PinState
<1>18. dirFree' \in BOOLEAN
  BY <1>6, <1>7
<1>19. ASSUME Slot, change # 0
       PROVE  /\ pins'.dir \in BOOLEAN /\ step'.prev = direction
              /\ direction = IF pins'.dir THEN 1 ELSE -1
  <2>1. pins'.dir = (change > 0) /\ step'.prev = direction
    BY <1>14, <1>19
  <2>2. CASE change > 0
    <3>1. pins'.dir = TRUE
      BY <2>1, <2>2
    <3> QED BY <1>3, <1>11, <2>1, <2>2, <3>1
  <2>3. CASE ~(change > 0)
    <3>1. pins'.dir = FALSE
      <4> DEFINE ahead == change > 0
      <4>1. pins'.dir = ahead /\ ~ahead /\ ahead \in BOOLEAN
        BY <2>1, <2>3
      <4> HIDE DEF ahead
      <4> QED BY <4>1, Zenon
    <3>2. change < 0
      BY <1>3, <1>19, <2>3
    <3> QED BY <1>11, <2>1, <3>1, <3>2
  <2> QED BY <2>2, <2>3
<1>20. DirShown'
  <2>1. CASE Slot /\ change = 0
    <3>1. dirFree' = TRUE
      BY <1>6, <2>1
    <3> QED BY <3>1 DEF DirShown
  <2>2. CASE Slot /\ change # 0
    <3> QED BY <1>19, <2>2 DEF DirShown
  <2>3. CASE ~Slot
    <3>1. step'.prev = step.prev /\ pins'.dir = pins.dir /\ dirFree' = dirFree
      BY <1>6, <1>14, <2>3
    <3> QED BY <3>1 DEF DirShown
  <2> QED BY <1>3, <2>1, <2>2, <2>3
<1>21. servo'.current # servo.current => pulse
  BY <1>13
<1>22. ASSUME pulse
       PROVE  pins'.step /\ direction = step.prev /\ direction = IF pins'.dir THEN 1 ELSE -1
  <2>1. Slot /\ change # 0 /\ direction = step.prev
    BY <1>8, <1>22
  <2> QED BY <1>14, <1>22, <1>19, <2>1
<1>23. StepFollowsPins
  BY <1>12, <1>13, <1>21, <1>22 DEF StepFollowsPins
<1>24. StepFollowsDir
  <2>1. ASSUME pulse, ~dirFree PROVE pins'.dir = pins.dir
    <3>1. pins.dir \in BOOLEAN /\ pins'.dir \in BOOLEAN
      BY <1>7, <1>17 DEF PinState
    <3> QED BY <1>22, <2>1, <3>1 DEF DirShown
  <2> QED BY <1>21, <2>1 DEF StepFollowsDir
<1> QED BY <1>15, <1>16, <1>17, <1>18, <1>20, <1>23, <1>24

\* Following adds to the drift what the encoder made and takes off what is commanded; the
\* arithmetic of a ratio does not overflow.
LEMMA StartValueExact ==
  ASSUME TypeOK, PositionsFollowed, DriftIsRemainder, NEW mv \in [Scales -> session.moves],
         NEW s \in Scales, ~touched[s], scale[s].den # 0
  PROVE  StartValue(s, mv) = scale[s].num * Asked(s, mv) + scale[s].err
<1> DEFINE H == HalfCounter - 1
           asked == Asked(s, mv)
           n == scale[s].num
           err == scale[s].err
           d == Magnitude(scale[s].den)
<1>1. asked \in Int /\ Magnitude(asked) <= H /\ n \in Int /\ err \in Int /\ H \in Nat /\ d \in Nat
  BY DeltaIsMove, ScaleFields, Widths, MagnitudeTyped
<1>2. Int16(NewPos(s, mv) - scale[s].old) = asked
  <2>1. scale[s].pos = scale[s].old
    BY DEF PositionsFollowed
  <2>2. NewPos(s, mv) = (scale[s].pos + asked) % (2 * HalfCounter)
    BY DeltaIsMove DEF NewPos
  <2>3. scale[s].pos \in Int /\ asked \in (-HalfCounter)..(HalfCounter - 1)
    BY DeltaIsMove, ScaleFields
  <2>4. Signed(((scale[s].pos + asked) % (2 * HalfCounter)) - scale[s].pos, HalfCounter) = asked
    <3> HIDE DEF asked
    <3> QED BY <2>3, Widths, SignedDifference
  <2> QED BY <2>1, <2>2, <2>4 DEF Int16
<1>3. Magnitude(n) * H + d <= HalfInt /\ HalfInt \in Nat \ {0}
  BY RatioAssumption, ScaleFields, Widths
<1>4. Magnitude(err) < d
  BY DEF DriftIsRemainder
<1>5. asked * n \in Int /\ n * asked = asked * n
  <2> HIDE DEF asked, n
  <2> QED BY <1>1
<1>6. StartValue(s, mv) = Signed(asked * n + err, HalfInt)
  BY <1>2 DEF StartValue
<1> HIDE DEF asked, n, err, d, H
<1>7. Magnitude(asked * n) <= Magnitude(n) * H
  <2>1. asked <= H /\ -asked <= H
    BY <1>1 DEF Magnitude
  <2>2. CASE n >= 0
    <3>1. (H - asked) * n >= 0 /\ (H + asked) * n >= 0
      BY <1>1, <2>1, <2>2
    <3>2. asked * n <= n * H /\ -(asked * n) <= n * H
      BY <1>1, <3>1
    <3> QED BY <1>1, <1>5, <2>2, <3>2 DEF Magnitude
  <2>3. CASE n < 0
    <3>1. (H - asked) * (-n) >= 0 /\ (H + asked) * (-n) >= 0
      BY <1>1, <2>1, <2>3
    <3>2. asked * n <= (-n) * H /\ -(asked * n) <= (-n) * H
      BY <1>1, <3>1
    <3> QED BY <1>1, <1>5, <2>3, <3>2 DEF Magnitude
  <2> QED BY <1>1, <2>2, <2>3
<1>8. asked * n + err \in (-HalfInt)..(HalfInt - 1)
  <2> DEFINE p == asked * n
             c == Magnitude(n) * H
  <2>1. p \in Int /\ c \in Int /\ Magnitude(p) <= c /\ c + d <= HalfInt
    BY <1>1, <1>3, <1>5, <1>7, MagnitudeTyped
  <2> HIDE DEF p, c
  <2>2. p + err \in (-HalfInt)..(HalfInt - 1)
    BY <1>1, <1>3, <1>4, <2>1 DEF Magnitude
  <2> QED BY <2>2 DEF p
<1>9. Signed(asked * n + err, HalfInt) = asked * n + err
  BY <1>3, <1>8, SignedSmall
<1>10. StartValue(s, mv) = n * asked + err
  BY <1>5, <1>6, <1>9
<1> QED BY <1>10 DEF n, asked, err

\* After a tick the drift is the remainder again.
LEMMA DriftKept ==
  ASSUME TypeOK, PositionsFollowed, DriftIsRemainder, NEW mv \in [Scales -> session.moves],
         NEW s \in Scales
  PROVE  /\ Drift(s, mv) = Followed(s, mv).err
         /\ Drift(s, mv) \in Int
         /\ Followed(s, mv).den # 0
              => Magnitude(Followed(s, mv).err) < Magnitude(Followed(s, mv).den)
         /\ Followed(s, mv).pos = Followed(s, mv).old
         /\ Followed(s, mv).sync = scale[s].sync
<1> DEFINE start == StartValue(s, mv)
           rest == Remainder(start, scale[s].den)
<1>1. start \in Int /\ scale[s].den \in Int /\ scale[s] \in ScaleState
  BY FollowedTyped, ScaleFields
<1>2. /\ Followed(s, mv).err = rest /\ Followed(s, mv).den = scale[s].den
      /\ Followed(s, mv).pos = Followed(s, mv).old /\ Followed(s, mv).sync = scale[s].sync
  BY <1>1 DEF Followed, ScaleState
<1>3. rest \in Int /\ (scale[s].den # 0 => Magnitude(rest) < Magnitude(scale[s].den))
  <2> HIDE DEF start
  <2> QED BY <1>1, RemainderTyped, RemainderSmall
<1>4. Drift(s, mv) = rest
  <2>1. CASE touched[s] \/ scale[s].den = 0
    BY <1>2, <2>1 DEF Drift
  <2>2. CASE ~touched[s] /\ scale[s].den # 0
    <3> DEFINE made == scale[s].num * Asked(s, mv)
               out == scale[s].den * ScaledDelta(s, mv)
    <3>1. start = made + scale[s].err
      BY <2>2, StartValueExact
    <3>2. rest = start - out
      BY DEF Remainder, ScaledDelta
    <3>3. Drift(s, mv) = drift[s] + made - out
      BY <2>2 DEF Drift
    <3>4. drift[s] = scale[s].err /\ scale[s].err \in Int
      BY <2>2, ScaleFields DEF DriftIsRemainder
    <3>5. made \in Int /\ out \in Int
      BY DeltaIsMove, ScaleFields, FollowedTyped
    <3> HIDE DEF made, out, start, rest
    <3> QED BY <3>1, <3>2, <3>3, <3>4, <3>5
  <2> QED BY <2>1, <2>2, ScaleFields
<1> QED BY <1>2, <1>3, <1>4

(***************************************************************************)
(* Every step keeps the invariant.                                         *)
(***************************************************************************)
LEMMA InitInv ==
  ASSUME Init
  PROVE  IInv
<1>1. Defaults.num \in Nums /\ Defaults.den \in Dens /\ Defaults.den \in Int /\ Defaults.max \in Int
  BY DefaultsAssumption, Written
<1>2. session.limit \in Nat /\ session \in Sessions
  BY SessionAssumption DEF Init
<1>3. TypeOK
  <2>1. counter \in [Scales -> Position] /\ scale \in [Scales -> ScaleState]
    BY <1>1, Widths DEF Init, ScaleState
  <2>2. servo \in ServoState /\ step \in StepState /\ pins \in PinState
    BY <1>1, Widths DEF Init, ServoState, StepState, PinState
  <2>3. touched \in [Scales -> BOOLEAN] /\ drift \in [Scales -> Int]
    BY DEF Init
  <2>4. mode \in 0..2 /\ off \in BOOLEAN /\ dirFree \in BOOLEAN
        /\ enable \in {"delay", "write", "pin"}
    <3>1. mode = 0 /\ off = FALSE /\ dirFree = TRUE /\ enable = "delay"
      BY DEF Init
    <3>2. 0 \in 0..2
      OBVIOUS
    <3> QED BY <3>1, <3>2
  <2>5. writes \in 0..session.limit
    <3>1. writes = 0
      BY DEF Init
    <3> QED BY <1>2, <3>1
  <2> QED BY <1>2, <2>1, <2>2, <2>3, <2>4, <2>5 DEF TypeOK
<1>4. PositionsFollowed
  BY DEF Init, PositionsFollowed
<1>5. DriftIsRemainder
  <2>1. Defaults.den # 0 => Magnitude(0) < Magnitude(Defaults.den)
    BY <1>1 DEF Magnitude
  <2> QED BY <2>1 DEF Init, DriftIsRemainder
<1>6. OffInv /\ DirShown
  BY DEF Init, OffInv, DirShown
<1> QED BY <1>3, <1>4, <1>5, <1>6 DEF IInv

\* The interrupt keeps the invariant, and its step follows the pins.
LEMMA TickInv ==
  ASSUME IInv, Tick
  PROVE  IInv' /\ StepFollowsPins /\ StepFollowsDir
<1>1. TypeOK /\ PositionsFollowed /\ DriftIsRemainder /\ OffInv /\ DirShown
  BY DEF IInv
<1>2. PICK mv \in [Scales -> session.moves] :
        /\ counter' = [s \in Scales |-> (counter[s] + mv[s]) % (2 * HalfCounter)]
        /\ scale' = [s \in Scales |-> Followed(s, mv)]
        /\ StepOut(mv)
        /\ drift' = [s \in Scales |-> Drift(s, mv)]
        /\ touched' = [s \in Scales |-> FALSE]
        /\ UNCHANGED <<mode, enable, session, writes, off>>
  BY DEF Tick
<1>3. /\ servo' \in ServoState /\ step' \in StepState /\ pins' \in PinState /\ dirFree' \in BOOLEAN
      /\ DirShown' /\ StepFollowsPins /\ StepFollowsDir
  BY <1>1, <1>2, StepOutFacts
<1>4. \A s \in Scales :
        /\ Followed(s, mv) \in ScaleState
        /\ Drift(s, mv) = Followed(s, mv).err
        /\ Drift(s, mv) \in Int
        /\ Followed(s, mv).den # 0
             => Magnitude(Followed(s, mv).err) < Magnitude(Followed(s, mv).den)
        /\ Followed(s, mv).pos = Followed(s, mv).old
        /\ Followed(s, mv).sync = scale[s].sync
  BY <1>1, FollowedTyped, DriftKept
<1>5. counter' \in [Scales -> Position]
  <2>1. ASSUME NEW s \in Scales PROVE (counter[s] + mv[s]) % (2 * HalfCounter) \in Position
    <3>1. counter[s] + mv[s] \in Int
      BY <1>1, MovesBounded, ScaleFields, Widths
    <3> QED BY <3>1, Widths, WordTyped DEF Position
  <2> QED BY <1>2, <2>1
<1>6. TypeOK'
  <2>1. scale' \in [Scales -> ScaleState] /\ drift' \in [Scales -> Int]
        /\ touched' \in [Scales -> BOOLEAN]
    BY <1>2, <1>4
  <2> QED BY <1>1, <1>2, <1>3, <1>5, <2>1 DEF TypeOK
<1>7. PositionsFollowed'
  BY <1>2, <1>4 DEF PositionsFollowed
<1>8. DriftIsRemainder'
  BY <1>2, <1>4 DEF DriftIsRemainder
<1>9. OffInv'
  BY <1>1, <1>2, <1>4 DEF OffInv
<1> QED BY <1>3, <1>6, <1>7, <1>8, <1>9 DEF IInv

\* The period of a speed is within the range of servoCycles.
LEMMA PeriodTyped ==
  ASSUME NEW speed \in Int
  PROVE  Period(speed) \in Cycles
<1>1. CASE speed <= 0
  BY <1>1, Widths DEF Period, Cycles
<1>2. CASE speed > 0
  <2>1. Clock \div speed \in Nat
    BY <1>2, Widths
  <2> QED BY <1>2, <2>1, Widths DEF Period, Least, Cycles
<1> QED BY <1>1, <1>2

\* The low-priority tasks keep the invariant and do not count steps.
LEMMA TasksInv ==
  ASSUME IInv, SpeedTask \/ EnableTest \/ EnableWrite \/ EnablePin
  PROVE  IInv' /\ servo'.current = servo.current
<1> USE DEF IInv
<1>1. CASE SpeedTask
  <2>1. servo' \in ServoState /\ servo'.max \in Int /\ servo'.current = servo.current
    <3>1. Least(servo.max, Clock) \in Int
      BY ServoFields, Widths DEF Least
    <3>2. servo \in ServoState /\ servo' = [servo EXCEPT !.max = Least(@, Clock)]
      BY <1>1 DEF SpeedTask, TypeOK
    <3> QED BY <3>1, <3>2 DEF ServoState
  <2>2. step' \in StepState /\ step'.prev = step.prev
    <3>1. Period(servo'.max) \in Cycles
      BY <2>1, PeriodTyped
    <3>2. step \in StepState /\ step' = [step EXCEPT !.cycles = Period(servo'.max)]
      BY <1>1 DEF SpeedTask, TypeOK
    <3> QED BY <3>1, <3>2 DEF StepState
  <2>3. TypeOK'
    BY <1>1, <2>1, <2>2 DEF SpeedTask, TypeOK
  <2>4. PositionsFollowed' /\ DriftIsRemainder' /\ OffInv'
    BY <1>1 DEF SpeedTask, PositionsFollowed, DriftIsRemainder, OffInv
  <2>5. DirShown'
    BY <1>1, <2>2 DEF SpeedTask, DirShown
  <2> QED BY <2>1, <2>3, <2>4, <2>5
<1>2. CASE EnableTest
  <2>1. TypeOK'
    BY <1>2 DEF EnableTest, TypeOK
  <2>2. PositionsFollowed' /\ DriftIsRemainder' /\ DirShown'
    BY <1>2 DEF EnableTest, PositionsFollowed, DriftIsRemainder, DirShown
  <2>3. OffInv'
    BY <1>2 DEF EnableTest, SyncWanted, OffInv
  <2> QED BY <1>2, <2>1, <2>2, <2>3 DEF EnableTest
<1>3. CASE EnableWrite
  <2>1. TypeOK'
    BY <1>3 DEF EnableWrite, TypeOK
  <2>2. PositionsFollowed' /\ DriftIsRemainder' /\ DirShown'
    BY <1>3 DEF EnableWrite, PositionsFollowed, DriftIsRemainder, DirShown
  <2>3. OffInv'
    BY <1>3 DEF EnableWrite, OffInv
  <2> QED BY <1>3, <2>1, <2>2, <2>3 DEF EnableWrite
<1>4. CASE EnablePin
  <2>1. pins' \in PinState /\ pins'.dir = pins.dir
    <3>1. pins \in PinState /\ (mode # 0) \in BOOLEAN /\ pins' = [pins EXCEPT !.ena = mode # 0]
      BY <1>4 DEF EnablePin, TypeOK
    <3> QED BY <3>1 DEF PinState
  <2>2. TypeOK'
    BY <1>4, <2>1 DEF EnablePin, TypeOK
  <2>3. PositionsFollowed' /\ DriftIsRemainder' /\ OffInv'
    BY <1>4 DEF EnablePin, PositionsFollowed, DriftIsRemainder, OffInv
  <2>4. DirShown'
    BY <1>4, <2>1 DEF EnablePin, DirShown
  <2> QED BY <1>4, <2>2, <2>3, <2>4 DEF EnablePin
<1> QED BY <1>1, <1>2, <1>3, <1>4

\* A write of the host counts against its bound.
LEMMA WriteTyped ==
  ASSUME TypeOK, NEW name, Write(name)
  PROVE  session' \in Sessions /\ writes' \in 0..session'.limit
<1>1. session \in Sessions /\ session.limit \in Nat /\ writes \in 0..session.limit
  BY SessionAssumption DEF TypeOK
<1> QED BY <1>1 DEF Write

\* A write of a scale that leaves its remainder, and says so when it moves the position or
\* the denominator.
LEMMA SetScaleInv ==
  ASSUME IInv, NEW name, NEW s \in Scales, NEW new \in ScaleState, NEW jump \in BOOLEAN,
         new.old = scale[s].old /\ new.err = scale[s].err,
         ~jump => new.pos = scale[s].pos /\ new.den = scale[s].den,
         SetScale(name, s, new, jump)
  PROVE  IInv' /\ servo'.current = servo.current
<1> USE DEF IInv
<1>1. scale' = [scale EXCEPT ![s] = new] /\ touched' = [touched EXCEPT ![s] = @ \/ jump]
      /\ off' = (off /\ ~new.sync)
      /\ UNCHANGED <<counter, servo, mode, step, pins, enable, drift, dirFree>>
      /\ session' \in Sessions /\ writes' \in 0..session'.limit
  BY WriteTyped DEF SetScale
<1>2. \A r \in Scales : /\ scale'[r] = IF r = s THEN new ELSE scale[r]
                        /\ touched'[r] = IF r = s THEN touched[s] \/ jump ELSE touched[r]
  BY <1>1 DEF TypeOK
<1>3. TypeOK'
  <2>1. scale' \in [Scales -> ScaleState]
    BY <1>1 DEF TypeOK
  <2>2. touched' \in [Scales -> BOOLEAN]
    BY <1>1 DEF TypeOK
  <2>3. off' \in BOOLEAN
    BY <1>1
  <2> QED BY <1>1, <2>1, <2>2, <2>3 DEF TypeOK
<1>4. PositionsFollowed'
  <2>1. ASSUME NEW r \in Scales, ~touched'[r]
        PROVE  scale'[r].pos = scale'[r].old
    <3>1. ~touched[r] /\ scale'[r].pos = scale[r].pos /\ scale'[r].old = scale[r].old
      BY <1>2, <2>1
    <3> QED BY <3>1 DEF PositionsFollowed
  <2> QED BY <2>1 DEF PositionsFollowed
<1>5. DriftIsRemainder'
  <2>1. ASSUME NEW r \in Scales, scale'[r].den # 0, ~touched'[r]
        PROVE  drift'[r] = scale'[r].err /\ Magnitude(scale'[r].err) < Magnitude(scale'[r].den)
    <3>1. ~touched[r] /\ scale'[r].err = scale[r].err /\ scale'[r].den = scale[r].den
      BY <1>2, <2>1
    <3>2. drift[r] = scale[r].err /\ Magnitude(scale[r].err) < Magnitude(scale[r].den)
      BY <2>1, <3>1 DEF DriftIsRemainder
    <3> QED BY <1>1, <3>1, <3>2
  <2> QED BY <2>1 DEF DriftIsRemainder
<1>6. OffInv'
  <2>1. ASSUME off' PROVE mode' = 0 /\ enable' # "write" /\ \A r \in Scales : ~scale'[r].sync
    <3>1. off /\ ~new.sync
      BY <1>1, <2>1
    <3> QED BY <1>1, <1>2, <3>1 DEF OffInv
  <2> QED BY <2>1 DEF OffInv
<1>7. DirShown'
  BY <1>1 DEF DirShown
<1> QED BY <1>1, <1>3, <1>4, <1>5, <1>6, <1>7

\* A write of the servo that leaves the count of steps.
LEMMA SetServoInv ==
  ASSUME IInv, NEW name, NEW new \in ServoState, new.current = servo.current, SetServo(name, new)
  PROVE  IInv' /\ servo'.current = servo.current
<1> USE DEF IInv
<1>1. servo' = new
      /\ UNCHANGED <<counter, scale, mode, step, pins, enable, touched, drift, off, dirFree>>
      /\ session' \in Sessions /\ writes' \in 0..session'.limit
  BY WriteTyped DEF SetServo
<1>2. TypeOK'
  BY <1>1 DEF TypeOK
<1>3. PositionsFollowed' /\ DriftIsRemainder' /\ OffInv' /\ DirShown'
  BY <1>1 DEF PositionsFollowed, DriftIsRemainder, OffInv, DirShown
<1> QED BY <1>1, <1>2, <1>3

\* The variables of a scale.
LEMMA HostScaleInv ==
  ASSUME IInv, SetPos \/ SetNum \/ SetDen \/ SetSync \/ SetDir
  PROVE  IInv' /\ servo'.current = servo.current
<1>1. ASSUME NEW s \in Scales PROVE scale[s] \in ScaleState
  BY DEF IInv, TypeOK
<1>2. CASE SetPos
  <2>1. PICK s \in Scales, v \in Presets : SetScale("pos", s, [scale[s] EXCEPT !.pos = v], TRUE)
    BY <1>2 DEF SetPos
  <2> DEFINE new == [scale[s] EXCEPT !.pos = v]
  <2>2. new \in ScaleState /\ new.old = scale[s].old /\ new.err = scale[s].err
    BY <1>1, Written DEF ScaleState
  <2> HIDE DEF new
  <2>3. SetScale("pos", s, new, TRUE)
    BY <2>1 DEF new
  <2> QED BY <2>2, <2>3, SetScaleInv
<1>3. CASE SetNum
  <2>1. PICK s \in Scales, v \in Nums : SetScale("num", s, [scale[s] EXCEPT !.num = v], FALSE)
    BY <1>3 DEF SetNum
  <2> DEFINE new == [scale[s] EXCEPT !.num = v]
  <2>2. new \in ScaleState /\ new.old = scale[s].old /\ new.err = scale[s].err
        /\ new.pos = scale[s].pos /\ new.den = scale[s].den
    BY <1>1 DEF ScaleState
  <2> HIDE DEF new
  <2>3. SetScale("num", s, new, FALSE)
    BY <2>1 DEF new
  <2> QED BY <2>2, <2>3, SetScaleInv
<1>4. CASE SetDen
  <2>1. PICK s \in Scales, v \in Dens : SetScale("den", s, [scale[s] EXCEPT !.den = v], TRUE)
    BY <1>4 DEF SetDen
  <2> DEFINE new == [scale[s] EXCEPT !.den = v]
  <2>2. new \in ScaleState /\ new.old = scale[s].old /\ new.err = scale[s].err
    BY <1>1 DEF ScaleState
  <2> HIDE DEF new
  <2>3. SetScale("den", s, new, TRUE)
    BY <2>1 DEF new
  <2> QED BY <2>2, <2>3, SetScaleInv
<1>5. CASE SetSync
  <2>1. PICK s \in Scales, b \in BOOLEAN : SetScale("sync", s, [scale[s] EXCEPT !.sync = b], FALSE)
    BY <1>5 DEF SetSync
  <2> DEFINE new == [scale[s] EXCEPT !.sync = b]
  <2>2. new \in ScaleState /\ new.old = scale[s].old /\ new.err = scale[s].err
        /\ new.pos = scale[s].pos /\ new.den = scale[s].den
    BY <1>1 DEF ScaleState
  <2> HIDE DEF new
  <2>3. SetScale("sync", s, new, FALSE)
    BY <2>1 DEF new
  <2> QED BY <2>2, <2>3, SetScaleInv
<1>6. CASE SetDir
  <2>1. PICK s \in Scales, b \in BOOLEAN : SetScale("dir", s, [scale[s] EXCEPT !.inv = b], FALSE)
    BY <1>6 DEF SetDir
  <2> DEFINE new == [scale[s] EXCEPT !.inv = b]
  <2>2. new \in ScaleState /\ new.old = scale[s].old /\ new.err = scale[s].err
        /\ new.pos = scale[s].pos /\ new.den = scale[s].den
    BY <1>1 DEF ScaleState
  <2> HIDE DEF new
  <2>3. SetScale("dir", s, new, FALSE)
    BY <2>1 DEF new
  <2> QED BY <2>2, <2>3, SetScaleInv
<1> QED BY <1>2, <1>3, <1>4, <1>5, <1>6

\* The variables of the servo.
LEMMA HostServoInv ==
  ASSUME IInv, SetTgt \/ SetMax \/ SetJog \/ SetIdx
  PROVE  IInv' /\ servo'.current = servo.current
<1>1. servo \in ServoState
  BY DEF IInv, TypeOK
<1>2. CASE SetTgt
  <2>1. PICK v \in Targets : SetServo("tgt", [servo EXCEPT !.tgt = v])
    BY <1>2 DEF SetTgt
  <2>2. [servo EXCEPT !.tgt = v] \in ServoState /\ [servo EXCEPT !.tgt = v].current = servo.current
    BY <1>1, Written DEF ServoState
  <2> QED BY <2>1, <2>2, SetServoInv
<1>3. CASE SetMax
  <2>1. PICK v \in MaxSpeeds : SetServo("max", [servo EXCEPT !.max = v])
    BY <1>3 DEF SetMax
  <2>2. [servo EXCEPT !.max = v] \in ServoState /\ [servo EXCEPT !.max = v].current = servo.current
    BY <1>1, Written DEF ServoState
  <2> QED BY <2>1, <2>2, SetServoInv
<1>4. CASE SetJog
  <2>1. PICK v \in JogSpeeds : SetServo("jog", [servo EXCEPT !.jog = v])
    BY <1>4 DEF SetJog
  <2>2. [servo EXCEPT !.jog = v] \in ServoState /\ [servo EXCEPT !.jog = v].current = servo.current
    BY <1>1, Written DEF ServoState
  <2> QED BY <2>1, <2>2, SetServoInv
<1>5. CASE SetIdx
  <2>1. PICK v \in IndexSpeeds : SetServo("idx", [servo EXCEPT !.idx = v])
    BY <1>5 DEF SetIdx
  <2>2. [servo EXCEPT !.idx = v] \in ServoState /\ [servo EXCEPT !.idx = v].current = servo.current
    BY <1>1, Written DEF ServoState
  <2> QED BY <2>1, <2>2, SetServoInv
<1> QED BY <1>2, <1>3, <1>4, <1>5

\* The mode, and outputs forced by hand.
LEMMA HostRestInv ==
  ASSUME IInv, SetMode \/ Dout
  PROVE  IInv' /\ servo'.current = servo.current
<1> USE DEF IInv
<1>1. CASE SetMode
  <2>1. PICK m \in 0..2 :
          /\ Write("mode")
          /\ mode' = m
          /\ off' = (m = 0 /\ enable # "write" /\ \A s \in Scales : ~scale[s].sync)
          /\ UNCHANGED <<counter, scale, servo, step, pins, enable, touched, drift, dirFree>>
    BY <1>1 DEF SetMode
  <2>2. session' \in Sessions /\ writes' \in 0..session'.limit
    BY <2>1, WriteTyped
  <2>3. off' \in BOOLEAN
    BY <2>1
  <2>4. TypeOK'
    BY <2>1, <2>2, <2>3 DEF TypeOK
  <2>5. PositionsFollowed' /\ DriftIsRemainder' /\ OffInv' /\ DirShown'
    BY <2>1 DEF PositionsFollowed, DriftIsRemainder, OffInv, DirShown
  <2> QED BY <2>1, <2>4, <2>5
<1>2. CASE Dout
  <2>1. PICK p \in DOMAIN pins, b \in BOOLEAN :
          /\ Write("dout")
          /\ pins' = [pins EXCEPT ![p] = b]
          /\ dirFree' = (dirFree \/ p = "dir")
          /\ UNCHANGED <<counter, scale, servo, mode, step, enable, touched, drift, off>>
    BY <1>2 DEF Dout
  <2>2. session' \in Sessions /\ writes' \in 0..session'.limit
    BY <2>1, WriteTyped
  <2>3. pins' \in PinState /\ (p # "dir" => pins'.dir = pins.dir)
    <3>1. pins \in PinState
      BY DEF TypeOK
    <3>2. p \in {"step", "dir", "ena"}
      BY <3>1 DEF PinState
    <3> QED BY <2>1, <3>1, <3>2 DEF PinState
  <2>4. TypeOK'
    BY <2>1, <2>2, <2>3 DEF TypeOK
  <2>5. PositionsFollowed' /\ DriftIsRemainder' /\ OffInv'
    BY <2>1 DEF PositionsFollowed, DriftIsRemainder, OffInv
  <2>6. DirShown'
    BY <2>1, <2>3 DEF DirShown
  <2> QED BY <2>1, <2>4, <2>5, <2>6
<1> QED BY <1>1, <1>2

\* Every step keeps the invariant, and moves the count only with the pins.
LEMMA NextInv ==
  ASSUME IInv, [Next]_vars
  PROVE  IInv' /\ [StepFollowsPins /\ StepFollowsDir]_vars
<1>1. CASE Tick
  BY <1>1, TickInv
<1>2. CASE SpeedTask \/ EnableTest \/ EnableWrite \/ EnablePin
  BY <1>2, TasksInv DEF StepFollowsPins, StepFollowsDir
<1>3. CASE Host
  BY <1>3, HostScaleInv, HostServoInv, HostRestInv DEF Host, StepFollowsPins, StepFollowsDir
<1>4. CASE UNCHANGED vars
  BY <1>4 DEF vars, IInv, TypeOK, PositionsFollowed, DriftIsRemainder, OffInv, DirShown
<1> QED BY <1>1, <1>2, <1>3, <1>4 DEF Next

(***************************************************************************)
(* The theorems.                                                           *)
(***************************************************************************)
\* In every reachable state a position is the one last followed, the drift of a follower is its
\* remainder, nothing is about to turn on a servo switched off, and DIR shows the last slot.
THEOREM InvariantHolds == Spec => []IInv
<1>1. Init => IInv
  BY InitInv
<1>2. IInv /\ [Next]_vars => IInv'
  BY NextInv
<1> QED BY <1>1, <1>2, PTL DEF Spec

\* Every variable of the motion core has its type, the sum over the scales in sync included.
THEOREM TypeCorrect == Spec => []TypeOK
<1>1. IInv => TypeOK
  BY DEF IInv
<1> QED BY <1>1, InvariantHolds, PTL

\* No follower ever drifts by a step: through any moves, reversals, wraps and changes of ratio,
\* what SynchroRefreshTimerIsr commanded is the exact motion but for a remainder below den.
THEOREM FollowersExact == Spec => []FollowerExact
<1>1. IInv => FollowerExact
  BY DEF IInv, DriftIsRemainder, FollowerExact
<1> QED BY <1>1, InvariantHolds, PTL

\* Once the host has switched the servo off with no scale in sync, outside the test and write
\* of servoEnableTask, it stays off until the host says otherwise.
THEOREM StaysOff == Spec => []OffStaysOff
<1>1. IInv => OffStaysOff
  BY DEF IInv, OffInv, OffStaysOff
<1> QED BY <1>1, InvariantHolds, PTL

\* currentSteps moves only with a rising STEP, by the direction DIR shows at that edge.
THEOREM CountIsMotor == Spec => CountFollowsPins
<1>1. IInv /\ [Next]_vars =>
        [servo'.current # servo.current
           => /\ pins'.step
              /\ servo'.current
                   = (servo.current + (IF pins'.dir THEN 1 ELSE -1)) % (2 * HalfWord)]_vars
  BY NextInv DEF StepFollowsPins
<1> QED BY <1>1, InvariantHolds, PTL DEF Spec, CountFollowsPins

\* Except out of standstill or after dout, DIR has been set for a slot when STEP rises.
THEOREM DirSetupHeld == Spec => DirLeadsStep
<1>1. IInv /\ [Next]_vars
        => [servo'.current # servo.current /\ ~dirFree => pins'.dir = pins.dir]_vars
  BY NextInv DEF StepFollowsDir
<1> QED BY <1>1, InvariantHolds, PTL DEF Spec, DirLeadsStep

=============================================================================
