-------------------------- MODULE ServoStreamProofs --------------------------
(***************************************************************************)
(* Proofs about ServoStream, for any limits, levers, requests and grace    *)
(* window.                                                                 *)
(***************************************************************************)
EXTENDS ServoStream, TLAPS

Within(q) == \A j \in Joints : Lo[j] <= q[j] /\ q[j] <= Hi[j]

\* No arm is seeded in the margin of its limits or beyond them.
SeededInside == \A q \in Postures : Within(q)

(***************************************************************************)
(* Arithmetic.                                                             *)
(***************************************************************************)
\* Multiplying by a natural keeps an order.
LEMMA TimesKeepsOrder ==
  ASSUME NEW a \in Int, NEW b \in Int, NEW c \in Nat, a <= b
  PROVE  a * c <= b * c
<1>1. a * c \in Int /\ b * c \in Int /\ (b - a) * c = b * c - a * c
  OBVIOUS
<1>2. (b - a) * c >= 0
  OBVIOUS
<1> QED
  BY <1>1, <1>2

\* ... and a positive factor may be cancelled.
LEMMA CancelFactor ==
  ASSUME NEW a \in Int, NEW b \in Int, NEW c \in Nat, c > 0, a * c <= b * c
  PROVE  a <= b
<1> SUFFICES ASSUME b + 1 <= a PROVE FALSE
  OBVIOUS
<1>1. (b + 1) * c <= a * c
  BY TimesKeepsOrder
<1>2. (b + 1) * c = b * c + c
  OBVIOUS
<1>3. a * c \in Int /\ b * c \in Int
  OBVIOUS
<1> QED
  BY <1>1, <1>2, <1>3

\* The quotient of a division takes no more than what there is.
LEMMA DivisionRoundsDown ==
  ASSUME NEW y \in Nat, NEW m \in Nat, m > 0
  PROVE  y \div m \in Nat /\ (y \div m) * m <= y
  OBVIOUS

\* The fraction n / m of a step, n <= m, is a step in the same direction, and not
\* more than that fraction (the Cartesian slow-down of a tick).
LEMMA FractionShortens ==
  ASSUME NEW x \in Int, NEW n \in Nat, NEW m \in Nat, m > 0, n <= m
  PROVE  /\ Fraction(x, n, m) \in Int
         /\ x >= 0 => 0 <= Fraction(x, n, m) /\ Fraction(x, n, m) <= x
         /\ x <= 0 => x <= Fraction(x, n, m) /\ Fraction(x, n, m) <= 0
         /\ Abs(Fraction(x, n, m)) * m <= Abs(x) * n
<1>1. ASSUME NEW y \in Nat
      PROVE  /\ (y * n) \div m \in Nat /\ (y * n) \div m <= y
             /\ ((y * n) \div m) * m <= y * n
  <2>1. y * n \in Nat /\ y * m \in Nat
    OBVIOUS
  <2>2. (y * n) \div m \in Nat /\ ((y * n) \div m) * m <= y * n
    BY <2>1, DivisionRoundsDown
  <2>3. n * y <= m * y
    BY TimesKeepsOrder
  <2>4. y * n <= y * m
    BY <2>3
  <2>5. ((y * n) \div m) * m <= y * m
    BY <2>1, <2>2, <2>4
  <2> QED
    BY <2>2, <2>5, CancelFactor
<1>2. CASE x < 0
  <2>1. -x \in Nat
    BY <1>2
  <2> QED
    BY <1>1, <1>2, <2>1 DEF Fraction, Abs
<1>3. CASE x >= 0
  BY <1>1, <1>3 DEF Fraction, Abs
<1> QED
  BY <1>2, <1>3

(***************************************************************************)
(* The operators of a tick.                                                *)
(***************************************************************************)
\* A clipped value lies between its bounds, and is not further away than before.
LEMMA ClipBounds ==
  ASSUME NEW x \in Int, NEW lo \in Int, NEW hi \in Int, lo <= hi
  PROVE  /\ Clip(x, lo, hi) \in Int
         /\ lo <= Clip(x, lo, hi) /\ Clip(x, lo, hi) <= hi
         /\ Clip(x, lo, hi) > lo => Clip(x, lo, hi) <= x
         /\ Clip(x, lo, hi) < hi => x <= Clip(x, lo, hi)
  BY DEF Clip

\* The step of a joint after its two limits: x is what is left to the target and p
\* the step before.  A step towards the target does not pass it, unless it brakes
\* as hard as it may (the overshoot of the acceleration limit).
LEMMA RampLimits ==
  ASSUME NEW x \in Int, NEW p \in Int, NEW v \in Nat, NEW a \in Nat,
         NEW d, d = Clip(Clip(x, -v, v), p - a, p + a)
  PROVE  /\ d \in Int
         /\ Abs(d) <= Abs(p) + a
         /\ Abs(d) <= v \/ Abs(d) <= Abs(p)
         /\ d > 0 => d <= x \/ d + a <= p
         /\ d < 0 => x <= d \/ p <= d - a
  BY DEF Clip, Abs

\* Braking by at least h keeps the distance y to a posture, with what is needed to
\* stop from the speed, within its bound.
Ahead(p) == IF p > 0 THEN p * p ELSE 0

LEMMA BrakingDistance ==
  ASSUME NEW y \in Int, NEW e \in Int, NEW p \in Int, NEW h \in Nat,
         e > 0, e + h <= p
  PROVE  2 * h * (y + e) + Ahead(e) <= 2 * h * y + Ahead(p)
<1> DEFINE s == e + h
<1>1. s \in Nat /\ p \in Nat /\ s <= p
  OBVIOUS
<1>2. s * s <= p * p
  <2>1. s * s <= p * s
    BY <1>1, TimesKeepsOrder
  <2>2. s * p <= p * p
    BY <1>1, TimesKeepsOrder
  <2>3. p * s = s * p /\ p * s \in Int /\ s * s \in Int /\ p * p \in Int
    BY <1>1
  <2> HIDE DEF s
  <2> QED
    BY <2>1, <2>2, <2>3
<1>3. s * s = e * e + 2 * h * e + h * h
  OBVIOUS
<1>4. 2 * h * (y + e) = 2 * h * y + 2 * h * e
  OBVIOUS
<1>5. Ahead(e) = e * e /\ Ahead(p) = p * p
  BY <1>1 DEF Ahead
<1>6. h * h \in Nat /\ e * e \in Int /\ 2 * h * e \in Int /\ 2 * h * y \in Int /\ p * p \in Int
  OBVIOUS
<1> QED
  BY <1>2, <1>3, <1>4, <1>5, <1>6

\* ... and so does a step back.
LEMMA SteppingBack ==
  ASSUME NEW y \in Int, NEW e \in Int, NEW p \in Int, NEW h \in Nat, e <= 0
  PROVE  2 * h * (y + e) + Ahead(e) <= 2 * h * y + Ahead(p)
<1>1. Ahead(e) = 0 /\ Ahead(p) >= 0 /\ Ahead(p) \in Int
  <2>1. CASE p > 0
    <3>1. p * p \in Nat
      BY <2>1
    <3> QED
      BY <2>1, <3>1 DEF Ahead
  <2>2. CASE ~(p > 0)
    BY <2>2 DEF Ahead
  <2> QED
    BY <2>1, <2>2
<1>2. 2 * h * (y + e) <= 2 * h * y /\ 2 * h * (y + e) \in Int /\ 2 * h * y \in Int
  <2>1. 2 * h \in Nat /\ (y + e) * (2 * h) <= y * (2 * h)
    BY TimesKeepsOrder
  <2>2. (y + e) * (2 * h) = 2 * h * (y + e) /\ y * (2 * h) = 2 * h * y
    OBVIOUS
  <2> QED
    BY <2>1, <2>2
<1> QED
  BY <1>1, <1>2

\* A joint that has not passed a posture may arrive there at full speed v.
LEMMA NotPassed ==
  ASSUME NEW y \in Int, NEW e \in Int, NEW h \in Nat, NEW v \in Nat, y <= 0, e <= v
  PROVE  2 * h * y + Ahead(e) <= v * v
<1>1. 2 * h * y \in Int /\ 2 * h * y <= 0
  <2>1. 2 * h \in Nat /\ y * (2 * h) <= 0 * (2 * h)
    BY TimesKeepsOrder
  <2>2. y * (2 * h) = 2 * h * y /\ 0 * (2 * h) = 0
    OBVIOUS
  <2> QED
    BY <2>1, <2>2
<1>2. Ahead(e) \in Int /\ Ahead(e) <= v * v
  <2>1. CASE e > 0
    <3>1. e * e <= v * e /\ e * v <= v * v
      BY <2>1, TimesKeepsOrder
    <3>2. v * e = e * v /\ e * e \in Int /\ v * e \in Int /\ v * v \in Int
      OBVIOUS
    <3> QED
      BY <2>1, <3>1, <3>2 DEF Ahead
  <2>2. CASE ~(e > 0)
    <3>1. v * v \in Nat
      OBVIOUS
    <3> QED
      BY <2>2, <3>1 DEF Ahead
  <2> QED
    BY <2>1, <2>2
<1>3. v * v \in Int
  OBVIOUS
<1> QED
  BY <1>1, <1>2, <1>3

\* A step back, or one that brakes, stays within the stopping distance v * v; z is how
\* far the joint is past a posture.
LEMMA StillStops ==
  ASSUME NEW z \in Int, NEW e \in Int, NEW p \in Int, NEW h \in Nat, NEW v \in Nat,
         e <= v, 2 * h * z + Ahead(p) <= v * v, e <= 0 \/ e + h <= p
  PROVE  2 * h * (z + e) + Ahead(e) <= v * v
<1>1. 2 * h * (z + e) + Ahead(e) <= 2 * h * z + Ahead(p)
  <2>1. CASE e <= 0
    BY <2>1, SteppingBack
  <2>2. CASE e > 0 /\ e + h <= p
    BY <2>2, BrakingDistance
  <2> QED
    BY <2>1, <2>2
<1>2. 2 * h * (z + e) + Ahead(e) \in Int /\ 2 * h * z + Ahead(p) \in Int /\ v * v \in Int
  BY DEF Ahead
<1> QED
  BY <1>1, <1>2

\* What a step moves the tool is a sum of seven terms, one for each joint.
LEMMA ReachType ==
  ASSUME NEW d \in Vectors
  PROVE  Reach(d) \in Nat /\ \A j \in Joints : Abs(d[j]) * Lever[j] \in Nat
<1>1. ASSUME NEW j \in Joints PROVE Abs(d[j]) * Lever[j] \in Nat
  <2>1. Abs(d[j]) \in Nat /\ Lever[j] \in Nat
    BY ServoAssumption DEF Abs, Vectors
  <2> QED
    BY <2>1
<1> QED
  BY <1>1 DEF Reach, Joints

\* Shorter steps move the tool less.
LEMMA ReachKeepsOrder ==
  ASSUME NEW d \in Vectors, NEW e \in Vectors,
         \A j \in Joints : Abs(e[j]) <= Abs(d[j])
  PROVE  Reach(e) <= Reach(d)
<1>1. ASSUME NEW j \in Joints PROVE Abs(e[j]) * Lever[j] <= Abs(d[j]) * Lever[j]
  <2>1. Abs(d[j]) \in Nat /\ Abs(e[j]) \in Nat /\ Lever[j] \in Nat
    BY ServoAssumption DEF Abs, Vectors
  <2> QED
    BY <2>1, TimesKeepsOrder
<1>2. \A j \in Joints : Abs(d[j]) * Lever[j] \in Nat /\ Abs(e[j]) * Lever[j] \in Nat
  BY ReachType
<1> QED
  BY <1>1, <1>2 DEF Reach, Joints

\* The slowed step is a step in the same direction, no joint further than before,
\* and moves the tool by no more than max_cart_step_m.
LEMMA SlowedLimits ==
  ASSUME NEW d \in Vectors
  PROVE  /\ Slowed(d) \in Vectors
         /\ Reach(Slowed(d)) <= MaxCart
         /\ \A j \in Joints : /\ d[j] >= 0 => 0 <= Slowed(d)[j] /\ Slowed(d)[j] <= d[j]
                              /\ d[j] <= 0 => d[j] <= Slowed(d)[j] /\ Slowed(d)[j] <= 0
<1>1. CASE Reach(d) <= MaxCart
  <2>1. Slowed(d) = d
    BY <1>1, ReachType, ServoAssumption DEF Slowed
  <2> QED
    BY <1>1, <2>1 DEF Vectors
<1>2. CASE Reach(d) > MaxCart
  <2> DEFINE r == Reach(d)
             f == [j \in Joints |-> Fraction(d[j], MaxCart, r)]
  <2>1. Slowed(d) = f
    BY <1>2 DEF Slowed
  <2>2. r \in Nat /\ r > 0 /\ MaxCart \in Nat /\ MaxCart <= r
    BY <1>2, ReachType, ServoAssumption
  <2>3. ASSUME NEW j \in Joints
        PROVE  /\ f[j] \in Int
               /\ d[j] >= 0 => 0 <= f[j] /\ f[j] <= d[j]
               /\ d[j] <= 0 => d[j] <= f[j] /\ f[j] <= 0
               /\ Abs(f[j]) * r <= Abs(d[j]) * MaxCart
    <3>1. d[j] \in Int
      BY DEF Vectors
    <3>2. f[j] = Fraction(d[j], MaxCart, r)
      OBVIOUS
    <3> HIDE DEF f, r
    <3> QED
      BY <2>2, <3>1, <3>2, FractionShortens
  <2>4. f \in Vectors
    BY <2>3 DEF Vectors
  <2>5. Reach(f) <= MaxCart
    <3> HIDE DEF f
    <3> DEFINE w(j) == Abs(d[j]) * Lever[j]
               u(j) == Abs(f[j]) * Lever[j]
    <3>1. \A j \in Joints : w(j) \in Nat /\ u(j) \in Nat
      BY <2>4, ReachType
    <3>2. ASSUME NEW j \in Joints PROVE u(j) * r <= w(j) * MaxCart
      <4>1. Abs(d[j]) \in Nat /\ Abs(f[j]) \in Nat /\ Lever[j] \in Nat
        BY <2>4, ServoAssumption DEF Abs, Vectors
      <4> DEFINE b == Abs(d[j])
                 c == Abs(f[j])
                 l == Lever[j]
      <4>2. c * r <= b * MaxCart
        BY <2>3
      <4> HIDE DEF b, c, l, r
      <4>3. b \in Nat /\ c \in Nat /\ l \in Nat
        BY <4>1 DEF b, c, l
      <4>4. c * r \in Int /\ b * MaxCart \in Int
        BY <4>3, <2>2
      <4>5. (c * r) * l <= (b * MaxCart) * l
        BY <4>2, <4>3, <4>4, TimesKeepsOrder
      <4>6. (c * r) * l = (c * l) * r /\ (b * MaxCart) * l = (b * l) * MaxCart
        BY <4>3, <2>2
      <4> QED
        BY <4>5, <4>6 DEF b, c, l
    <3>3. r = w(1) + w(2) + w(3) + w(4) + w(5) + w(6) + w(7)
      BY DEF Reach
    <3>4. Reach(f) = u(1) + u(2) + u(3) + u(4) + u(5) + u(6) + u(7)
      BY DEF Reach
    <3>5. /\ u(1) * r <= w(1) * MaxCart /\ u(2) * r <= w(2) * MaxCart
          /\ u(3) * r <= w(3) * MaxCart /\ u(4) * r <= w(4) * MaxCart
          /\ u(5) * r <= w(5) * MaxCart /\ u(6) * r <= w(6) * MaxCart
          /\ u(7) * r <= w(7) * MaxCart
      BY <3>2 DEF Joints
    <3>6. /\ \A i \in 1 .. 7 : w(i) \in Nat /\ u(i) \in Nat
      BY <3>1 DEF Joints
    <3> HIDE DEF w, u, r
    <3>7. Reach(f) * r = u(1) * r + u(2) * r + u(3) * r + u(4) * r + u(5) * r
                          + u(6) * r + u(7) * r
      BY <3>4, <3>6, <2>2
    <3>8. r * MaxCart = w(1) * MaxCart + w(2) * MaxCart + w(3) * MaxCart + w(4) * MaxCart
                         + w(5) * MaxCart + w(6) * MaxCart + w(7) * MaxCart
      BY <3>3, <3>6, <2>2
    <3>9. /\ \A i \in 1 .. 7 : w(i) * MaxCart \in Int /\ u(i) * r \in Int
          /\ Reach(f) \in Nat
      BY <3>6, <2>2, <2>4, ReachType
    <3>10. Reach(f) * r <= MaxCart * r
      <4>1. r * MaxCart = MaxCart * r
        BY <2>2
      <4> QED
        BY <3>5, <3>7, <3>8, <3>9, <4>1
    <3> QED
      BY <3>9, <3>10, <2>2, CancelFactor
  <2> QED
    BY <2>1, <2>3, <2>4, <2>5
<1> QED
  BY <1>1, <1>2, ReachType, ServoAssumption

(***************************************************************************)
(* Type correctness: the grace counter of the streamer does not pass zero, *)
(* because no resume() comes while a tick is under way.                    *)
(***************************************************************************)
GraceInv == /\ mode = "seeded" => sending = "no"
            /\ sending = "grace" => grace > 0

LEMMA CommandType ==
  ASSUME TypeOK
  PROVE  /\ [j \in Joints |-> Ramped(j)] \in Vectors
         /\ Command \in Vectors
         /\ \A j \in Joints : Vel(j) \in Nat /\ Acc(j) \in Nat
<1>1. ASSUME NEW j \in Joints PROVE Vel(j) \in Nat /\ Acc(j) \in Nat
  BY ServoAssumption DEF Vel, Acc
<1>2. ASSUME NEW j \in Joints PROVE Ramped(j) \in Int
  <2>1. target[j] - last[j] \in Int /\ prev[j] \in Int
    BY DEF TypeOK, Vectors
  <2> QED
    BY <1>1, <2>1 DEF Ramped, Clip
<1>3. [j \in Joints |-> Ramped(j)] \in Vectors
  BY <1>2 DEF Vectors
<1>4. Command \in Vectors
  <2> DEFINE d == Slowed([j \in Joints |-> Ramped(j)])
  <2>1. d \in Vectors
    BY <1>3, SlowedLimits
  <2> HIDE DEF d
  <2>2. \A j \in Joints : Clip(last[j] + d[j], Lo[j], Hi[j]) \in Int
    BY <2>1, ServoAssumption DEF Clip, Vectors, TypeOK
  <2>3. Clipped([j \in Joints |-> last[j] + d[j]]) \in Vectors
    BY <2>2 DEF Clipped, Vectors
  <2> QED
    BY <2>3 DEF Command, d
<1> QED
  BY <1>1, <1>3, <1>4

LEMMA ClippedType == \A q \in Vectors : Clipped(q) \in Vectors
  BY ServoAssumption DEF Clipped, Clip, Vectors

\* Every variable of the stream stays in its range: the counter of the grace window
\* is not counted below zero by a tick that was read before it was renewed.
LEMMA TypeInit == Init => TypeOK /\ GraceInv
  BY ServoAssumption DEF Init, TypeOK, GraceInv, Still, Vectors

LEMMA TypeStep == TypeOK /\ GraceInv /\ [Next]_vars => TypeOK' /\ GraceInv'
<1> SUFFICES ASSUME TypeOK, GraceInv, [Next]_vars PROVE TypeOK' /\ GraceInv'
  OBVIOUS
<1> USE ServoAssumption DEF TypeOK, GraceInv
<1>1. CASE TickReads
  BY <1>1, CommandType DEF TickReads, Control!TickBegins
<1>2. CASE TickSent
  BY <1>2 DEF TickSent, Control!TickEnds, Vectors
<1>3. CASE TickNotReady
  BY <1>3 DEF TickNotReady, Control!TickEnds
<1>4. CASE TickFails
  BY <1>4 DEF TickFails, Control!TickFails, Still, Vectors
<1>5. CASE SetTarget
  BY <1>5, ClippedType DEF SetTarget
<1>6. CASE Pause
  BY <1>6 DEF Pause, Control!Pause, Still, Vectors
<1>7. CASE Reseed
  BY <1>7 DEF Reseed, Control!Reseed, Still, Vectors
<1>8. CASE Resume
  BY <1>8 DEF Resume, Control!Resume
<1>9. CASE SetScale
  BY <1>9 DEF SetScale
<1>10. CASE UNCHANGED vars
  BY <1>10 DEF vars
<1> QED
  BY <1>1, <1>2, <1>3, <1>4, <1>5, <1>6, <1>7, <1>8, <1>9, <1>10 DEF Next, Tick

LEMMA TypeInvariant == Spec => [](TypeOK /\ GraceInv)
  BY TypeInit, TypeStep, PTL DEF Spec

\* Type correctness of ServoStream: see TypeInvariant.
THEOREM TypeCorrect == Spec => []TypeOK
  BY TypeInvariant, PTL

(***************************************************************************)
(* The inductive invariant.  It speaks of moved, the step before, and not  *)
(* of prev: a pause zeroes prev while the tick that has read it goes on.   *)
(***************************************************************************)
\* The two limits on a step e of joint j after a step p.
Slewed(j, e, p) == Abs(e) <= 2 * HalfVel[j] /\ Abs(e) <= Abs(p) + 2 * HalfAcc[j]

\* A step of joint j does not pass the postures it was sent to, unless it brakes.
Lands(j, e, p) ==
  /\ e > 0 => (\E q \in Approved : last[j] + e <= q[j]) \/ e + HalfAcc[j] <= p
  /\ e < 0 => (\E q \in Approved : q[j] <= last[j] + e) \/ p <= e - HalfAcc[j]

\* Joint j, at x with the last step p, can stop within its stopping distance.
CanStop(j, x, p) ==
  /\ \E q \in Approved : 2 * HalfAcc[j] * (x - q[j]) + Ahead(p)
                           <= (2 * HalfVel[j]) * (2 * HalfVel[j])
  /\ \E q \in Approved : 2 * HalfAcc[j] * (q[j] - x) + Ahead(-p)
                           <= (2 * HalfVel[j]) * (2 * HalfVel[j])

StreamInv ==
  /\ target \in Approved /\ Within(last)
  /\ mode # "paused" => prev = moved
  /\ \A j \in Joints : Abs(moved[j]) <= 2 * HalfVel[j] /\ CanStop(j, last[j], moved[j])

\* What a tick is about to send was computed from last and moved as they still are.
CommandInv ==
  sending # "no" =>
    /\ Within(cmd)
    /\ Reach([j \in Joints |-> cmd[j] - last[j]]) <= MaxCart
    /\ \A j \in Joints : /\ Slewed(j, cmd[j] - last[j], moved[j])
                         /\ Lands(j, cmd[j] - last[j], moved[j])

IInv == TypeOK /\ GraceInv /\ StreamInv /\ CommandInv

LEMMA ApprovedType == Approved \subseteq Vectors
  BY ServoAssumption, ClippedType DEF Approved

\* What a tick computes keeps every limit (the arithmetic of _run, from the two
\* clips to the final one).
LEMMA CommandFits ==
  ASSUME TypeOK, StreamInv, mode = "running"
  PROVE  /\ Within(Command)
         /\ Reach([j \in Joints |-> Command[j] - last[j]]) <= MaxCart
         /\ \A j \in Joints : /\ Slewed(j, Command[j] - last[j], moved[j])
                              /\ Lands(j, Command[j] - last[j], moved[j])
<1> DEFINE d == [j \in Joints |-> Ramped(j)]
           f == Slowed(d)
           e == [j \in Joints |-> Command[j] - last[j]]
<1>1. d \in Vectors /\ f \in Vectors /\ Command \in Vectors /\ Reach(f) <= MaxCart
  BY CommandType, SlowedLimits
<1>2. e \in Vectors
  BY <1>1 DEF Vectors, TypeOK
<1>3. ASSUME NEW j \in Joints
      PROVE  /\ d[j] > 0 => last[j] + d[j] <= target[j] \/ d[j] + HalfAcc[j] <= moved[j]
             /\ d[j] < 0 => target[j] <= last[j] + d[j] \/ moved[j] <= d[j] - HalfAcc[j]
             /\ Slewed(j, d[j], moved[j])
  <2>1. /\ target[j] \in Int /\ last[j] \in Int /\ moved[j] \in Int
        /\ HalfVel[j] \in Nat /\ HalfAcc[j] \in Nat
    BY ServoAssumption DEF TypeOK, Vectors
  <2>2. /\ Vel(j) \in Nat /\ Acc(j) \in Nat /\ Vel(j) <= 2 * HalfVel[j]
        /\ HalfAcc[j] <= Acc(j) /\ Acc(j) <= 2 * HalfAcc[j]
    BY <2>1 DEF Vel, Acc
  <2>3. d[j] = Clip(Clip(target[j] - last[j], -Vel(j), Vel(j)),
                    moved[j] - Acc(j), moved[j] + Acc(j))
    BY DEF Ramped, StreamInv
  <2>4. Abs(moved[j]) <= 2 * HalfVel[j]
    BY DEF StreamInv
  <2>5. /\ d[j] \in Int
        /\ Abs(d[j]) <= Abs(moved[j]) + Acc(j)
        /\ Abs(d[j]) <= Vel(j) \/ Abs(d[j]) <= Abs(moved[j])
        /\ d[j] > 0 => d[j] <= target[j] - last[j] \/ d[j] + Acc(j) <= moved[j]
        /\ d[j] < 0 => target[j] - last[j] <= d[j] \/ moved[j] <= d[j] - Acc(j)
    <3> HIDE DEF d
    <3>1. target[j] - last[j] \in Int
      BY <2>1
    <3> QED
      BY <2>1, <2>2, <2>3, <3>1, RampLimits
  <2> HIDE DEF d
  <2> QED
    BY <2>1, <2>2, <2>4, <2>5 DEF Slewed, Abs
<1>4. ASSUME NEW j \in Joints
      PROVE  /\ Lo[j] <= Command[j] /\ Command[j] <= Hi[j]
             /\ d[j] >= 0 => 0 <= e[j] /\ e[j] <= d[j] /\ Abs(e[j]) <= Abs(f[j])
             /\ d[j] <= 0 => d[j] <= e[j] /\ e[j] <= 0 /\ Abs(e[j]) <= Abs(f[j])
  <2>1. /\ d[j] >= 0 => 0 <= f[j] /\ f[j] <= d[j]
        /\ d[j] <= 0 => d[j] <= f[j] /\ f[j] <= 0
    BY <1>1, SlowedLimits
  <2>2. Command[j] = Clip(last[j] + f[j], Lo[j], Hi[j])
    BY DEF Command, Clipped
  <2>3. Lo[j] <= last[j] /\ last[j] <= Hi[j]
    BY DEF StreamInv, Within
  <2>4. /\ d[j] \in Int /\ f[j] \in Int /\ last[j] \in Int
        /\ Lo[j] \in Int /\ Hi[j] \in Int
    BY <1>1, ServoAssumption DEF Vectors, TypeOK
  <2> HIDE DEF d, f
  <2> QED
    BY <2>1, <2>2, <2>3, <2>4 DEF Clip, Abs
<1>5. Within(Command)
  BY <1>4 DEF Within
<1>6. Reach(e) <= MaxCart
  <2>1. \A j \in Joints : Abs(e[j]) <= Abs(f[j])
    <3>1. \A j \in Joints : d[j] \in Int
      BY <1>1 DEF Vectors
    <3> HIDE DEF d, e, f
    <3> QED
      BY <1>4, <3>1
  <2>2. Reach(e) <= Reach(f)
    <3> HIDE DEF e, f
    <3> QED
      BY <1>1, <1>2, <2>1, ReachKeepsOrder
  <2>3. Reach(e) \in Nat /\ Reach(f) \in Nat
    <3> HIDE DEF e, f
    <3> QED
      BY <1>1, <1>2, ReachType
  <2> QED
    BY <1>1, <2>2, <2>3, ServoAssumption
<1>7. ASSUME NEW j \in Joints PROVE Slewed(j, e[j], moved[j]) /\ Lands(j, e[j], moved[j])
  <2>1. /\ d[j] \in Int /\ e[j] \in Int /\ last[j] \in Int /\ moved[j] \in Int
        /\ HalfVel[j] \in Nat /\ HalfAcc[j] \in Nat
    BY <1>1, <1>2, ServoAssumption DEF Vectors, TypeOK
  <2>2. target \in Approved /\ target[j] \in Int
    BY DEF StreamInv, TypeOK, Vectors
  <2>3. Slewed(j, e[j], moved[j])
    <3> HIDE DEF d, e, f
    <3> QED
      BY <1>3, <1>4, <2>1 DEF Slewed, Abs
  <2>4. e[j] > 0 => last[j] + e[j] <= target[j] \/ e[j] + HalfAcc[j] <= moved[j]
    <3> HIDE DEF d, e, f
    <3> QED
      BY <1>3, <1>4, <2>1, <2>2
  <2>5. e[j] < 0 => target[j] <= last[j] + e[j] \/ moved[j] <= e[j] - HalfAcc[j]
    <3> HIDE DEF d, e, f
    <3> QED
      BY <1>3, <1>4, <2>1, <2>2
  <2> QED
    BY <2>2, <2>3, <2>4, <2>5 DEF Lands
<1> QED
  BY <1>5, <1>6, <1>7

\* A step that keeps its limits leaves the joint able to stop: it ends before a
\* posture it was sent to, brakes, or goes the other way.
LEMMA StepsCanStop ==
  ASSUME TypeOK, NEW j \in Joints, NEW e \in Int,
         CanStop(j, last[j], moved[j]),
         Slewed(j, e, moved[j]), Lands(j, e, moved[j])
  PROVE  CanStop(j, last[j] + e, e)
<1> DEFINE h == HalfAcc[j]
           v == 2 * HalfVel[j]
           x == last[j]
           p == moved[j]
<1>1. h \in Nat /\ v \in Nat /\ x \in Int /\ p \in Int
  BY ServoAssumption DEF TypeOK, Vectors
<1>2. \A q \in Approved : q[j] \in Int
  BY ApprovedType DEF Vectors
<1>3. e <= v /\ -e <= v
  BY <1>1 DEF Slewed, Abs
<1>4. \E q \in Approved : 2 * h * ((x + e) - q[j]) + Ahead(e) <= v * v
  <2>1. CASE \E q \in Approved : x + e <= q[j]
    <3>1. PICK q \in Approved : x + e <= q[j]
      BY <2>1
    <3>2. (x + e) - q[j] \in Int /\ (x + e) - q[j] <= 0
      BY <1>1, <1>2, <3>1
    <3> HIDE DEF h, v, x
    <3>3. 2 * h * ((x + e) - q[j]) + Ahead(e) <= v * v
      BY <1>1, <1>3, <3>2, NotPassed
    <3> QED
      BY <3>3
  <2>2. CASE e <= 0 \/ e + h <= p
    <3>1. PICK q \in Approved : 2 * h * (x - q[j]) + Ahead(p) <= v * v
      BY DEF CanStop
    <3>2. x - q[j] \in Int /\ (x + e) - q[j] = (x - q[j]) + e
      BY <1>1, <1>2
    <3> HIDE DEF h, v, x, p
    <3>3. 2 * h * ((x - q[j]) + e) + Ahead(e) <= v * v
      BY <1>1, <1>3, <3>1, <3>2, <2>2, StillStops
    <3> QED
      BY <3>2, <3>3
  <2> QED
    BY <2>1, <2>2 DEF Lands
<1>5. \E q \in Approved : 2 * h * (q[j] - (x + e)) + Ahead(-e) <= v * v
  <2>1. CASE \E q \in Approved : q[j] <= x + e
    <3>1. PICK q \in Approved : q[j] <= x + e
      BY <2>1
    <3>2. q[j] - (x + e) \in Int /\ q[j] - (x + e) <= 0 /\ -e \in Int
      BY <1>1, <1>2, <3>1
    <3> HIDE DEF h, v, x
    <3>3. 2 * h * (q[j] - (x + e)) + Ahead(-e) <= v * v
      BY <1>1, <1>3, <3>2, NotPassed
    <3> QED
      BY <3>3
  <2>2. CASE -e <= 0 \/ -e + h <= -p
    <3>1. PICK q \in Approved : 2 * h * (q[j] - x) + Ahead(-p) <= v * v
      BY DEF CanStop
    <3>2. /\ q[j] - x \in Int /\ q[j] - (x + e) = (q[j] - x) + (-e)
          /\ -e \in Int /\ -p \in Int
      BY <1>1, <1>2
    <3> HIDE DEF h, v, x, p
    <3>3. 2 * h * ((q[j] - x) + (-e)) + Ahead(-e) <= v * v
      BY <1>1, <1>3, <3>1, <3>2, <2>2, StillStops
    <3> QED
      BY <3>2, <3>3
  <2>3. e < 0 => (\E q \in Approved : q[j] <= x + e) \/ -e + h <= -p
    BY <1>1 DEF Lands
  <2> QED
    BY <2>1, <2>2, <2>3
<1> QED
  BY <1>4, <1>5 DEF CanStop

\* A joint that stands at a posture it was sent to can stop there.
LEMMA StandingCanStop ==
  ASSUME NEW j \in Joints, NEW q \in Approved, NEW p \in Int, p <= 0, 0 <= p
  PROVE  CanStop(j, q[j], p)
<1> DEFINE h == HalfAcc[j]
           v == 2 * HalfVel[j]
<1>1. h \in Nat /\ v \in Nat /\ q[j] \in Int /\ q[j] - q[j] = 0
  BY ServoAssumption, ApprovedType DEF Vectors
<1>2. 2 * h * 0 + Ahead(p) <= v * v
  <2> HIDE DEF h, v
  <2> QED
    BY <1>1, NotPassed
<1>3. 2 * h * (q[j] - q[j]) + Ahead(p) <= v * v
  <2> HIDE DEF h, v
  <2> QED
    BY <1>1, <1>2
<1>4. Ahead(-p) = Ahead(p)
  BY DEF Ahead
<1> QED
  BY <1>3, <1>4 DEF CanStop

(***************************************************************************)
(* The invariant is inductive.                                             *)
(***************************************************************************)
LEMMA StreamInvariant ==
  ASSUME SeededInside
  PROVE  Spec => []IInv
<1>1. Init => IInv
  <2> SUFFICES ASSUME Init PROVE TypeOK /\ GraceInv => IInv
    BY TypeInit
  <2>1. last \in Postures /\ target = last /\ moved = Still /\ mode = "paused"
        /\ sending = "no"
    BY DEF Init
  <2>2. last \in Approved /\ Within(last)
    BY <2>1, SeededInside DEF Approved, SeededInside
  <2>3. \A j \in Joints : Abs(moved[j]) <= 2 * HalfVel[j] /\ CanStop(j, last[j], moved[j])
    BY <2>1, <2>2, StandingCanStop, ServoAssumption DEF Still, Abs, Vectors
  <2> QED
    BY <2>1, <2>2, <2>3 DEF IInv, StreamInv, CommandInv
<1>2. IInv /\ [Next]_vars => IInv'
  <2> SUFFICES ASSUME IInv, [Next]_vars PROVE StreamInv' /\ CommandInv'
    BY TypeStep DEF IInv
  <2>1. TypeOK /\ GraceInv /\ StreamInv /\ CommandInv
    BY DEF IInv
  <2>2. CASE TickReads
    <3>1. StreamInv'
      BY <2>1, <2>2 DEF TickReads, Control!TickBegins, StreamInv, Within, CanStop
    <3>2. CommandInv'
      BY <2>1, <2>2, CommandFits
         DEF TickReads, Control!TickBegins, CommandInv, Within, Slewed, Lands
    <3> QED
      BY <3>1, <3>2
  <2>3. CASE TickSent
    <3>1. /\ sending # "no" /\ sending' = "no" /\ last' = cmd
          /\ moved' = [j \in Joints |-> cmd[j] - last[j]] /\ prev' = moved'
          /\ target' = target /\ mode' = mode
      BY <2>3 DEF TickSent, Control!TickEnds
    <3>2. ASSUME NEW j \in Joints
          PROVE  Abs(moved'[j]) <= 2 * HalfVel[j] /\ CanStop(j, last'[j], moved'[j])
      <4> DEFINE e == cmd[j] - last[j]
      <4>1. e \in Int /\ last[j] + e = cmd[j] /\ moved'[j] = e
        BY <2>1, <3>1 DEF TypeOK, Vectors
      <4>2. Slewed(j, e, moved[j]) /\ Lands(j, e, moved[j])
        BY <2>1, <3>1 DEF CommandInv
      <4>3. CanStop(j, last[j], moved[j])
        BY <2>1 DEF StreamInv
      <4>4. CanStop(j, last[j] + e, e)
        <5> HIDE DEF e
        <5> QED
          BY <2>1, <4>1, <4>2, <4>3, StepsCanStop
      <4> QED
        BY <3>1, <4>1, <4>2, <4>4 DEF Slewed
    <3>3. Within(last')
      BY <2>1, <3>1 DEF CommandInv
    <3>4. StreamInv'
      BY <2>1, <3>1, <3>2, <3>3 DEF StreamInv, Within, CanStop
    <3> QED
      BY <3>1, <3>4 DEF CommandInv
  <2>4. CASE TickNotReady
    BY <2>1, <2>4 DEF TickNotReady, Control!TickEnds, StreamInv, CommandInv, Within, CanStop
  <2>5. CASE TickFails
    BY <2>1, <2>5 DEF TickFails, Control!TickFails, StreamInv, CommandInv, Within, CanStop
  <2>6. CASE SetTarget
    <3>1. target' \in Approved
      BY <2>6 DEF SetTarget, Approved
    <3> QED
      BY <2>1, <2>6, <3>1 DEF SetTarget, StreamInv, CommandInv, Within, CanStop, Slewed, Lands
  <2>7. CASE Pause
    BY <2>1, <2>7
       DEF Pause, Control!Pause, StreamInv, CommandInv, Within, CanStop, Slewed, Lands
  <2>8. CASE Reseed
    <3>1. PICK q \in Postures : target' = q /\ last' = q
      BY <2>8 DEF Reseed, Control!Reseed
    <3>2. prev' = Still /\ moved' = Still /\ sending' = "no"
      BY <2>8 DEF Reseed, Control!Reseed
    <3>3. q \in Approved /\ Within(q)
      BY <3>1, SeededInside DEF Approved, SeededInside
    <3>4. \A j \in Joints : Abs(moved'[j]) <= 2 * HalfVel[j] /\ CanStop(j, last'[j], moved'[j])
      BY <3>1, <3>2, <3>3, StandingCanStop, ServoAssumption DEF Still, Abs
    <3>5. StreamInv'
      BY <3>1, <3>2, <3>3, <3>4 DEF StreamInv, Within, CanStop
    <3> QED
      BY <3>2, <3>5 DEF CommandInv
  <2>9. CASE Resume
    BY <2>1, <2>9
       DEF Resume, Control!Resume, StreamInv, CommandInv, Within, CanStop, Slewed, Lands
  <2>10. CASE SetScale
    BY <2>1, <2>10 DEF SetScale, StreamInv, CommandInv, Within, CanStop, Slewed, Lands
  <2>11. CASE UNCHANGED vars
    BY <2>1, <2>11 DEF vars, StreamInv, CommandInv, Within, CanStop, Slewed, Lands
  <2> QED
    BY <2>2, <2>3, <2>4, <2>5, <2>6, <2>7, <2>8, <2>9, <2>10, <2>11 DEF Next, Tick
<1> QED
  BY <1>1, <1>2, PTL DEF Spec

(***************************************************************************)
(* What follows.                                                           *)
(***************************************************************************)
\* Every command that the box executes keeps the velocity and the acceleration limit
\* of each joint, through pauses, seeds, refused ticks and changes of the scale,
\* unless the arm was seeded outside its limits (driver.py: the tick's clips).
THEOREM StepsAreLimited ==
  ASSUME SeededInside
  PROVE  Spec => StepLimited
<1>1. IInv /\ [Next]_vars
        => [TickSent => \A j \in Joints :
                /\ Abs(cmd[j] - last[j]) <= 2 * HalfVel[j]
                /\ Abs(cmd[j] - last[j]) <= Abs(moved[j]) + 2 * HalfAcc[j]]_vars
  BY DEF IInv, CommandInv, TickSent, Control!TickEnds, Slewed
<1> QED
  BY <1>1, StreamInvariant, PTL DEF Spec, StepLimited

\* ... and moves the tool by no more than max_cart_step_m.
THEOREM ToolStepsAreLimited ==
  ASSUME SeededInside
  PROVE  Spec => ToolStepLimited
<1>1. IInv /\ [Next]_vars
        => [TickSent => Reach([j \in Joints |-> cmd[j] - last[j]]) <= MaxCart]_vars
  BY DEF IInv, CommandInv, TickSent, Control!TickEnds
<1> QED
  BY <1>1, StreamInvariant, PTL DEF Spec, ToolStepLimited

\* No joint is commanded further beyond the postures it was sent to than the distance
\* in which it stops from full speed: the overshoot of the acceleration limit that
\* follows the velocity limit is bounded.
THEOREM StreamStopsInTime ==
  ASSUME SeededInside
  PROVE  Spec => []StoppingDistance
<1>1. IInv => StoppingDistance
  <2> SUFFICES ASSUME IInv, NEW j \in Joints
               PROVE  /\ \E q \in Approved : 2 * HalfAcc[j] * (last[j] - q[j])
                                   <= (2 * HalfVel[j]) * (2 * HalfVel[j])
                      /\ \E q \in Approved : 2 * HalfAcc[j] * (q[j] - last[j])
                                   <= (2 * HalfVel[j]) * (2 * HalfVel[j])
    BY DEF StoppingDistance
  <2>1. TypeOK /\ CanStop(j, last[j], moved[j])
    BY DEF IInv, StreamInv
  <2> DEFINE h == HalfAcc[j]
             v == 2 * HalfVel[j]
             x == last[j]
             p == moved[j]
  <2>2. h \in Nat /\ v \in Nat /\ x \in Int /\ p \in Int /\ v * v \in Int
    BY <2>1, ServoAssumption DEF TypeOK, Vectors
  <2>3. \A q \in Approved : q[j] \in Int
    BY ApprovedType DEF Vectors
  <2>4. ASSUME NEW r \in Int PROVE Ahead(r) \in Nat
    <3>1. r > 0 => r * r \in Nat
      OBVIOUS
    <3> QED
      BY <3>1 DEF Ahead
  <2>5. Ahead(p) \in Nat /\ Ahead(-p) \in Nat
    BY <2>2, <2>4
  <2>6. \E q \in Approved : 2 * h * (x - q[j]) <= v * v
    <3>1. PICK q \in Approved : 2 * h * (x - q[j]) + Ahead(p) <= v * v
      BY <2>1 DEF CanStop
    <3> HIDE DEF h, v, x, p
    <3>2. 2 * h * (x - q[j]) \in Int
      BY <2>2, <2>3
    <3> QED
      BY <2>2, <2>5, <3>1, <3>2
  <2>7. \E q \in Approved : 2 * h * (q[j] - x) <= v * v
    <3>1. PICK q \in Approved : 2 * h * (q[j] - x) + Ahead(-p) <= v * v
      BY <2>1 DEF CanStop
    <3> HIDE DEF h, v, x, p
    <3>2. 2 * h * (q[j] - x) \in Int
      BY <2>2, <2>3
    <3> QED
      BY <2>2, <2>5, <3>1, <3>2
  <2> QED
    BY <2>6, <2>7
<1> QED
  BY <1>1, StreamInvariant, PTL
=============================================================================
