-------------------------- MODULE WindowOpsProofs --------------------------
(***************************************************************************)
(* What the operators of WindowOps compute, for every window size and every *)
(* stamp modulus with 2 * WindowSize < StampMod.                           *)
(***************************************************************************)
EXTENDS WindowOps, WellFoundedInduction, TLAPS

(* Every non-empty set of naturals has a least element. *)
LEMMA LeastNatural ==
  ASSUME NEW S \in SUBSET Nat, S # {}
  PROVE  \E x \in S : \A y \in S : x <= y
<1>1. PICK x \in S : \A y \in S : ~(<<y, x>> \in OpToRel(<, Nat))
  BY WFMin, NatLessThanWellFounded, Zenon
<1>2. \A y \in S : ~(<<y, x>> \in OpToRel(<, Nat)) => x <= y
  BY DEF OpToRel
<1> QED
  BY <1>1, <1>2

(* Division with remainder. *)
LEMMA DivMod ==
  ASSUME NEW M \in Nat \ {0}, NEW a \in Nat
  PROVE  /\ a \div M \in Nat
         /\ a % M \in 0 .. M - 1
         /\ a = M * (a \div M) + (a % M)
  BY Z3

(* Multiplication by the modulus is strictly monotonic, by whole steps. *)
LEMMA TimesMonotonic ==
  ASSUME NEW M \in Nat \ {0}, NEW x \in Int, NEW y \in Int, x > y
  PROVE  M * x >= M * y + M
<1>1. M * (x - y - 1) >= 0
  BY Z3
<1>2. M * (x - y - 1) = M * x - M * y - M
  BY Z3
<1> QED
  BY <1>1, <1>2, Z3

(* The stamp of frame b, seen from frame a at most one lap before it. *)
LEMMA StampOf ==
  ASSUME NEW M \in Nat \ {0}, NEW a \in Nat, NEW b \in Nat, a <= b, b < a + M
  PROVE  b % M = IF (a % M) + (b - a) < M
                 THEN (a % M) + (b - a)
                 ELSE (a % M) + (b - a) - M
<1> DEFINE qa == a \div M
           ra == a % M
           qb == b \div M
           rb == b % M
<1>1. /\ qa \in Nat /\ ra \in 0 .. M - 1 /\ a = M * qa + ra
      /\ qb \in Nat /\ rb \in 0 .. M - 1 /\ b = M * qb + rb
  BY DivMod
<1> HIDE DEF qa, ra, qb, rb
<1>2. M * qa \in Int /\ M * qb \in Int
  BY <1>1
<1>3. qb >= qa
  <2> SUFFICES ASSUME qa > qb PROVE FALSE
    BY <1>1
  <2>1. M * qa >= M * qb + M
    BY <1>1, TimesMonotonic
  <2> QED
    BY <1>1, <1>2, <2>1
<1>4. qb <= qa + 1
  <2> SUFFICES ASSUME qb > qa + 1 PROVE FALSE
    BY <1>1
  <2>1. M * qb >= M * (qa + 1) + M
    BY <1>1, TimesMonotonic
  <2>2. M * (qa + 1) = M * qa + M
    BY <1>1, Z3
  <2> QED
    BY <1>1, <1>2, <2>1, <2>2
<1>5. qb = qa \/ qb = qa + 1
  BY <1>1, <1>3, <1>4
<1>6. CASE qb = qa
  BY <1>1, <1>2, <1>6 DEF ra, rb
<1>7. CASE qb = qa + 1
  <2>1. M * qb = M * qa + M
    BY <1>1, <1>7, Z3
  <2> QED
    BY <1>1, <1>2, <2>1 DEF ra, rb
<1> QED
  BY <1>5, <1>6, <1>7

(* The remainder of a number below two laps. *)
LEMMA SmallMod ==
  ASSUME NEW M \in Nat \ {0}, NEW x \in Nat, x < M + M
  PROVE  x % M = IF x < M THEN x ELSE x - M
<1> DEFINE q == x \div M
           r == x % M
<1>1. q \in Nat /\ r \in 0 .. M - 1 /\ x = M * q + r
  BY DivMod
<1> HIDE DEF q, r
<1>2. M * 0 = 0 /\ M * 1 = M /\ M * q \in Int
  BY <1>1
<1>3. q = 0 \/ q = 1
  <2> SUFFICES ASSUME q > 1 PROVE FALSE
    BY <1>1
  <2>1. M * q >= M * 1 + M
    BY <1>1, TimesMonotonic
  <2> QED
    BY <1>1, <1>2, <2>1
<1> QED
  BY <1>1, <1>2, <1>3 DEF r

(* Advancing a stamp by at most one window gives the stamp of the frame     *)
(* that many frames further on.                                             *)
LEMMA AdvanceStamp ==
  ASSUME NEW a \in Nat, NEW c \in 0 .. WindowSize
  PROVE  /\ Advance(a % StampMod, c) = (a + c) % StampMod
         /\ (a + c) % StampMod \in Stamps
<1> DEFINE s == a % StampMod
           b == a + c
<1>1. /\ StampMod \in Nat \ {0} /\ c < StampMod
      /\ b \in Nat /\ a <= b /\ b < a + StampMod /\ b - a = c
  BY WindowAssumption
<1>2. s \in 0 .. StampMod - 1 /\ b % StampMod \in 0 .. StampMod - 1
  BY <1>1, DivMod
<1> HIDE DEF b
<1>3. b % StampMod = IF s + (b - a) < StampMod
                     THEN s + (b - a) ELSE s + (b - a) - StampMod
  BY <1>1, StampOf
<1> HIDE DEF s
<1>4. (s + c) % StampMod = IF s + c < StampMod THEN s + c ELSE s + c - StampMod
  <2> DEFINE x == s + c
  <2>1. x \in Nat /\ x < StampMod + StampMod
    BY <1>1, <1>2
  <2> HIDE DEF x
  <2>2. x % StampMod = IF x < StampMod THEN x ELSE x - StampMod
    BY <1>1, <2>1, SmallMod
  <2> QED
    BY <1>1, <1>2, <2>2 DEF x
<1>5. (s + c) % StampMod = b % StampMod
  BY <1>1, <1>3, <1>4
<1> QED
  BY <1>2, <1>5 DEF Advance, s, b, Stamps

(* confirmBorder() is exact on every frame that is not a whole lap away:    *)
(* the slot of the frame when it lies at or after the window's base a, -1   *)
(* when it lies before.  The bound a + WindowSize is strict: the frame one  *)
(* past the window may be given slot WindowSize.                            *)
LEMMA ConfirmBorderExact ==
  ASSUME NEW a \in Nat, NEW n \in Nat,
         a + WindowSize < n + StampMod, n < a + WindowSize
  PROVE  ConfirmBorder(a % StampMod, n % StampMod) =
           IF a <= n THEN n - a ELSE -1
<1> DEFINE s == a % StampMod
           d == n % StampMod
<1>1. StampMod \in Nat \ {0} /\ WindowSize \in Nat \ {0} /\ 2 * WindowSize < StampMod
  BY WindowAssumption
<1>2. s \in 0 .. StampMod - 1 /\ d \in 0 .. StampMod - 1
  BY <1>1, DivMod
<1>3. s + WindowSize > StampMod - 1 =>
        (s + WindowSize) % StampMod = s + WindowSize - StampMod
  <2> HIDE DEF s
  <2> DEFINE x == s + WindowSize
  <2>1. x \in Nat /\ x < StampMod + StampMod
    BY <1>1, <1>2
  <2> HIDE DEF x
  <2>2. x % StampMod = IF x < StampMod THEN x ELSE x - StampMod
    BY <1>1, <2>1, SmallMod
  <2>3. x > StampMod - 1 => x % StampMod = x - StampMod
    BY <1>1, <2>1, <2>2
  <2> QED
    BY <1>1, <1>2, <2>3 DEF x
<1>4. CASE a <= n
  <2>1. n < a + StampMod
    BY <1>1
  <2>2. d = IF s + (n - a) < StampMod THEN s + (n - a) ELSE s + (n - a) - StampMod
    BY <1>1, <1>4, <2>1, StampOf
  <2> HIDE DEF s, d
  <2>3. CASE s + WindowSize > StampMod - 1
    BY <1>1, <1>2, <1>3, <1>4, <2>2, <2>3
       DEF ConfirmBorder, WrappedIndex, s, d
  <2>4. CASE ~(s + WindowSize > StampMod - 1)
    BY <1>1, <1>2, <1>4, <2>2, <2>4
       DEF ConfirmBorder, StraightIndex, s, d
  <2> QED
    BY <2>3, <2>4
<1>5. CASE n < a
  <2>1. a < n + StampMod /\ n <= a
    BY <1>1, <1>5
  <2>2. s = IF d + (a - n) < StampMod THEN d + (a - n) ELSE d + (a - n) - StampMod
    BY <1>1, <2>1, StampOf
  <2> HIDE DEF s, d
  <2>3. CASE s + WindowSize > StampMod - 1
    BY <1>1, <1>2, <1>3, <1>5, <2>2, <2>3
       DEF ConfirmBorder, WrappedIndex, s, d
  <2>4. CASE ~(s + WindowSize > StampMod - 1)
    BY <1>1, <1>2, <1>5, <2>2, <2>4
       DEF ConfirmBorder, StraightIndex, s, d
  <2> QED
    BY <2>3, <2>4
<1> QED
  BY <1>4, <1>5

(* confirm_border() of the robot computes the same: its wrap test differs   *)
(* from the Java one only on the window that ends exactly at the last       *)
(* stamp, which both branches treat alike.                                  *)
LEMMA PyConfirmBorderExact ==
  ASSUME NEW a \in Nat, NEW n \in Nat,
         a + WindowSize < n + StampMod, n < a + WindowSize
  PROVE  PyConfirmBorder(a % StampMod, n % StampMod) =
           IF a <= n THEN n - a ELSE -1
<1> DEFINE s == a % StampMod
           d == n % StampMod
           last == s + WindowSize - 1
<1>1. StampMod \in Nat \ {0} /\ WindowSize \in Nat \ {0} /\ 2 * WindowSize < StampMod
  BY WindowAssumption
<1>2. s \in 0 .. StampMod - 1 /\ d \in 0 .. StampMod - 1
  BY <1>1, DivMod
<1> HIDE DEF s, d
<1>3. last \in Nat /\ last < StampMod + StampMod
  BY <1>1, <1>2
<1> HIDE DEF last
<1>4. last % StampMod = IF last < StampMod THEN last ELSE last - StampMod
  BY <1>1, <1>3, SmallMod
<1>5. last % StampMod < s <=> s + WindowSize > StampMod
  BY <1>1, <1>2, <1>3, <1>4 DEF last
<1>6. PyConfirmBorder(s, d) =
        IF s + WindowSize > StampMod THEN WrappedIndex(s, d) ELSE StraightIndex(s, d)
  BY <1>5 DEF PyConfirmBorder, last
<1>7. ConfirmBorder(s, d) = IF a <= n THEN n - a ELSE -1
  BY ConfirmBorderExact DEF s, d
<1>8. CASE s + WindowSize # StampMod
  BY <1>1, <1>2, <1>6, <1>7, <1>8 DEF ConfirmBorder, s, d
<1>9. CASE s + WindowSize = StampMod
  <2>1. CASE a <= n
    <3>1. n < a + StampMod
      BY <1>1
    <3>2. d = IF s + (n - a) < StampMod THEN s + (n - a) ELSE s + (n - a) - StampMod
      BY <1>1, <2>1, <3>1, StampOf DEF s, d
    <3>3. d = s + (n - a)
      BY <1>1, <1>2, <1>9, <2>1, <3>2
    <3> QED
      BY <1>1, <1>2, <1>6, <1>9, <2>1, <3>3 DEF StraightIndex, s, d
  <2>2. CASE n < a
    <3>1. n <= a /\ a < n + StampMod
      BY <1>1, <2>2
    <3>2. s = IF d + (a - n) < StampMod THEN d + (a - n) ELSE d + (a - n) - StampMod
      BY <1>1, <3>1, StampOf DEF s, d
    <3>3. d <= s - 1
      BY <1>1, <1>2, <1>9, <2>2, <3>2
    <3> QED
      BY <1>1, <1>2, <1>6, <1>9, <2>2, <3>3 DEF StraightIndex, s, d
  <2> QED
    BY <2>1, <2>2
<1> QED
  BY <1>8, <1>9

(* The slot pktData() picks is idle and everything before it is in use. *)
LEMMA FirstIdleSlot ==
  ASSUME NEW w, HaveIdle(w)
  PROVE  /\ FirstIdle(w) \in Slots
         /\ w[FirstIdle(w)] = IDLE
         /\ \A j \in Slots : w[j] = IDLE => FirstIdle(w) <= j
<1> DEFINE S == {i \in Slots : w[i] = IDLE}
<1>1. S \in SUBSET Nat /\ S # {}
  BY WindowAssumption DEF Slots, HaveIdle
<1>2. PICK x \in S : \A y \in S : x <= y
  BY <1>1, LeastNatural
<1>3. \E i \in Slots : w[i] = IDLE /\ \A j \in Slots : w[j] = IDLE => i <= j
  BY <1>2
<1> QED
  BY <1>3 DEF FirstIdle

(* The window moves over END slots only, and over all the leading ones. *)
LEMMA EndPrefixRun ==
  ASSUME NEW w
  PROVE  /\ EndPrefix(w) \in 0 .. WindowSize
         /\ \A i \in Slots : i < EndPrefix(w) => w[i] = END
         /\ EndPrefix(w) \in Slots => w[EndPrefix(w)] # END
<1> DEFINE S == {i \in 0 .. WindowSize : i \in Slots => w[i] # END}
<1>1. S \in SUBSET Nat /\ WindowSize \in S
  BY WindowAssumption DEF Slots
<1>2. PICK x \in S : \A y \in S : x <= y
  BY <1>1, LeastNatural
<1>3. \A i \in Slots : i < x => w[i] = END
  BY <1>1, <1>2, WindowAssumption DEF Slots
<1>4. \E c \in 0 .. WindowSize :
         /\ \A i \in Slots : i < c => w[i] = END
         /\ c \in Slots => w[c] # END
  BY <1>2, <1>3
<1> QED
  BY <1>4 DEF EndPrefix
=============================================================================
