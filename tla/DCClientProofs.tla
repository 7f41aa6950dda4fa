--------------------------- MODULE DCClientProofs ---------------------------
(***************************************************************************)
(* The client of the data centre and its timer queue, for any number of    *)
(* requests and connections, any rings, delays and lag.                    *)
(*                                                                         *)
(* The timer queue comes first: digits of stamps; its numbers, which are   *)
(* free or name a timer, and that only Schedule, Cancel and the end of a   *)
(* callback change which (Takes, Drops); the rings, which read the time P  *)
(* and hold every timer where they will come to it (Reads, Placed); and    *)
(* when a timer is due (Due), which no step of a scan changes.  A queue    *)
(* that has all that is Good.                                              *)
(*                                                                         *)
(* Then the client: what a request, its timer and its connection know of   *)
(* each other (Sound, Up), what a call leaves of that in the middle of an  *)
(* event, and what every call keeps of the time (Timing) and of the        *)
(* parameters (Lasts, Bold).                                               *)
(*                                                                         *)
(* Together they give the types, the place of every timer, and that the    *)
(* client implements RequestBroker.                                        *)
(***************************************************************************)
EXTENDS DCClient, FiniteSetTheorems, WellFoundedInduction, TLAPS

-----------------------------------------------------------------------------
(* Sets of numbers, and digits                                             *)

\* A set of numbers has a least one.
LEMMA LeastOf ==
  ASSUME NEW S \in SUBSET Nat, S # {}
  PROVE  \E m \in S : \A y \in S : m <= y
<1> DEFINE R == OpToRel(<, Nat)
<1>1. IsWellFoundedOn(R, Nat)
  BY NatLessThanWellFounded, Zenon
<1>2. PICK x \in S : \A y \in S : ~ (<<y, x>> \in R)
  <2> HIDE DEF R
  <2> QED
    BY <1>1, WFMin
<1>3. \A y \in S : ~(y < x)
  BY <1>2 DEF OpToRel
<1>4. \A y \in S : x <= y
  BY <1>3
<1> QED
  BY <1>4

\* Products of numbers are numbers.
LEMMA TimesIs ==
  ASSUME NEW a \in Nat, NEW b \in Nat
  PROVE  a * b \in Nat
OBVIOUS

\* A greater factor makes the product greater by the other factor at least.
LEMMA TimesMono ==
  ASSUME NEW a \in Nat, NEW c \in Nat, NEW b \in Nat, a < c
  PROVE  b * c >= b * a + b
<1>1. PICK k \in Nat : c = a + 1 + k
  <2>1. c - a - 1 \in Nat /\ c = a + 1 + (c - a - 1)
    OBVIOUS
  <2> QED
    BY <2>1
<1>2. b * (a + 1 + k) = b * a + b + b * k
  OBVIOUS
<1>3. b * k \in Nat /\ b * a \in Nat
  OBVIOUS
<1> QED
  BY <1>1, <1>2, <1>3

\* Division with a rest.
LEMMA DivIs ==
  ASSUME NEW x \in Nat, NEW b \in Nat \ {0}
  PROVE  /\ x \div b \in Nat /\ x % b \in Nat /\ x % b < b
         /\ x = b * (x \div b) + (x % b)
<1>1. x \div b \in Nat
  OBVIOUS
<1>2. x % b \in Nat
  OBVIOUS
<1>3. x % b < b
  OBVIOUS
<1>4. x = b * (x \div b) + (x % b)
  OBVIOUS
<1> QED
  BY <1>1, <1>2, <1>3, <1>4

\* Quotient and rest are the only ones.
LEMMA DivUnique ==
  ASSUME NEW x \in Nat, NEW b \in Nat \ {0}, NEW q \in Nat, NEW r \in Nat, r < b,
         x = b * q + r
  PROVE  q = x \div b /\ r = x % b
<1>1. PICK Q, R : Q = x \div b /\ R = x % b
  OBVIOUS
<1>2. Q \in Nat /\ R \in Nat /\ R < b /\ x = b * Q + R
  BY <1>1, DivIs
<1>3. b * q \in Nat /\ b * Q \in Nat
  BY <1>2, TimesIs
<1>4. ~(q < Q)
  <2> SUFFICES ASSUME q < Q PROVE FALSE
    OBVIOUS
  <2>1. b * Q >= b * q + b
    BY <1>2, TimesMono
  <2> QED
    BY <2>1, <1>2, <1>3
<1>5. ~(Q < q)
  <2> SUFFICES ASSUME Q < q PROVE FALSE
    OBVIOUS
  <2>1. b * q >= b * Q + b
    BY <1>2, TimesMono
  <2> QED
    BY <2>1, <1>2, <1>3
<1>6. q = Q
  BY <1>2, <1>4, <1>5
<1>7. r = R
  BY <1>2, <1>3, <1>6
<1> QED
  BY <1>1, <1>6, <1>7

Pow(r) == RingSize ^ r
Quot(x, r) == x \div Pow(r)

\* There are two rings of two slots at least.
LEMMA SizeIs == RingSize \in Nat /\ RingSize >= 2 /\ Rings \in Nat /\ Rings >= 2
BY WheelAssumption

\* The powers of RingSize: how many ticks a slot of a ring stands for.
LEMMA PowIs ==
  /\ Pow(0) = 1
  /\ \A r \in RingIds : Pow(r) \in Nat \ {0} /\ Pow(r + 1) \in Nat \ {0} /\ Pow(r + 1) = Pow(r) * RingSize
  /\ Pow(Rings) = Lap
<1>1. ASSUME NEW r \in RingIds
      PROVE  Pow(r) \in Nat \ {0} /\ Pow(r + 1) \in Nat \ {0} /\ Pow(r + 1) = Pow(r) * RingSize
  <2>1. PICK a \in Nat \ {0} : a = Pow(r)
    BY PowerAssumption DEF Pow
  <2>2. Pow(r + 1) = a * RingSize
    BY <2>1, PowerAssumption DEF Pow
  <2>3. a * RingSize \in Nat /\ a * RingSize # 0
    <3>1. a * RingSize \in Nat
      BY SizeIs
    <3>2. RingSize * a >= RingSize * 0 + RingSize
      BY SizeIs, TimesMono
    <3> QED
      BY <3>1, <3>2, SizeIs
  <2> QED
    BY <2>1, <2>2, <2>3
<1> QED
  BY <1>1, PowerAssumption DEF Pow, Lap

\* A lap takes some ticks.
LEMMA LapIs == Lap \in Nat \ {0}
<1>1. Rings - 1 \in RingIds /\ (Rings - 1) + 1 = Rings
  BY SizeIs DEF RingIds
<1> QED
  BY <1>1, PowIs

\* A number ends in one digit only.
LEMMA RestIs ==
  ASSUME NEW y \in Nat, NEW n \in Nat, NEW d \in Nat, d < RingSize, y = RingSize * n + d
  PROVE  n = y \div RingSize /\ d = y % RingSize
<1>1. PICK b \in Nat \ {0} : b = RingSize
  BY SizeIs
<1>2. y = b * n + d /\ d < b
  BY <1>1
<1>3. n = y \div b /\ d = y % b
  BY <1>2, DivUnique
<1> QED
  BY <1>1, <1>3

\* The number in front of a digit.
LEMMA QuotNext ==
  ASSUME NEW x \in Nat, NEW r \in RingIds
  PROVE  /\ Quot(x, r) \in Nat /\ Quot(x, r + 1) \in Nat /\ Digit(x, r) \in Cells
         /\ Quot(x, r) = RingSize * Quot(x, r + 1) + Digit(x, r)
<1>1. PICK a \in Nat \ {0} : a = Pow(r) /\ Pow(r + 1) = a * RingSize /\ a * RingSize \in Nat \ {0}
  BY PowIs
<1>2. PICK q, e : q = x \div a /\ e = x % a
  OBVIOUS
<1>3. q \in Nat /\ e \in Nat /\ e < a /\ x = a * q + e
  BY <1>2, DivIs
<1>4. PICK n, d : n = q \div RingSize /\ d = q % RingSize
  OBVIOUS
<1>5. n \in Nat /\ d \in Nat /\ d < RingSize /\ q = RingSize * n + d
  BY <1>3, <1>4, DivIs, SizeIs
<1>6. Digit(x, r) = d /\ Quot(x, r) = q
  BY <1>1, <1>2, <1>4 DEF Digit, Pow, Quot
<1>7. a * RingSize >= a * d + a
  BY <1>5, SizeIs, TimesMono
<1>8. a * d \in Nat
  BY <1>5, TimesIs
<1>9. a * d + e \in Nat /\ a * d + e < a * RingSize
  BY <1>1, <1>3, <1>7, <1>8
<1>10. x = (a * RingSize) * n + (a * d + e)
  <2>1. a * (RingSize * n + d) = (a * RingSize) * n + a * d
    BY <1>5, SizeIs
  <2>2. (a * RingSize) * n \in Nat
    BY <1>1, <1>5, TimesIs
  <2> QED
    BY <1>3, <1>5, <1>8, <2>1, <2>2
<1>11. Quot(x, r + 1) = n
  <2>1. PICK b \in Nat \ {0} : b = a * RingSize
    BY <1>1
  <2>2. PICK f \in Nat : f = a * d + e
    BY <1>9
  <2>3. x = b * n + f /\ f < b
    BY <1>9, <1>10, <2>1, <2>2
  <2>4. n = x \div b
    BY <1>5, <2>3, DivUnique
  <2> QED
    BY <1>1, <2>1, <2>4 DEF Quot
<1>12. d \in Cells
  BY <1>5, SizeIs DEF Cells
<1> QED
  BY <1>3, <1>5, <1>6, <1>11, <1>12

\* The quotients of a stamp go from itself to 0.
LEMMA QuotEnds ==
  ASSUME NEW x \in Nat
  PROVE  Quot(x, 0) = x /\ (x < Lap => Quot(x, Rings) = 0)
<1>1. Quot(x, 0) = x
  BY PowIs DEF Quot
<1>2. ASSUME x < Lap
      PROVE  Quot(x, Rings) = 0
  <2>1. PICK b \in Nat \ {0} : b = Lap
    BY LapIs
  <2>2. x = b * 0 + x
    BY <2>1
  <2>3. 0 = x \div b
    BY <1>2, <2>1, <2>2, DivUnique
  <2> QED
    BY <2>1, <2>3, PowIs DEF Quot
<1> QED
  BY <1>1, <1>2

\* Numbers with the same digits from h on agree from h on.
LEMMA SameAbove ==
  ASSUME NEW x \in 0..Lap - 1, NEW y \in 0..Lap - 1, NEW h \in 0..Rings,
         \A r \in RingIds : r >= h => Digit(x, r) = Digit(y, r)
  PROVE  Quot(x, h) = Quot(y, h)
<1>1. x \in Nat /\ y \in Nat /\ x < Lap /\ y < Lap
  BY LapIs
<1>2. PICK S : S = {j \in 0..Rings - h : Quot(x, Rings - j) # Quot(y, Rings - j)}
  OBVIOUS
<1>3. S = {}
  <2> SUFFICES ASSUME S # {} PROVE FALSE
    OBVIOUS
  <2>1. S \in SUBSET Nat
    BY <1>2, SizeIs
  <2>2. PICK m \in S : \A j \in S : m <= j
    BY <2>1, LeastOf
  <2>3. m \in 0..Rings - h /\ Quot(x, Rings - m) # Quot(y, Rings - m)
    BY <1>2
  <2>4. m # 0
    <3>1. Quot(x, Rings) = 0 /\ Quot(y, Rings) = 0
      BY <1>1, QuotEnds
    <3>2. m = 0 => Rings - m = Rings
      BY SizeIs
    <3> QED
      BY <2>3, <3>1, <3>2
  <2>5. PICK r : r = Rings - m
    OBVIOUS
  <2>6. r \in RingIds /\ r >= h /\ Rings - (m - 1) = r + 1 /\ m - 1 \in 0..Rings - h
    BY <2>3, <2>4, <2>5, SizeIs DEF RingIds
  <2>7. m - 1 \notin S
    BY <2>1, <2>2
  <2>8. Quot(x, r + 1) = Quot(y, r + 1)
    BY <1>2, <2>6, <2>7
  <2>9. Digit(x, r) = Digit(y, r)
    BY <2>6
  <2>10. Quot(x, r) = Quot(y, r)
    BY <1>1, <2>6, <2>8, <2>9, QuotNext
  <2> QED
    BY <2>3, <2>5, <2>10
<1>4. Rings - h \in 0..Rings - h /\ Rings - (Rings - h) = h
  BY SizeIs
<1> QED
  BY <1>2, <1>3, <1>4

\* A stamp is known by its digits.
LEMMA SameDigits ==
  ASSUME NEW x \in 0..Lap - 1, NEW y \in 0..Lap - 1, \A r \in RingIds : Digit(x, r) = Digit(y, r)
  PROVE  x = y
<1>1. Quot(x, 0) = Quot(y, 0)
  BY SizeIs, SameAbove
<1> QED
  BY <1>1, LapIs, QuotEnds

\* A greater stamp has no smaller quotient.
LEMMA QuotMono ==
  ASSUME NEW x \in Nat, NEW y \in Nat, x <= y, NEW r \in RingIds
  PROVE  Quot(x, r) <= Quot(y, r)
<1>1. PICK a \in Nat \ {0} : a = Pow(r)
  BY PowIs
<1>2. PICK q, e : q = x \div a /\ e = x % a
  OBVIOUS
<1>3. q \in Nat /\ e \in Nat /\ e < a /\ x = a * q + e
  BY <1>2, DivIs
<1>4. PICK n, d : n = y \div a /\ d = y % a
  OBVIOUS
<1>5. n \in Nat /\ d \in Nat /\ d < a /\ y = a * n + d
  BY <1>4, DivIs
<1>6. ~(n < q)
  <2> SUFFICES ASSUME n < q PROVE FALSE
    OBVIOUS
  <2>1. a * q >= a * n + a
    BY <1>3, <1>5, TimesMono
  <2>2. a * q \in Nat /\ a * n \in Nat
    BY <1>3, <1>5, TimesIs
  <2> QED
    BY <1>3, <1>5, <2>1, <2>2
<1> QED
  BY <1>1, <1>2, <1>3, <1>4, <1>5, <1>6 DEF Quot

\* The highest digit in which two numbers differ decides.
LEMMA HighestDecides ==
  ASSUME NEW x \in 0..Lap - 1, NEW y \in 0..Lap - 1, x <= y, NEW h \in RingIds,
         \A r \in RingIds : r > h => Digit(x, r) = Digit(y, r)
  PROVE  Digit(x, h) <= Digit(y, h) /\ (h = 0 /\ x # y => Digit(x, h) < Digit(y, h))
<1>1. x \in Nat /\ y \in Nat /\ h + 1 \in 0..Rings /\ h \in Nat
  BY LapIs, SizeIs DEF RingIds
<1>2. \A r \in RingIds : r >= h + 1 => Digit(x, r) = Digit(y, r)
  BY <1>1 DEF RingIds
<1>3. Quot(x, h + 1) = Quot(y, h + 1)
  BY <1>1, <1>2, SameAbove
<1>4. Quot(x, h) <= Quot(y, h)
  BY <1>1, QuotMono
<1>5. PICK n : n = RingSize * Quot(x, h + 1)
  OBVIOUS
<1>6. /\ n \in Nat /\ Quot(x, h) = n + Digit(x, h) /\ Quot(y, h) = n + Digit(y, h)
      /\ Digit(x, h) \in Cells /\ Digit(y, h) \in Cells
  BY <1>1, <1>3, <1>5, QuotNext, SizeIs, TimesIs
<1>7. Digit(x, h) \in Nat /\ Digit(y, h) \in Nat
  BY <1>6 DEF Cells
<1>8. h = 0 => Quot(x, h) = x /\ Quot(y, h) = y
  BY <1>1, QuotEnds
<1> QED
  BY <1>1, <1>4, <1>6, <1>7, <1>8

\* Numbers a slot of the last ring apart are in different slots of it.
LEMMA TopDiffers ==
  ASSUME NEW x \in 0..Lap - 1, NEW y \in 0..Lap - 1, y + Pow(Rings - 1) <= x \/ (y = 1 /\ Pow(Rings - 1) <= x)
  PROVE  Digit(x, Rings - 1) # Digit(y, Rings - 1)
<1>1. x \in Nat /\ y \in Nat /\ x < Lap /\ y < Lap
  BY LapIs
<1>2. PICK k : k = Rings - 1
  OBVIOUS
<1>3. k \in RingIds /\ k + 1 = Rings /\ k - 1 \in RingIds /\ (k - 1) + 1 = k
  BY <1>2, SizeIs DEF RingIds
<1>4. PICK a \in Nat \ {0} : a = Pow(k) /\ a >= 2
  <2>1. PICK b \in Nat \ {0} : b = Pow(k - 1) /\ Pow(k) = b * RingSize /\ Pow(k) \in Nat \ {0}
    BY <1>3, PowIs
  <2>2. RingSize * b >= RingSize * 0 + RingSize
    BY <2>1, SizeIs, TimesMono
  <2>3. b * RingSize >= 2
    BY <2>1, <2>2, SizeIs
  <2> QED
    BY <2>1, <2>3
<1>5. Quot(x, k) = Digit(x, k) /\ Quot(y, k) = Digit(y, k)
  <2>1. Quot(x, k + 1) = 0 /\ Quot(y, k + 1) = 0
    BY <1>1, <1>3, QuotEnds
  <2>2. Digit(x, k) \in Nat /\ Digit(y, k) \in Nat
    BY <1>1, <1>3, QuotNext DEF Cells
  <2> QED
    BY <1>1, <1>3, <2>1, <2>2, QuotNext, SizeIs
<1>6. PICK q, e : q = x \div a /\ e = x % a
  OBVIOUS
<1>7. q \in Nat /\ e \in Nat /\ e < a /\ x = a * q + e
  BY <1>1, <1>6, DivIs
<1>8. PICK n, d : n = y \div a /\ d = y % a
  OBVIOUS
<1>9. n \in Nat /\ d \in Nat /\ d < a /\ y = a * n + d
  BY <1>1, <1>8, DivIs
<1>10. q # n
  <2>1. a * q \in Nat /\ a * n \in Nat
    BY <1>7, <1>9, TimesIs
  <2>2. CASE y + a <= x
    BY <1>7, <1>9, <2>1, <2>2
  <2>3. CASE y = 1 /\ a <= x
    <3>1. n = 0
      <4>1. 1 = a * 0 + 1 /\ 1 < a
        BY <1>4
      <4> QED
        BY <1>8, <2>3, <4>1, DivUnique
    <3>2. q # 0
      BY <1>7, <2>3
    <3> QED
      BY <3>1, <3>2
  <2> QED
    BY <1>2, <1>4, <2>2, <2>3
<1> QED
  BY <1>2, <1>4, <1>5, <1>6, <1>8, <1>10 DEF Quot

\* Counting on: the rings in front of h come round.
LEMMA Carries ==
  ASSUME NEW x \in Nat, NEW h \in 0..Rings, \A r \in RingIds : r < h => Digit(x, r) = RingSize - 1
  PROVE  /\ Quot(x + 1, h) = Quot(x, h) + 1
         /\ \A r \in RingIds : r < h => Digit(x + 1, r) = 0
<1> DEFINE Bad(k) == Quot(x + 1, k) # Quot(x, k) + 1
<1>1. PICK S : S = {k \in 0..h : Bad(k)}
  OBVIOUS
<1>2. ASSUME NEW k \in RingIds, k < h, ~Bad(k)
      PROVE  Digit(x + 1, k) = 0 /\ ~Bad(k + 1)
  <2>1. PICK q : q = Quot(x, k + 1)
    OBVIOUS
  <2>2. q \in Nat /\ Quot(x, k) = RingSize * q + (RingSize - 1)
    BY <1>2, <2>1, QuotNext
  <2>3. PICK n, d : n = Quot(x + 1, k + 1) /\ d = Digit(x + 1, k)
    OBVIOUS
  <2>4. n \in Nat /\ d \in Cells /\ Quot(x + 1, k) = RingSize * n + d
    BY <1>2, <2>3, QuotNext
  <2>5. RingSize * n + d = RingSize * (q + 1) + 0
    <3>1. RingSize * (q + 1) = RingSize * q + RingSize /\ RingSize * q \in Nat
      BY <2>2, SizeIs
    <3> QED
      BY <1>2, <2>2, <2>4, <3>1, SizeIs
  <2>6. PICK y \in Nat : y = RingSize * n + d
    BY <2>4, SizeIs, TimesIs DEF Cells
  <2>7. d \in Nat /\ d < RingSize
    BY <2>4, SizeIs DEF Cells
  <2>8. n = y \div RingSize /\ d = y % RingSize
    BY <2>4, <2>6, <2>7, SizeIs, RestIs
  <2>9. q + 1 = y \div RingSize /\ 0 = y % RingSize
    BY <2>2, <2>5, <2>6, SizeIs, RestIs
  <2> QED
    BY <2>1, <2>3, <2>8, <2>9
<1>3. S = {}
  <2> SUFFICES ASSUME S # {} PROVE FALSE
    OBVIOUS
  <2>1. S \in SUBSET Nat
    BY <1>1, SizeIs
  <2>2. PICK m \in S : \A j \in S : m <= j
    BY <2>1, LeastOf
  <2>3. m \in 0..h /\ Bad(m)
    BY <1>1, <2>2
  <2>4. m # 0
    BY <2>3, QuotEnds
  <2>5. PICK k : k = m - 1
    OBVIOUS
  <2>6. k \in RingIds /\ k < h /\ k + 1 = m /\ k \in 0..h
    BY <2>3, <2>4, <2>5, SizeIs DEF RingIds
  <2>7. k \notin S
    BY <2>1, <2>2, <2>6
  <2>8. ~Bad(k)
    BY <1>1, <2>6, <2>7
  <2> QED
    BY <1>2, <2>3, <2>6, <2>8
<1>4. \A k \in 0..h : ~Bad(k)
  BY <1>1, <1>3
<1>5. ASSUME NEW r \in RingIds, r < h
      PROVE  Digit(x + 1, r) = 0
  BY <1>2, <1>4, <1>5, SizeIs DEF RingIds
<1>6. ~Bad(h)
  BY <1>4, SizeIs
<1> QED
  BY <1>5, <1>6

\* ... and the next one takes the carry.
LEMMA CarryStops ==
  ASSUME NEW x \in 0..Lap - 1, NEW h \in RingIds, \A r \in RingIds : r < h => Digit(x, r) = RingSize - 1,
         Digit(x, h) # RingSize - 1
  PROVE  /\ x + 1 \in 0..Lap - 1
         /\ \A r \in RingIds : r < h => Digit(x + 1, r) = 0
         /\ Digit(x + 1, h) = Digit(x, h) + 1
         /\ \A r \in RingIds : r > h => Digit(x + 1, r) = Digit(x, r)
<1>1. x \in Nat /\ x < Lap /\ x + 1 \in Nat /\ h \in 0..Rings /\ h \in Nat /\ h + 1 \in 0..Rings
  BY LapIs, SizeIs DEF RingIds
<1>2. Quot(x + 1, h) = Quot(x, h) + 1 /\ \A r \in RingIds : r < h => Digit(x + 1, r) = 0
  BY <1>1, Carries
<1>3. Digit(x + 1, h) = Digit(x, h) + 1 /\ Quot(x + 1, h + 1) = Quot(x, h + 1)
  <2>1. PICK q, e : q = Quot(x, h + 1) /\ e = Digit(x, h)
    OBVIOUS
  <2>2. q \in Nat /\ e \in Cells /\ Quot(x, h) = RingSize * q + e
    BY <1>1, <2>1, QuotNext
  <2>3. PICK n, d : n = Quot(x + 1, h + 1) /\ d = Digit(x + 1, h)
    OBVIOUS
  <2>4. n \in Nat /\ d \in Cells /\ Quot(x + 1, h) = RingSize * n + d
    BY <1>1, <2>3, QuotNext
  <2>5. /\ RingSize * n \in Nat /\ RingSize * q \in Nat
        /\ d \in Nat /\ d < RingSize /\ e + 1 \in Nat /\ e + 1 < RingSize
    BY <2>1, <2>2, <2>4, SizeIs, TimesIs DEF Cells
  <2>6. PICK y \in Nat : y = RingSize * n + d
    BY <2>5
  <2>7. y = RingSize * q + (e + 1)
    BY <1>2, <2>2, <2>4, <2>5, <2>6
  <2>8. n = y \div RingSize /\ d = y % RingSize
    BY <2>4, <2>5, <2>6, SizeIs, RestIs
  <2>9. q = y \div RingSize /\ e + 1 = y % RingSize
    BY <2>2, <2>5, <2>7, SizeIs, RestIs
  <2> QED
    BY <2>1, <2>3, <2>8, <2>9
<1> DEFINE Bad(k) == Quot(x + 1, k) # Quot(x, k)
<1>4. ASSUME NEW k \in RingIds, k > h, ~Bad(k)
      PROVE  Digit(x + 1, k) = Digit(x, k) /\ ~Bad(k + 1)
  <2>1. PICK y \in Nat : y = Quot(x, k)
    BY <1>1, QuotNext
  <2>2. ASSUME NEW z \in Nat, Quot(z, k) = y
        PROVE  Quot(z, k + 1) = y \div RingSize /\ Digit(z, k) = y % RingSize
    <3>1. Quot(z, k + 1) \in Nat /\ Digit(z, k) \in Cells /\ y = RingSize * Quot(z, k + 1) + Digit(z, k)
      BY <2>2, QuotNext
    <3>2. Digit(z, k) \in Nat /\ Digit(z, k) < RingSize
      BY <3>1, SizeIs DEF Cells
    <3> QED
      BY <3>1, <3>2, SizeIs, DivUnique
  <2> QED
    BY <1>1, <1>4, <2>1, <2>2
<1>5. PICK S : S = {k \in h + 1..Rings : Bad(k)}
  OBVIOUS
<1>6. S = {}
  <2> SUFFICES ASSUME S # {} PROVE FALSE
    OBVIOUS
  <2>1. S \in SUBSET Nat
    BY <1>1, <1>5, SizeIs
  <2>2. PICK m \in S : \A j \in S : m <= j
    BY <2>1, LeastOf
  <2>3. m \in h + 1..Rings /\ Bad(m)
    BY <1>5, <2>2
  <2>4. m # h + 1
    BY <1>3, <2>3
  <2>5. PICK k : k = m - 1
    OBVIOUS
  <2>6. k \in RingIds /\ k > h /\ k + 1 = m /\ k \in h + 1..Rings
    BY <1>1, <2>3, <2>4, <2>5, SizeIs DEF RingIds
  <2>7. k \notin S
    BY <2>1, <2>2, <2>6
  <2>8. ~Bad(k)
    BY <1>5, <2>6, <2>7
  <2> QED
    BY <1>4, <2>3, <2>6, <2>8
<1>7. \A k \in h + 1..Rings : ~Bad(k)
  BY <1>5, <1>6
<1>8. ASSUME NEW r \in RingIds, r > h
      PROVE  Digit(x + 1, r) = Digit(x, r)
  <2>1. r \in h + 1..Rings
    BY <1>1, <1>8, SizeIs DEF RingIds
  <2> QED
    BY <1>4, <1>7, <1>8, <2>1
<1>9. x + 1 < Lap
  <2>1. Rings \in h + 1..Rings
    BY <1>1, SizeIs
  <2>2. Quot(x + 1, Rings) = 0
    BY <1>1, <1>7, <2>1, QuotEnds
  <2>3. PICK b \in Nat \ {0} : b = Lap
    BY LapIs
  <2>4. (x + 1) \div b = 0
    BY <2>2, <2>3, PowIs DEF Quot
  <2>5. x + 1 = b * 0 + ((x + 1) % b) /\ (x + 1) % b < b /\ (x + 1) % b \in Nat
    BY <1>1, <2>3, <2>4, DivIs
  <2> QED
    BY <1>1, <2>3, <2>5
<1> QED
  BY <1>1, <1>2, <1>3, <1>8, <1>9, LapIs

\* ... unless all rings come round, which ends the lap.
LEMMA LapEnds ==
  ASSUME NEW x \in 0..Lap - 1, \A r \in RingIds : Digit(x, r) = RingSize - 1
  PROVE  x + 1 = Lap
<1>1. x \in Nat /\ x < Lap /\ x + 1 \in Nat /\ Rings \in 0..Rings
  BY LapIs, SizeIs
<1>2. Quot(x + 1, Rings) = Quot(x, Rings) + 1
  BY <1>1, Carries
<1>3. Quot(x, Rings) = 0
  BY <1>1, QuotEnds
<1>4. Quot(x + 1, Rings) # 0
  BY <1>2, <1>3
<1>5. ~(x + 1 < Lap)
  BY <1>1, <1>4, QuotEnds
<1> QED
  BY <1>1, <1>5, LapIs

\* The digits of 0.
LEMMA ZeroDigits ==
  \A r \in RingIds : Digit(0, r) = 0
<1> SUFFICES ASSUME NEW r \in RingIds PROVE Digit(0, r) = 0
  OBVIOUS
<1>1. PICK a \in Nat \ {0} : a = Pow(r)
  BY PowIs
<1>2. 0 = a * 0 + 0 /\ 0 = RingSize * 0 + 0
  BY <1>1, SizeIs
<1>3. 0 = 0 \div a /\ 0 = 0 % RingSize
  BY <1>1, <1>2, SizeIs, DivUnique
<1> QED
  BY <1>1, <1>3 DEF Digit, Pow

-----------------------------------------------------------------------------
(* The numbers of the timer queue                                          *)

\* One sequence after another.
Joined(S, a, b, n, k, c) ==
  /\ c \in Seq(S) /\ DOMAIN c = 1..n + k
  /\ \A i \in 1..n : c[i] = a[i]
  /\ \A i \in 1..k : c[n + i] = b[i]

\* The elements of a concatenation.
LEMMA ConcatIs ==
  ASSUME NEW S, NEW a \in Seq(S), NEW b \in Seq(S), NEW n \in Nat, NEW k \in Nat, Len(a) = n, Len(b) = k
  PROVE  Joined(S, a, b, n, k, a \o b)
BY SMTT(90) DEF Joined

\* What a timer is for.
Acts == ({"request"} \X Params) \cup ({"connect", "heartbeat"} \X Conns)

Entry == [stamp : Nat, act : Acts \cup {<<>>}]

IsWheel(w) ==
  w = [pos |-> w.pos, slot |-> w.slot, heap |-> w.heap, free |-> w.free,
       start |-> w.start, prev |-> w.prev, scan |-> w.scan]

\* The queue is a record, and its numbers are free or name a timer.
WheelOK(w) ==
  /\ IsWheel(w)
  /\ w.heap \in Seq(Entry)
  /\ \A id \in LiveIds(w) : w.heap[id].act \in Acts
  /\ w.free \in Seq(Nat)
  /\ w.start \in Nat
  /\ NumbersPartitioned(w)

\* v is w with one more timer.
Takes(w, v, id, act) ==
  /\ WheelOK(v)
  /\ id \in Nat \ {0} /\ id \notin LiveIds(w)
  /\ LiveIds(v) = LiveIds(w) \cup {id}
  /\ v.heap[id].act = act
  /\ \A i \in LiveIds(w) : v.heap[i] = w.heap[i]
  /\ v.scan = w.scan

\* v is w without the timers in D.
Drops(w, v, D) ==
  /\ WheelOK(v)
  /\ LiveIds(v) = LiveIds(w) \ D
  /\ \A i \in LiveIds(v) : v.heap[i] = w.heap[i]

\* Two queues that differ in their rings only.
SameNumbers(w, v) == IsWheel(v) /\ v.heap = w.heap /\ v.free = w.free

\* What the numbers are does not depend on the rings.
LEMMA RingsAside ==
  ASSUME NEW w, WheelOK(w), NEW v, SameNumbers(w, v), v.start \in Nat
  PROVE  WheelOK(v) /\ Drops(w, v, {})
<1>1. LiveIds(v) = LiveIds(w)
  BY DEF SameNumbers, LiveIds
<1>2. NumbersPartitioned(v)
  BY <1>1 DEF SameNumbers, WheelOK, NumbersPartitioned
<1>3. WheelOK(v)
  BY <1>1, <1>2 DEF SameNumbers, WheelOK
<1> QED
  BY <1>1, <1>3 DEF Drops, SameNumbers

\* A timer is put on the rings, or taken off.
LEMMA InsertIs ==
  ASSUME NEW w, IsWheel(w), NEW id
  PROVE  /\ SameNumbers(w, Insert(w, id))
         /\ Insert(w, id).start = w.start /\ Insert(w, id).scan = w.scan
<1>1. PICK slots : Insert(w, id) = [w EXCEPT !.slot = slots]
  BY DEF Insert
<1> QED
  BY <1>1 DEF IsWheel, SameNumbers

\* delete_node changes slots, and no number.
LEMMA DeleteIs ==
  ASSUME NEW w, IsWheel(w), NEW id
  PROVE  /\ SameNumbers(w, Delete(w, id))
         /\ Delete(w, id).start = w.start /\ Delete(w, id).scan = w.scan
<1>1. PICK slots : Delete(w, id) = [w EXCEPT !.slot = slots]
  BY DEF Delete
<1> QED
  BY <1>1 DEF IsWheel, SameNumbers

\* There is always a number to hand out: the heap grows when all are in use.
LEMMA GrownIs ==
  ASSUME NEW w, WheelOK(w)
  PROVE  /\ Drops(w, Grown(w), {}) /\ Grown(w).free # <<>>
         /\ Grown(w).start = w.start /\ Grown(w).scan = w.scan
<1>1. PICK n \in Nat : n = Len(w.heap)
  BY DEF WheelOK
<1>2. DOMAIN w.heap = 1..n /\ HeapLen(w) = n + 1 /\ LiveIds(w) \in SUBSET (1..n)
  BY <1>1 DEF WheelOK, HeapLen, LiveIds
<1>3. IsFiniteSet(1..n) /\ Cardinality(1..n) = n
  BY FS_Interval
<1>4. IsFiniteSet(LiveIds(w)) /\ Used(w) \in Nat /\ Used(w) <= n /\ (Used(w) = n => LiveIds(w) = 1..n)
  BY <1>2, <1>3, FS_Subset, FS_CardinalityType DEF Used
<1>5. CASE Used(w) < n
  <2>1. Grown(w) = w
    BY <1>2, <1>4, <1>5 DEF Grown
  <2>2. LiveIds(w) # 1..n
    BY <1>3, <1>5 DEF Used
  <2>3. ToSet(w.free) # {}
    BY <1>2, <2>2 DEF WheelOK, NumbersPartitioned
  <2>4. w.free # <<>>
    BY <2>3 DEF ToSet
  <2> QED
    BY <2>1, <2>4 DEF Drops
<1>6. CASE Used(w) = n
  <2> DEFINE more == [i \in 1..n + 2 |-> NoNode]
             new == [i \in 1..n + 2 |-> n + i]
  <2>1. PICK h : h = w.heap \o more
    OBVIOUS
  <2>2. PICK f : f = w.free \o new
    OBVIOUS
  <2>3. Grown(w) = [w EXCEPT !.heap = h, !.free = f]
    <3>1. [i \in 1..(n + 1) + 1 |-> (n + 1) + i - 1] = new
      OBVIOUS
    <3>2. (n + 1) + 1 = n + 2 /\ Used(w) >= (n + 1) - 1
      BY <1>6
    <3> QED
      BY <1>2, <2>1, <2>2, <3>1, <3>2 DEF Grown
  <2>4. PICK m \in Nat : m = Len(w.free) /\ DOMAIN w.free = 1..m
    BY DEF WheelOK
  <2>5. /\ h \in Seq(Entry) /\ DOMAIN h = 1..2 * n + 2
        /\ \A i \in 1..n : h[i] = w.heap[i]
        /\ \A i \in n + 1..2 * n + 2 : h[i] = NoNode
    <3>1. NoNode \in Entry
      BY DEF NoNode, Entry
    <3>2. more \in Seq(Entry) /\ Len(more) = n + 2
      BY <3>1
    <3>3. \A i \in 1..n + 2 : more[i] = NoNode
      OBVIOUS
    <3> HIDE DEF more
    <3>4. Joined(Entry, w.heap, more, n, n + 2, h)
      <4>1. w.heap \in Seq(Entry) /\ n + 2 \in Nat
        BY DEF WheelOK
      <4> QED
        BY <1>1, <2>1, <3>2, <4>1, ConcatIs
    <3>5. \A i \in n + 1..2 * n + 2 : i - n \in 1..n + 2 /\ n + (i - n) = i
      OBVIOUS
    <3>6. n + (n + 2) = 2 * n + 2
      OBVIOUS
    <3> QED
      BY <3>3, <3>4, <3>5, <3>6 DEF Joined
  <2>6. /\ f \in Seq(Nat) /\ DOMAIN f = 1..m + n + 2
        /\ \A i \in 1..m : f[i] = w.free[i]
        /\ \A i \in m + 1..m + n + 2 : f[i] = n + (i - m)
    <3>1. new \in Seq(Nat) /\ Len(new) = n + 2
      OBVIOUS
    <3>2. \A i \in 1..n + 2 : new[i] = n + i
      OBVIOUS
    <3> HIDE DEF new
    <3>3. Joined(Nat, w.free, new, m, n + 2, f)
      <4>1. w.free \in Seq(Nat) /\ n + 2 \in Nat
        BY DEF WheelOK
      <4> QED
        BY <2>2, <2>4, <3>1, <4>1, ConcatIs
    <3>4. \A i \in m + 1..m + n + 2 : i - m \in 1..n + 2 /\ m + (i - m) = i
      OBVIOUS
    <3>5. m + (n + 2) = m + n + 2
      OBVIOUS
    <3>6. \A i \in m + 1..m + n + 2 : f[i] = n + (i - m)
      <4> TAKE i \in m + 1..m + n + 2
      <4>1. PICK j \in 1..n + 2 : j = i - m /\ m + j = i
        BY <3>4
      <4>2. f[m + j] = n + j
        BY <3>2, <3>3 DEF Joined
      <4> QED
        BY <4>1, <4>2
    <3> QED
      BY <3>3, <3>5, <3>6 DEF Joined
  <2>7. PICK v : v = Grown(w)
    OBVIOUS
  <2>8. v.heap = h /\ v.free = f /\ v.start = w.start /\ v.scan = w.scan /\ IsWheel(v)
    BY <2>3, <2>7 DEF WheelOK, IsWheel
  <2>9. LiveIds(v) = LiveIds(w)
    <3>1. \A i \in 1..2 * n + 2 : h[i].stamp # 0 <=> i \in 1..n /\ w.heap[i].stamp # 0
      <4>1. \A i \in 1..2 * n + 2 : i \in 1..n \/ i \in n + 1..2 * n + 2
        OBVIOUS
      <4> QED
        BY <2>5, <4>1 DEF NoNode
    <3> QED
      BY <1>2, <2>5, <2>8, <3>1 DEF LiveIds
  <2>10. \A i \in 1..m : w.free[i] \in 1..n /\ w.free[i] \notin LiveIds(w)
    BY <1>2, <2>4 DEF WheelOK, NumbersPartitioned, ToSet
  <2>11. IsInjective(f)
    <3>1. SUFFICES ASSUME NEW i \in 1..m + n + 2, NEW j \in 1..m + n + 2, f[i] = f[j]
                   PROVE  i = j
      BY <2>6 DEF IsInjective
    <3>2. \A k \in 1..m + n + 2 : k \in 1..m \/ k \in m + 1..m + n + 2
      OBVIOUS
    <3>3. CASE i \in 1..m /\ j \in 1..m
      BY <2>4, <2>6, <3>1, <3>3 DEF WheelOK, NumbersPartitioned, IsInjective
    <3>4. CASE i \in m + 1..m + n + 2 /\ j \in m + 1..m + n + 2
      <4>1. PICK x : x = f[i]
        OBVIOUS
      <4>2. PICK y : y = f[j]
        OBVIOUS
      <4>3. x = n + (i - m)
        BY <2>6, <3>4, <4>1
      <4>4. y = n + (j - m)
        BY <2>6, <3>4, <4>2
      <4>5. x = y
        BY <3>1, <4>1, <4>2
      <4>6. i \in Int /\ j \in Int /\ n \in Int /\ m \in Int
        BY <2>1, <2>4
      <4> QED
        BY <4>3, <4>4, <4>5, <4>6
    <3>7. ASSUME NEW x \in 1..m, NEW y \in m + 1..m + n + 2
          PROVE  f[x] # f[y]
      <4>1. f[x] \in 1..n
        BY <2>6, <2>10
      <4>2. f[y] = n + (y - m)
        BY <2>6
      <4>3. y >= m + 1 /\ y \in Int /\ m \in Int /\ n \in Int
        BY <2>4
      <4>4. n + (y - m) > n
        BY <4>3
      <4> QED
        BY <4>1, <4>2, <4>4
    <3>5. CASE i \in 1..m /\ j \in m + 1..m + n + 2
      BY <3>1, <3>5, <3>7
    <3>6. CASE j \in 1..m /\ i \in m + 1..m + n + 2
      BY <3>1, <3>6, <3>7
    <3> QED
      BY <3>2, <3>3, <3>4, <3>5, <3>6
  <2>12. ToSet(f) = ToSet(w.free) \cup (n + 1..2 * n + 2)
    <3>1. ToSet(f) = {f[i] : i \in 1..m + n + 2} /\ ToSet(w.free) = {w.free[i] : i \in 1..m}
      BY <2>4, <2>6 DEF ToSet
    <3>2. \A x \in n + 1..2 * n + 2 : x - n + m \in m + 1..m + n + 2 /\ f[x - n + m] = x
      BY <2>6
    <3>3. \A i \in 1..m + n + 2 : f[i] \in ToSet(w.free) \cup (n + 1..2 * n + 2)
      <4> TAKE i \in 1..m + n + 2
      <4>1. CASE i \in 1..m
        BY <2>6, <3>1, <4>1
      <4>2. CASE i \in m + 1..m + n + 2
        BY <2>6, <4>2
      <4> QED
        BY <4>1, <4>2
    <3>4. \A x \in ToSet(w.free) : x \in ToSet(f)
      BY <2>6, <3>1, SMTT(90)
    <3>5. \A x \in n + 1..2 * n + 2 : x \in ToSet(f)
      BY <3>1, <3>2
    <3> QED
      BY <3>1, <3>3, <3>4, <3>5
  <2>13. NumbersPartitioned(v)
    <3>1. ToSet(w.free) \cup LiveIds(w) = 1..n /\ ToSet(w.free) \cap LiveIds(w) = {}
      BY <1>2 DEF WheelOK, NumbersPartitioned
    <3>2. 1..2 * n + 2 = (1..n) \cup (n + 1..2 * n + 2) /\ (1..n) \cap (n + 1..2 * n + 2) = {}
      OBVIOUS
    <3>3. ToSet(f) \cup LiveIds(w) = 1..2 * n + 2 /\ ToSet(f) \cap LiveIds(w) = {}
      BY <1>2, <2>12, <3>1, <3>2
    <3> QED
      BY <2>5, <2>8, <2>9, <2>11, <3>3 DEF NumbersPartitioned
  <2>14. \A i \in LiveIds(w) : v.heap[i] = w.heap[i]
    BY <1>2, <2>5, <2>8
  <2>15. WheelOK(v)
    BY <2>5, <2>6, <2>8, <2>9, <2>13, <2>14 DEF WheelOK
  <2>16. f # <<>>
    BY <2>6
  <2> QED
    BY <2>7, <2>8, <2>9, <2>14, <2>15, <2>16 DEF Drops
<1> QED
  BY <1>4, <1>5, <1>6

\* A number that is free again.
LEMMA FreedIs ==
  ASSUME NEW w, WheelOK(w), NEW id \in LiveIds(w)
  PROVE  Drops(w, Freed(w, id), {id}) /\ Freed(w, id).start = w.start /\ Freed(w, id).scan = w.scan
<1>1. PICK h : h = [w.heap EXCEPT ![id] = NoNode]
  OBVIOUS
<1>2. PICK f : f = Append(w.free, id)
  OBVIOUS
<1>3. PICK v : v = Freed(w, id)
  OBVIOUS
<1>4. v.heap = h /\ v.free = f /\ v.start = w.start /\ v.scan = w.scan /\ IsWheel(v)
  BY <1>1, <1>2, <1>3 DEF Freed, WheelOK, IsWheel
<1>5. id \in DOMAIN w.heap /\ DOMAIN w.heap \in SUBSET Nat
  BY DEF LiveIds, WheelOK
<1>6. h \in Seq(Entry) /\ DOMAIN h = DOMAIN w.heap
  <2>1. NoNode \in Entry
    BY DEF NoNode, Entry
  <2> QED
    BY <1>1, <1>5, <2>1 DEF WheelOK
<1>7. h[id] = NoNode /\ \A i \in DOMAIN w.heap : i # id => h[i] = w.heap[i]
  BY <1>1, <1>5 DEF WheelOK
<1>8. LiveIds(v) = LiveIds(w) \ {id}
  BY <1>4, <1>6, <1>7 DEF LiveIds, NoNode
<1>9. PICK m \in Nat : m = Len(w.free) /\ DOMAIN w.free = 1..m
  BY DEF WheelOK
<1>10. /\ f \in Seq(Nat) /\ DOMAIN f = 1..m + 1
       /\ f[m + 1] = id /\ \A i \in 1..m : f[i] = w.free[i]
  BY <1>2, <1>5, <1>9 DEF WheelOK
<1>11. \A i \in 1..m : w.free[i] # id
  BY <1>9 DEF WheelOK, NumbersPartitioned, ToSet
<1>12. IsInjective(f)
  <2>1. \A i \in 1..m + 1 : i \in 1..m \/ i = m + 1
    OBVIOUS
  <2>2. \A i, j \in 1..m : w.free[i] = w.free[j] => i = j
    BY <1>9 DEF WheelOK, NumbersPartitioned, IsInjective
  <2> QED
    BY <1>10, <1>11, <2>1, <2>2 DEF IsInjective
<1>13. ToSet(f) = ToSet(w.free) \cup {id}
  BY <1>9, <1>10, SMTT(90) DEF ToSet
<1>14. NumbersPartitioned(v)
  BY <1>4, <1>5, <1>6, <1>8, <1>12, <1>13 DEF WheelOK, NumbersPartitioned
<1>15. WheelOK(v)
  BY <1>4, <1>6, <1>7, <1>8, <1>10, <1>14 DEF WheelOK, LiveIds
<1>16. \A i \in LiveIds(v) : v.heap[i] = w.heap[i]
  BY <1>4, <1>7, <1>8 DEF LiveIds
<1> QED
  BY <1>3, <1>4, <1>8, <1>15, <1>16 DEF Drops

\* What was dropped in two steps.
LEMMA DropsTwice ==
  ASSUME NEW w, NEW v, NEW u, NEW C, NEW D, Drops(w, v, C), Drops(v, u, D)
  PROVE  Drops(w, u, C \cup D)
BY DEF Drops

\* cancel_timer, of a timer that is there or not.
LEMMA CancelIs ==
  ASSUME NEW w, WheelOK(w), NEW id
  PROVE  Drops(w, Cancel(w, id), {id}) /\ Cancel(w, id).start = w.start /\ Cancel(w, id).scan = w.scan
<1>1. Live(w, id) <=> id \in LiveIds(w)
  BY DEF Live, LiveIds
<1>2. CASE id \in LiveIds(w)
  <2>1. PICK v : v = Delete(w, id)
    OBVIOUS
  <2>2. SameNumbers(w, v) /\ v.start = w.start /\ v.scan = w.scan
    BY <2>1, DeleteIs DEF WheelOK
  <2>3. WheelOK(v) /\ Drops(w, v, {})
    BY <2>2, RingsAside DEF WheelOK
  <2>4. id \in LiveIds(v)
    BY <1>2, <2>3 DEF Drops
  <2>5. Drops(v, Freed(v, id), {id}) /\ Freed(v, id).start = v.start /\ Freed(v, id).scan = v.scan
    BY <2>3, <2>4, FreedIs
  <2>6. Drops(w, Freed(v, id), {} \cup {id})
    BY <2>3, <2>5, DropsTwice
  <2>7. Cancel(w, id) = Freed(v, id) /\ {} \cup {id} = {id}
    BY <1>1, <1>2, <2>1 DEF Cancel
  <2> QED
    BY <2>2, <2>5, <2>6, <2>7
<1>3. CASE id \notin LiveIds(w)
  <2>1. Cancel(w, id) = w
    BY <1>1, <1>3 DEF Cancel
  <2> QED
    BY <1>3, <2>1 DEF Drops
<1> QED
  BY <1>2, <1>3

\* A time in ticks.
LEMMA StampIs ==
  ASSUME NEW w, WheelOK(w), NEW delay \in Nat, NEW t \in Nat
  PROVE  Stamp(w, delay, t) \in Nat \ {0}
<1>1. PICK d : d = IF t > w.start THEN t - w.start + delay ELSE delay
  OBVIOUS
<1>2. d \in Nat
  BY <1>1 DEF WheelOK
<1>3. PICK x : x = d % Lap
  OBVIOUS
<1>4. x \in Nat
  <2>1. PICK l \in Nat \ {0} : l = Lap
    BY LapIs
  <2>2. d % l \in Nat
    BY <1>2, <2>1
  <2> QED
    BY <1>3, <2>1, <2>2
<1>5. Stamp(w, delay, t) = Max({x, 1})
  BY <1>1, <1>3 DEF Stamp
<1>6. \E y \in {x, 1} : \A z \in {x, 1} : y >= z
  BY <1>4
<1>7. Max({x, 1}) \in {x, 1} /\ Max({x, 1}) >= 1
  BY <1>6 DEF Max
<1> QED
  BY <1>4, <1>5, <1>7

\* schedule
LEMMA ScheduleIs ==
  ASSUME NEW w, WheelOK(w), NEW act \in Acts, NEW delay \in Nat, NEW t \in Nat
  PROVE  Takes(w, Schedule(w, act, delay, t), NextId(w), act)
<1>1. PICK g : g = Grown(w)
  OBVIOUS
<1>2. PICK id : id = Head(g.free)
  OBVIOUS
<1>3. /\ WheelOK(g) /\ LiveIds(g) = LiveIds(w) /\ \A i \in LiveIds(w) : g.heap[i] = w.heap[i]
      /\ g.free # <<>> /\ g.start = w.start /\ g.scan = w.scan
  BY <1>1, GrownIs DEF Drops
<1>4. PICK stamp \in Nat \ {0} : stamp = Stamp(w, delay, t)
  BY StampIs
<1>5. PICK e : e = [stamp |-> stamp, act |-> act]
  OBVIOUS
<1>6. e \in Entry /\ e.stamp # 0 /\ e.act = act
  BY <1>5 DEF Entry
<1>7. PICK h : h = [g.heap EXCEPT ![id] = e]
  OBVIOUS
<1>8. PICK f : f = Tail(g.free)
  OBVIOUS
<1>9. PICK v : v = [g EXCEPT !.heap = h, !.free = f]
  OBVIOUS
<1>10. v.heap = h /\ v.free = f /\ v.start = g.start /\ v.scan = g.scan /\ IsWheel(v)
  BY <1>3, <1>9 DEF WheelOK, IsWheel
<1>11. Schedule(w, act, delay, t) = Insert(v, id) /\ NextId(w) = id
  BY <1>1, <1>2, <1>4, <1>5, <1>7, <1>8, <1>9 DEF Schedule, NextId
<1>12. PICK m \in Nat : m = Len(g.free) /\ m > 0 /\ DOMAIN g.free = 1..m
  <2>1. g.free \in Seq(Nat) /\ g.free # <<>>
    BY <1>3 DEF WheelOK
  <2> QED
    BY <2>1
<1>13. id = g.free[1] /\ f \in Seq(Nat) /\ DOMAIN f = 1..m - 1 /\ \A i \in 1..m - 1 : f[i] = g.free[i + 1]
  BY <1>2, <1>3, <1>8, <1>12 DEF WheelOK
<1>14. id \in ToSet(g.free) /\ ToSet(g.free) = {g.free[i] : i \in 1..m}
  <2>1. 1 \in 1..m
    BY <1>12
  <2>2. ToSet(g.free) = {g.free[i] : i \in 1..m}
    BY <1>12 DEF ToSet
  <2> QED
    BY <1>13, <2>1, <2>2
<1>15. id \in DOMAIN g.heap /\ id \notin LiveIds(g) /\ id \in Nat \ {0}
  <2>1. id \in DOMAIN g.heap /\ id \notin LiveIds(g)
    BY <1>3, <1>14 DEF WheelOK, NumbersPartitioned
  <2>2. g.heap \in Seq(Entry)
    BY <1>3 DEF WheelOK
  <2> QED
    BY <2>1, <2>2
<1>16. h \in Seq(Entry) /\ DOMAIN h = DOMAIN g.heap
  <2>1. g.heap \in Seq(Entry)
    BY <1>3 DEF WheelOK
  <2> QED
    BY <1>6, <1>7, <1>15, <2>1
<1>17. h[id] = e /\ \A i \in DOMAIN g.heap : i # id => h[i] = g.heap[i]
  BY <1>3, <1>7, <1>15 DEF WheelOK
<1>18. LiveIds(v) = LiveIds(g) \cup {id}
  BY <1>6, <1>10, <1>15, <1>16, <1>17 DEF LiveIds
<1>19. NumbersPartitioned(v)
  <2>1. \A i, j \in 1..m : g.free[i] = g.free[j] => i = j
    BY <1>3, <1>12 DEF WheelOK, NumbersPartitioned, IsInjective
  <2>2. IsInjective(f)
    <3>1. SUFFICES ASSUME NEW i \in 1..m - 1, NEW j \in 1..m - 1, f[i] = f[j]
                   PROVE  i = j
      BY <1>13 DEF IsInjective
    <3>2. i + 1 \in 1..m /\ j + 1 \in 1..m /\ g.free[i + 1] = g.free[j + 1]
      BY <1>13, <3>1
    <3>3. i + 1 = j + 1
      BY <2>1, <3>2
    <3> QED
      BY <3>3
  <2>3. ToSet(f) = {f[i] : i \in 1..m - 1}
    BY <1>13 DEF ToSet
  <2>4. \A i \in 1..m - 1 : i + 1 \in 1..m /\ f[i] = g.free[i + 1] /\ f[i] # id
    BY <1>12, <1>13, <2>1
  <2>5. \A j \in 1..m : j = 1 \/ (j - 1 \in 1..m - 1 /\ f[j - 1] = g.free[j])
    BY <1>13
  <2>6. ToSet(f) = ToSet(g.free) \ {id}
    <3>1. \A x \in ToSet(f) : x \in ToSet(g.free) \ {id}
      BY <1>14, <2>3, <2>4
    <3>2. \A x \in ToSet(g.free) \ {id} : x \in ToSet(f)
      BY <1>13, <1>14, <2>3, <2>5
    <3> QED
      BY <3>1, <3>2
  <2>7. ToSet(g.free) \cap LiveIds(g) = {} /\ ToSet(g.free) \cup LiveIds(g) = DOMAIN g.heap
    BY <1>3 DEF WheelOK, NumbersPartitioned
  <2> QED
    BY <1>10, <1>14, <1>15, <1>16, <1>18, <2>2, <2>6, <2>7 DEF NumbersPartitioned
<1>20. v.heap[id].act = act /\ \A i \in LiveIds(w) : v.heap[i] = w.heap[i]
  BY <1>3, <1>6, <1>10, <1>15, <1>17 DEF LiveIds
<1>21. WheelOK(v)
  <2>1. \A i \in LiveIds(v) : v.heap[i].act \in Acts
    BY <1>3, <1>18, <1>20 DEF WheelOK
  <2> QED
    BY <1>3, <1>10, <1>13, <1>16, <1>19, <2>1 DEF WheelOK
<1>22. PICK u : u = Insert(v, id)
  OBVIOUS
<1>23. SameNumbers(v, u) /\ u.start = v.start /\ u.scan = v.scan
  BY <1>21, <1>22, InsertIs DEF WheelOK
<1>24. WheelOK(u) /\ Drops(v, u, {})
  BY <1>21, <1>23, RingsAside DEF WheelOK
<1>25. LiveIds(u) = LiveIds(w) \cup {id} /\ u.scan = w.scan
  BY <1>3, <1>10, <1>18, <1>23, <1>24 DEF Drops
<1>26. u.heap[id].act = act /\ \A i \in LiveIds(w) : u.heap[i] = w.heap[i]
  BY <1>20, <1>23 DEF SameNumbers
<1> QED
  BY <1>3, <1>11, <1>15, <1>22, <1>24, <1>25, <1>26 DEF Takes

-----------------------------------------------------------------------------
(* The scan leaves the numbers alone                                       *)

\* v is w with its rings and the scan somewhere else.
Turned(w, v) == SameNumbers(w, v) /\ v.start \in Nat

\* Steps that leave the numbers alone compose.
LEMMA TurnedTwice ==
  ASSUME NEW w, NEW v, NEW u, Turned(w, v), Turned(v, u)
  PROVE  Turned(w, u)
BY DEF Turned, SameNumbers

\* One field other than the numbers changes.
LEMMA TurnedOnce ==
  ASSUME NEW w, IsWheel(w), w.start \in Nat
  PROVE  /\ \A x : Turned(w, [w EXCEPT !.scan = x])
         /\ \A x \in Nat : Turned(w, [w EXCEPT !.start = x])
         /\ \A x : Turned(w, [w EXCEPT !.prev = x])
         /\ \A x : Turned(w, [w EXCEPT !.slot = x])
         /\ \A x : Turned(w, [w EXCEPT !.pos = x])
<1>1. ASSUME NEW x PROVE Turned(w, [w EXCEPT !.scan = x])
  BY DEF IsWheel, Turned, SameNumbers
<1>2. ASSUME NEW x \in Nat PROVE Turned(w, [w EXCEPT !.start = x])
  BY DEF IsWheel, Turned, SameNumbers
<1>3. ASSUME NEW x PROVE Turned(w, [w EXCEPT !.prev = x])
  BY DEF IsWheel, Turned, SameNumbers
<1>4. ASSUME NEW x PROVE Turned(w, [w EXCEPT !.slot = x])
  BY DEF IsWheel, Turned, SameNumbers
<1>5. ASSUME NEW x PROVE Turned(w, [w EXCEPT !.pos = x])
  BY DEF IsWheel, Turned, SameNumbers
<1> QED
  BY <1>1, <1>2, <1>3, <1>4, <1>5

\* Changes of one field after another.
LEMMA TurnedPairs ==
  ASSUME NEW w, IsWheel(w), w.start \in Nat
  PROVE  /\ \A x, c : Turned(w, [w EXCEPT !.prev = x, !.scan = c])
         /\ \A x, c : Turned(w, [w EXCEPT !.slot = x, !.scan = c])
         /\ \A x, c : Turned(w, [w EXCEPT !.pos = x, !.scan = c])
<1>1. ASSUME NEW v, Turned(w, v), NEW c
      PROVE  Turned(w, [v EXCEPT !.scan = c])
  <2>1. Turned(v, [v EXCEPT !.scan = c])
    BY <1>1, TurnedOnce DEF Turned, SameNumbers
  <2> QED
    BY <1>1, <2>1, TurnedTwice
<1>2. ASSUME NEW x, NEW c PROVE Turned(w, [w EXCEPT !.prev = x, !.scan = c])
  <2>1. PICK v : v = [w EXCEPT !.prev = x]
    OBVIOUS
  <2>2. [w EXCEPT !.prev = x, !.scan = c] = [v EXCEPT !.scan = c]
    BY <2>1
  <2> QED
    BY <1>1, <2>1, <2>2, TurnedOnce
<1>3. ASSUME NEW x, NEW c PROVE Turned(w, [w EXCEPT !.slot = x, !.scan = c])
  <2>1. PICK v : v = [w EXCEPT !.slot = x]
    OBVIOUS
  <2>2. [w EXCEPT !.slot = x, !.scan = c] = [v EXCEPT !.scan = c]
    BY <2>1
  <2> QED
    BY <1>1, <2>1, <2>2, TurnedOnce
<1>4. ASSUME NEW x, NEW c PROVE Turned(w, [w EXCEPT !.pos = x, !.scan = c])
  <2>1. PICK v : v = [w EXCEPT !.pos = x]
    OBVIOUS
  <2>2. [w EXCEPT !.pos = x, !.scan = c] = [v EXCEPT !.scan = c]
    BY <2>1
  <2> QED
    BY <1>1, <2>1, <2>2, TurnedOnce
<1> QED
  BY <1>2, <1>3, <1>4

\* The steps of a scan between two callbacks leave the numbers alone.
LEMMA TurnIs ==
  ASSUME NEW w, IsWheel(w), w.start \in Nat
  PROVE  Turned(w, Turn(w)) /\ \A r : Turned(w, TurnUpper(w, r))
<1>1. PICK c : Turn(w) = [w EXCEPT !.scan = c]
  BY ZenonT(120) DEF Turn
<1>2. Turned(w, [w EXCEPT !.scan = c])
  BY TurnedOnce
<1>3. ASSUME NEW r PROVE Turned(w, TurnUpper(w, r))
  <2>1. PICK d : TurnUpper(w, r) = [w EXCEPT !.scan = d]
    BY DEF TurnUpper
  <2>2. Turned(w, [w EXCEPT !.scan = d])
    BY TurnedOnce
  <2> QED
    BY <2>1, <2>2
<1> QED
  BY <1>1, <1>2, <1>3

\* A ring has turned (the loop of revolver).
LEMMA AfterTurnIs ==
  ASSUME NEW w, IsWheel(w), w.start \in Nat, NEW t \in Nat
  PROVE  Turned(w, AfterTurn(w, t))
<1> DEFINE up   == w.scan.ring + 1
           lap  == w.scan.wrap /\ up = Rings
<1>1. PICK v : v = IF lap THEN [w EXCEPT !.start = t] ELSE w
  OBVIOUS
<1>2. Turned(w, v) /\ IsWheel(v) /\ v.start \in Nat
  <2>1. CASE lap
    BY <1>1, <2>1, TurnedOnce, TurnedPairs DEF Turned, SameNumbers
  <2>2. CASE ~lap
    BY <1>1, <2>2 DEF Turned, SameNumbers
  <2> QED
    BY <2>1, <2>2
<1>3. AfterTurn(w, t) = IF w.scan.wrap /\ ~lap THEN TurnUpper(w, up)
                        ELSE IF v.scan.left > 0 THEN Turn(v)
                        ELSE [v EXCEPT !.prev = w.scan.at, !.scan = NoScan]
  BY <1>1 DEF AfterTurn
<1>4. Turned(w, TurnUpper(w, up)) /\ Turned(v, Turn(v))
  BY <1>2, TurnIs
<1>5. Turned(v, [v EXCEPT !.prev = w.scan.at, !.scan = NoScan])
  BY <1>2, TurnedOnce, TurnedPairs
<1>6. Turned(w, Turn(v)) /\ Turned(w, [v EXCEPT !.prev = w.scan.at, !.scan = NoScan])
  BY <1>2, <1>4, <1>5, TurnedTwice
<1> HIDE DEF up, lap
<1> QED
  BY <1>3, <1>4, <1>6

\* A slot is done.
LEMMA SlotDoneIs ==
  ASSUME NEW w, IsWheel(w), w.start \in Nat, NEW t \in Nat
  PROVE  Turned(w, SlotDone(w, t))
<1> DEFINE r == w.scan.ring
           cleared == [w EXCEPT !.slot[r][w.pos[r]] = {}, !.scan.last = 0]
           moved == [cleared EXCEPT !.pos[r] = (@ + 1) % RingSize, !.scan.half = "new"]
           ticked == [cleared EXCEPT !.scan.todo = @ - 1, !.scan.half = "old"]
<1>1. SlotDone(w, t) = IF w.scan.half = "old" THEN moved
                       ELSE IF ticked.scan.todo > 0 THEN ticked ELSE AfterTurn(ticked, t)
  BY DEF SlotDone
<1>2. Turned(w, cleared) /\ IsWheel(cleared) /\ cleared.start \in Nat
  <2>1. PICK g, c : cleared = [w EXCEPT !.slot = g, !.scan = c]
    OBVIOUS
  <2> HIDE DEF cleared
  <2>2. Turned(w, [w EXCEPT !.slot = g, !.scan = c])
    BY TurnedPairs
  <2> QED
    BY <2>1, <2>2 DEF Turned, SameNumbers
<1> HIDE DEF cleared
<1>3. PICK g, c, d : moved = [cleared EXCEPT !.pos = g, !.scan = c] /\ ticked = [cleared EXCEPT !.scan = d]
  OBVIOUS
<1> HIDE DEF moved, ticked
<1>4. Turned(cleared, moved) /\ Turned(cleared, ticked)
  <2>1. Turned(cleared, [cleared EXCEPT !.pos = g, !.scan = c]) /\ Turned(cleared, [cleared EXCEPT !.scan = d])
    BY <1>2, TurnedOnce, TurnedPairs
  <2> QED
    BY <1>3, <2>1
<1>5. Turned(w, moved) /\ Turned(w, ticked) /\ IsWheel(ticked) /\ ticked.start \in Nat
  BY <1>2, <1>4, TurnedTwice DEF Turned, SameNumbers
<1>6. Turned(w, AfterTurn(ticked, t))
  BY <1>5, AfterTurnIs, TurnedTwice
<1> QED
  BY <1>1, <1>5, <1>6

\* One silent step.
LEMMA AdvanceIs ==
  ASSUME NEW w, IsWheel(w), w.start \in Nat, NEW t \in Nat
  PROVE  Turned(w, Advance(w, t))
<1>1. Turned(w, w)
  BY DEF Turned, SameNumbers
<1>2. Turned(w, SlotDone(w, t))
  BY SlotDoneIs
<1>3. ASSUME NEW id, NEW v, v = w \/ v = Insert(w, id)
      PROVE  Turned(w, [v EXCEPT !.scan.last = id])
  <2>1. Turned(w, v)
    BY <1>1, <1>3, InsertIs DEF Turned
  <2>2. IsWheel(v) /\ v.start \in Nat
    BY <2>1 DEF Turned, SameNumbers
  <2>3. \E c : [v EXCEPT !.scan.last = id] = [v EXCEPT !.scan = c]
    OBVIOUS
  <2>4. Turned(v, [v EXCEPT !.scan.last = id])
    BY <2>2, <2>3, TurnedOnce, TurnedPairs
  <2> QED
    BY <2>1, <2>4, TurnedTwice
<1>4. Turned(w, Silent(w, t))
  <2>1. PICK id : id = Min(Ahead(w))
    OBVIOUS
  <2>2. PICK v : v = IF Live(w, id) THEN Insert(w, id) ELSE w
    OBVIOUS
  <2>3. Silent(w, t) = IF Ahead(w) = {} THEN SlotDone(w, t) ELSE [v EXCEPT !.scan.last = id]
    BY <2>1, <2>2 DEF Silent
  <2>4. v = w \/ v = Insert(w, id)
    BY <2>2
  <2> QED
    BY <1>2, <1>3, <2>3, <2>4
<1> QED
  BY <1>1, <1>4 DEF Advance

\* A step of Settle.
SettleStep(f, k, t) == CHOOSE v \in {Advance(u, t) : u \in {f[k - 1]}} : TRUE

\* Settle is the end of a walk of such steps.
LEMMA SettleWalk ==
  ASSUME NEW w, NEW t
  PROVE  \E f : /\ f[0] = w
                /\ \A k \in 1..ScanSteps : f[k] = SettleStep(f, k, t)
                /\ Settle(w, t) = f[ScanSteps]
<1> DEFINE Upto(n, h) == h = [k \in 0..n |-> IF k = 0 THEN w ELSE SettleStep(h, k, t)]
           Bad == {n \in 0..ScanSteps : ~ \E h : Upto(n, h)}
<1>0. ScanSteps \in Nat
  BY WheelAssumption
<1>1. Settle(w, t) = (CHOOSE h : Upto(ScanSteps, h))[ScanSteps]
  BY DEF Settle, SettleStep
<1>2. Bad = {}
  <2>1. SUFFICES ASSUME Bad # {} PROVE FALSE
    OBVIOUS
  <2>2. Bad \in SUBSET Nat
    BY <1>0
  <2>3. PICK n \in Bad : \A j \in Bad : n <= j
    BY <2>1, <2>2, LeastOf
  <2>4. n \in 0..ScanSteps /\ ~ \E h : Upto(n, h)
    BY <2>3
  <2>5. CASE n = 0
    <3> DEFINE h == [k \in 0..0 |-> w]
    <3>1. Upto(0, h)
      OBVIOUS
    <3> QED
      BY <2>4, <2>5, <3>1
  <2>6. CASE n # 0
    <3>1. n - 1 \in 0..ScanSteps /\ ~(n <= n - 1)
      BY <1>0, <2>4, <2>6
    <3>2. PICK h : Upto(n - 1, h)
      <4> HIDE DEF Upto
      <4> QED
        BY <2>3, <3>1
    <3> DEFINE e == [k \in 0..n |-> IF k = n THEN SettleStep(h, n, t) ELSE h[k]]
    <3>3. \A k \in 0..n - 1 : h[k] = IF k = 0 THEN w ELSE SettleStep(h, k, t)
      BY <3>2, Zenon
    <3>4. \A k \in 0..n - 1 : e[k] = h[k]
      BY <1>0, <2>4, <2>6
    <3>5. e[n] = SettleStep(h, n, t)
      BY <1>0, <2>4
    <3>6. DOMAIN e = 0..n /\ e = [k \in 0..n |-> e[k]]
      OBVIOUS
    <3> HIDE DEF e
    <3>7. \A k \in 1..n : SettleStep(e, k, t) = SettleStep(h, k, t)
      <4> TAKE k \in 1..n
      <4>1. k - 1 \in 0..n - 1
        BY <1>0, <2>4
      <4>2. e[k - 1] = h[k - 1]
        BY <3>4, <4>1
      <4> QED
        BY <4>2 DEF SettleStep
    <3>8. \A k \in 0..n : e[k] = IF k = 0 THEN w ELSE SettleStep(e, k, t)
      <4> TAKE k \in 0..n
      <4>1. CASE k = n
        BY <1>0, <2>4, <2>6, <3>5, <3>7, <4>1
      <4>2. CASE k # n
        <5>1. k \in 0..n - 1 /\ (k # 0 => k \in 1..n)
          BY <1>0, <2>4, <4>2
        <5> QED
          BY <3>3, <3>4, <3>7, <5>1
      <4> QED
        BY <4>1, <4>2
    <3>9. Upto(n, e)
      BY <3>6, <3>8, Zenon
    <3> QED
      BY <2>4, <3>9
  <2> QED
    BY <2>5, <2>6
<1>3. \E h : Upto(ScanSteps, h)
  <2>1. ScanSteps \in 0..ScanSteps
    BY <1>0
  <2> QED
    BY <1>2, <2>1
<1>4. PICK f : f = CHOOSE h : Upto(ScanSteps, h)
  OBVIOUS
<1>5. Upto(ScanSteps, f)
  BY <1>3, <1>4
<1>6. f[0] = w
  <2>1. 0 \in 0..ScanSteps
    BY <1>0
  <2> QED
    BY <1>5, <2>1, Zenon
<1>7. \A k \in 1..ScanSteps : f[k] = SettleStep(f, k, t)
  <2> TAKE k \in 1..ScanSteps
  <2>1. k \in 0..ScanSteps /\ k # 0
    BY <1>0
  <2> QED
    BY <1>5, <2>1, Zenon
<1>8. Settle(w, t) = f[ScanSteps]
  BY <1>1, <1>4
<1> QED
  BY <1>6, <1>7, <1>8

\* All of them, up to the next callback.
LEMMA SettleIs ==
  ASSUME NEW w, IsWheel(w), w.start \in Nat, NEW t \in Nat
  PROVE  Turned(w, Settle(w, t))
<1>1. PICK f : /\ f[0] = w
               /\ \A k \in 1..ScanSteps : f[k] = SettleStep(f, k, t)
               /\ Settle(w, t) = f[ScanSteps]
  BY SettleWalk
<1>2. ScanSteps \in Nat
  BY WheelAssumption
<1> DEFINE Bad == {n \in 0..ScanSteps : ~Turned(w, f[n])}
<1>3. Bad = {}
  <2>1. SUFFICES ASSUME Bad # {} PROVE FALSE
    OBVIOUS
  <2>2. Bad \in SUBSET Nat
    BY <1>2
  <2>3. PICK n \in Bad : \A j \in Bad : n <= j
    BY <2>1, <2>2, LeastOf
  <2>4. n \in 0..ScanSteps /\ ~Turned(w, f[n])
    BY <2>3
  <2>5. n # 0
    BY <1>1, <2>4 DEF Turned, SameNumbers
  <2>6. n - 1 \in 0..ScanSteps /\ ~(n <= n - 1) /\ n \in 1..ScanSteps
    BY <1>2, <2>4, <2>5
  <2>7. PICK v : v = f[n - 1]
    OBVIOUS
  <2>8. Turned(w, v)
    BY <2>3, <2>6, <2>7
  <2>9. f[n] = Advance(v, t)
    <3>1. f[n] = SettleStep(f, n, t)
      BY <1>1, <2>6
    <3>2. \A x : (CHOOSE y \in {x} : TRUE) = x
      OBVIOUS
    <3>3. {Advance(u, t) : u \in {v}} = {Advance(v, t)}
      OBVIOUS
    <3> QED
      BY <2>7, <3>1, <3>2, <3>3 DEF SettleStep
  <2>10. Turned(v, Advance(v, t))
    BY <2>8, AdvanceIs DEF Turned, SameNumbers
  <2> QED
    BY <2>4, <2>8, <2>9, <2>10, TurnedTwice
<1>4. ScanSteps \in 0..ScanSteps
  BY <1>2
<1> QED
  BY <1>1, <1>3, <1>4

\* The end of a callback frees the number of its timer.
LEMMA FiredIs ==
  ASSUME NEW w, WheelOK(w), NEW id \in LiveIds(w), NEW t \in Nat
  PROVE  Drops(w, Fired(w, id, t), {id})
<1>1. PICK v : v = Freed(w, id)
  OBVIOUS
<1>2. Drops(w, v, {id}) /\ WheelOK(v)
  BY <1>1, FreedIs DEF Drops
<1>3. PICK u : u = [v EXCEPT !.scan.last = id]
  OBVIOUS
<1>4. Turned(v, u)
  <2>1. PICK c : u = [v EXCEPT !.scan = c]
    BY <1>3
  <2>2. Turned(v, [v EXCEPT !.scan = c])
    BY <1>2, TurnedOnce DEF WheelOK
  <2> QED
    BY <2>1, <2>2
<1>5. Turned(u, Settle(u, t))
  BY <1>4, SettleIs DEF Turned, SameNumbers
<1>6. Turned(v, Settle(u, t)) /\ Fired(w, id, t) = Settle(u, t)
  BY <1>1, <1>3, <1>4, <1>5, TurnedTwice DEF Fired
<1>7. Drops(v, Fired(w, id, t), {})
  BY <1>2, <1>6, RingsAside DEF Turned
<1>8. Drops(w, Fired(w, id, t), {id} \cup {})
  BY <1>2, <1>7, DropsTwice
<1> QED
  BY <1>8

\* expire
LEMMA ExpireIs ==
  ASSUME NEW w, WheelOK(w), NEW t \in Nat
  PROVE  Drops(w, Expire(w, t), {})
<1>1. CASE t > w.prev
  <2>1. PICK v : v = [w EXCEPT !.scan = [NoScan EXCEPT !.on = TRUE, !.at = t, !.left = t - w.prev]]
    OBVIOUS
  <2>2. Turned(w, v)
    BY <2>1, TurnedOnce, TurnedPairs DEF WheelOK
  <2>3. Turned(v, Turn(v))
    BY <2>2, TurnIs DEF Turned, SameNumbers
  <2>4. Turned(Turn(v), Settle(Turn(v), t))
    BY <2>3, SettleIs DEF Turned, SameNumbers
  <2>5. Expire(w, t) = Settle(Turn(v), t)
    BY <1>1, <2>1 DEF Expire
  <2>6. Turned(w, Expire(w, t))
    BY <2>2, <2>3, <2>4, <2>5, TurnedTwice
  <2> QED
    BY <2>6, RingsAside DEF Turned
<1>2. CASE ~(t > w.prev)
  <2>1. Expire(w, t) = w
    BY <1>2 DEF Expire
  <2> QED
    BY <2>1 DEF Drops
<1> QED
  BY <1>1, <1>2

\* init
LEMMA IdleWheelOK ==
  ASSUME NEW w, w = IdleWheel(Uptime)
  PROVE  WheelOK(w) /\ LiveIds(w) = {}
<1>1. PICK n \in Nat : n = HeapSize - 1
  BY WheelAssumption
<1>2. PICK hs : hs = [i \in 1..n |-> NoNode]
  OBVIOUS
<1>3. PICK fs : fs = [i \in 1..n |-> i]
  OBVIOUS
<1>4. PICK po : po = [r \in RingIds |-> Digit(Uptime, r)]
  OBVIOUS
<1>5. PICK sl : sl = [r \in RingIds |-> [c \in Cells |-> {}]]
  OBVIOUS
<1>6. w = [pos |-> po, slot |-> sl, heap |-> hs, free |-> fs, start |-> 0, prev |-> Uptime, scan |-> NoScan]
  <2>1. PICK ps : ps = [r \in RingIds |-> 0]
    OBVIOUS
  <2>2. NewWheel = [pos |-> ps, slot |-> sl, heap |-> hs, free |-> fs, start |-> 0, prev |-> 0, scan |-> NoScan]
    BY <1>1, <1>2, <1>3, <1>5, <2>1 DEF NewWheel
  <2> QED
    BY <1>4, <2>2 DEF IdleWheel
<1>7. w.heap = hs /\ w.free = fs /\ w.start = 0
  BY <1>6
<1>8. IsWheel(w)
  BY <1>6 DEF IsWheel
<1>9. NoNode \in Entry /\ NoNode.stamp = 0
  BY DEF NoNode, Entry
<1>10. hs \in Seq(Entry) /\ DOMAIN hs = 1..n /\ \A i \in 1..n : hs[i] = NoNode
  BY <1>2, <1>9
<1>11. fs \in Seq(Nat) /\ DOMAIN fs = 1..n /\ \A i \in 1..n : fs[i] = i
  BY <1>3
<1>12. LiveIds(w) = {}
  BY <1>7, <1>9, <1>10 DEF LiveIds
<1>13. ToSet(fs) = 1..n
  BY <1>11 DEF ToSet
<1>14. IsInjective(fs)
  BY <1>11 DEF IsInjective
<1>15. NumbersPartitioned(w)
  BY <1>7, <1>10, <1>12, <1>13, <1>14 DEF NumbersPartitioned
<1> QED
  BY <1>7, <1>8, <1>10, <1>11, <1>12, <1>15 DEF WheelOK

\* The least number of a set.
LEMMA MinIs ==
  ASSUME NEW S \in SUBSET Nat, S # {}
  PROVE  Min(S) \in S /\ \A y \in S : Min(S) <= y
<1>1. PICK m \in S : \A y \in S : m <= y
  BY LeastOf
<1> QED BY <1>1 DEF Min

\* h is the ring a stamp belongs on while the rings stand at pos.
At(pos, stamp, h) ==
  /\ h \in RingIds
  /\ h # 0 => Digit(stamp, h) # pos[h]
  /\ \A r \in RingIds : r > h => Digit(stamp, r) = pos[r]

\* The ring insert_node settles on is that ring, and there is no other.
LEMMA RingIs ==
  ASSUME NEW w, NEW stamp
  PROVE  /\ At(w.pos, stamp, RingOf(w, stamp))
         /\ \A h : At(w.pos, stamp, h) => h = RingOf(w, stamp)
<1> DEFINE S == {0} \cup {r \in RingIds : r # 0 /\ Digit(stamp, r) # w.pos[r]}
           m == Rings - 1
           U == {m - r : r \in S}
<1>1. 0 \in RingIds /\ m \in Nat
  BY SizeIs DEF RingIds
<1>2. S \subseteq RingIds /\ \A r \in S : r \in Nat /\ r <= m
  BY <1>1, SizeIs DEF RingIds
<1>3. U \in SUBSET Nat /\ U # {}
  <2>1. \A r \in S : m - r \in Nat
    BY <1>1, <1>2
  <2> QED BY <2>1
<1>4. PICK n \in U : \A y \in U : n <= y
  BY <1>3, LeastOf
<1>5. PICK x \in S : n = m - x
  BY <1>4
<1>6. \A y \in S : x >= y
  <2> TAKE y \in S
  <2>1. m - x <= m - y
    BY <1>4, <1>5
  <2> QED BY <2>1, <1>1, <1>2
<1>7. Max(S) \in S /\ \A y \in S : Max(S) >= y
  BY <1>5, <1>6 DEF Max
<1>8. RingOf(w, stamp) = Max(S)
  BY DEF RingOf
<1> HIDE DEF U, m
<1>9. At(w.pos, stamp, Max(S))
  <2>1. Max(S) \in RingIds /\ (Max(S) # 0 => Digit(stamp, Max(S)) # w.pos[Max(S)])
    BY <1>7, <1>2
  <2>2. ASSUME NEW r \in RingIds, r > Max(S), Digit(stamp, r) # w.pos[r]
        PROVE  FALSE
    <3>1. r # 0
      BY <2>1, <2>2 DEF RingIds
    <3>2. r \in S
      BY <3>1, <2>2
    <3>3. Max(S) \in Nat /\ r \in Nat
      BY <2>1 DEF RingIds
    <3> HIDE DEF S
    <3> QED BY <3>2, <3>3, <1>7, <2>2
  <2> QED BY <2>1, <2>2 DEF At
<1>10. ASSUME NEW h, At(w.pos, stamp, h)
       PROVE  h = Max(S)
  <2>1. h \in RingIds /\ h \in Nat /\ h \in S
    BY <1>10 DEF At, RingIds
  <2>2. Max(S) \in Nat /\ Max(S) >= h
    BY <2>1, <1>7, <1>2
  <2>3. Max(S) = 0 \/ (Max(S) \in RingIds /\ Digit(stamp, Max(S)) # w.pos[Max(S)])
    BY <1>7
  <2> HIDE DEF S
  <2>4. ~(Max(S) > h)
    BY <2>3, <2>2, <2>1, <1>10 DEF At
  <2> QED BY <2>1, <2>2, <2>4
<1> QED BY <1>8, <1>9, <1>10
-----------------------------------------------------------------------------
(* Where the timers stand                                                  *)

Scans == [on : BOOLEAN, at : Nat, left : Nat, ring : RingIds, todo : Nat, wrap : BOOLEAN,
          half : {"old", "new"}, last : Nat]

StampOf(w, i) == w.heap[i].stamp

\* The types of what the scan reads and writes.
RingsOK(w) ==
  /\ w.pos \in [RingIds -> Cells]
  /\ w.slot \in [RingIds -> [Cells -> SUBSET Nat]]
  /\ w.prev \in Nat /\ w.start \in Nat
  /\ w.scan \in Scans
  /\ LiveIds(w) \in SUBSET (Nat \ {0})
  /\ \A i \in LiveIds(w) : StampOf(w, i) \in 1..Lap - 1

\* The rings below Moved have already turned in the tick under way.
Moved(w)   == IF ~w.scan.on THEN 0 ELSE IF w.scan.half = "old" THEN w.scan.ring ELSE w.scan.ring + 1
Stepped(d) == IF d = RingSize - 1 THEN 0 ELSE d + 1

\* The rings read P, in ticks since the start, and a ring turns when those
\* below it come round.
Reads(w, P) ==
  /\ P \in 0..Lap - 1
  /\ \A r \in RingIds : w.pos[r] = IF r < Moved(w) THEN Stepped(Digit(P, r)) ELSE Digit(P, r)
  /\ w.scan.on => \A r \in RingIds : r < w.scan.ring => Digit(P, r) = RingSize - 1

\* The slot under the scan, and the numbers the scan has passed there.
Under(w, r, c) == w.scan.on /\ r = w.scan.ring /\ c = w.pos[r]
Passed(w, i)   == w.scan.on /\ i <= w.scan.last

Home(w, i, r, c) == r = RingOf(w, StampOf(w, i)) /\ c = Digit(StampOf(w, i), r)

\* A slot of a ring that has just turned is about to be dealt out.
Awaits(w, i) == w.scan.on /\ w.scan.ring # 0 /\ w.scan.half = "new" /\ i \in Ahead(w)

Waits(w, i) ==
  /\ \A r \in RingIds, c \in Cells : i \in w.slot[r][c] => Under(w, r, c)
  /\ \A r \in RingIds : r >= w.scan.ring => Digit(StampOf(w, i), r) = w.pos[r]

\* No ring but the last holds a timer behind its position.
NotBehind(w, i) ==
  \A h \in RingIds : h = RingOf(w, StampOf(w, i)) /\ h # Rings - 1 => Digit(StampOf(w, i), h) >= w.pos[h]

Stands(w, i) ==
  /\ \A r \in RingIds, c \in Cells :
       IF Under(w, r, c) /\ Passed(w, i) THEN ~Home(w, i, r, c) ELSE i \in w.slot[r][c] <=> Home(w, i, r, c)
  /\ NotBehind(w, i)

\* Below this ring there are no timers: these rings have come round.
SweptTo(w) ==
  IF ~w.scan.on THEN 0
  ELSE IF w.scan.half = "old" THEN w.scan.ring
  ELSE IF w.pos[w.scan.ring] = 0 /\ w.scan.ring < Rings - 1 THEN w.scan.ring + 1 ELSE 0

\* A timer for this very tick is still to be visited.
NotMissed(w, i, P) ==
  StampOf(w, i) = P => Digit(P, 0) = 0 /\ (w.scan.on => w.scan.ring = 0 /\ w.scan.half = "old")

Placed(w, P) ==
  /\ \A i \in LiveIds(w) :
       /\ IF Awaits(w, i) THEN Waits(w, i) ELSE Stands(w, i)
       /\ RingOf(w, StampOf(w, i)) >= SweptTo(w)
       /\ NotMissed(w, i, P)
  /\ \A r \in RingIds, c \in Cells : \A i \in w.slot[r][c] : i \in LiveIds(w) \/ (Under(w, r, c) /\ Passed(w, i))

\* Between two ticks every timer is at home.
AtRest(w, P) ==
  /\ P \in 0..Lap - 1 /\ \A r \in RingIds : w.pos[r] = Digit(P, r)
  /\ \A i \in LiveIds(w) :
       /\ \A r \in RingIds, c \in Cells : i \in w.slot[r][c] <=> Home(w, i, r, c)
       /\ NotBehind(w, i)
       /\ StampOf(w, i) = P => Digit(P, 0) = 0
  /\ \A r \in RingIds, c \in Cells : w.slot[r][c] \subseteq LiveIds(w)

\* Two queues with the same timers in rings at the same positions.
SameTimers(w, v) == v.heap = w.heap /\ v.pos = w.pos

\* Where a timer belongs depends on nothing else.
LEMMA SameHomes ==
  ASSUME NEW w, NEW v, SameTimers(w, v)
  PROVE  /\ LiveIds(v) = LiveIds(w)
         /\ \A i : StampOf(v, i) = StampOf(w, i)
         /\ \A s : RingOf(v, s) = RingOf(w, s)
         /\ \A i, r, c : Home(v, i, r, c) <=> Home(w, i, r, c)
         /\ \A i : NotBehind(v, i) <=> NotBehind(w, i)
  BY Zenon DEF SameTimers, LiveIds, StampOf, RingOf, Home, NotBehind

\* A ring is one of the rings, a digit one of its slots.
LEMMA HomeIs ==
  ASSUME NEW w, NEW i, StampOf(w, i) \in Nat
  PROVE  /\ RingOf(w, StampOf(w, i)) \in RingIds
         /\ \A r \in RingIds : Digit(StampOf(w, i), r) \in Cells
  BY RingIs, QuotNext DEF At

\* A scan that is about to start, or none.
Fresh(w) == w.scan.on => w.scan.ring = 0 /\ w.scan.half = "old" /\ w.scan.last = 0

\* A queue at rest is one that a scan can start from.
LEMMA RestIsPlaced ==
  ASSUME NEW w, RingsOK(w), NEW P, AtRest(w, P), Fresh(w)
  PROVE  Reads(w, P) /\ Placed(w, P)
<1>1. w.scan.ring \in Nat /\ (w.scan.on => ~(w.scan.half = "new")) /\ Moved(w) = 0 /\ SweptTo(w) = 0
  BY DEF Fresh, Moved, SweptTo, RingsOK, Scans, RingIds
<1>2. RingIds \subseteq Nat /\ \A i \in LiveIds(w) : i \in Nat \ {0}
  BY DEF RingIds, RingsOK
<1>3. Reads(w, P)
  <2>1. \A r \in RingIds : ~(r < 0)
    BY <1>2
  <2>2. \A r \in RingIds : w.scan.on => ~(r < w.scan.ring)
    BY <2>1 DEF Fresh
  <2> QED BY <2>1, <2>2, <1>1 DEF Reads, AtRest
<1>4. ASSUME NEW i \in LiveIds(w)
      PROVE  /\ ~Awaits(w, i) /\ Stands(w, i)
             /\ RingOf(w, StampOf(w, i)) >= SweptTo(w) /\ NotMissed(w, i, P)
  <2>1. ~Awaits(w, i)
    BY <1>1 DEF Awaits
  <2>2. ~Passed(w, i)
    BY <1>2 DEF Passed, Fresh
  <2>3. Stands(w, i)
    BY <2>2 DEF Stands, AtRest
  <2>4. PICK h : h = RingOf(w, StampOf(w, i))
    OBVIOUS
  <2>5. At(w.pos, StampOf(w, i), h)
    BY <2>4, RingIs, Zenon
  <2>7. h \in Nat
    BY <2>5, <1>2 DEF At
  <2>8. h >= SweptTo(w)
    BY <2>7, <1>1
  <2>6. NotMissed(w, i, P)
    BY DEF NotMissed, AtRest, Fresh
  <2> QED BY <2>1, <2>3, <2>4, <2>8, <2>6
<1>5. Placed(w, P)
  BY <1>4 DEF Placed, AtRest
<1> QED BY <1>3, <1>5

\* A stamp belongs on a ring.
LEMMA RingRange ==
  ASSUME NEW w, NEW stamp
  PROVE  RingOf(w, stamp) \in RingIds /\ RingOf(w, stamp) \in Nat
<1>1. At(w.pos, stamp, RingOf(w, stamp))
  BY RingIs
<1> QED BY <1>1 DEF At, RingIds

-----------------------------------------------------------------------------
(* The rings turn                                                          *)

\* One slot of the rings takes another set of numbers.
Put(slot, r, c, S) == [slot EXCEPT ![r][c] = S]

\* What the slots are then.
LEMMA PutIs ==
  ASSUME NEW slot \in [RingIds -> [Cells -> SUBSET Nat]], NEW r \in RingIds, NEW c \in Cells, NEW S \in SUBSET Nat
  PROVE  /\ Put(slot, r, c, S) \in [RingIds -> [Cells -> SUBSET Nat]]
         /\ \A q \in RingIds, d \in Cells :
              Put(slot, r, c, S)[q][d] = IF q = r /\ d = c THEN S ELSE slot[q][d]
<1>1. slot[r] \in [Cells -> SUBSET Nat]
  OBVIOUS
<1>2. Put(slot, r, c, S) = [slot EXCEPT ![r] = [slot[r] EXCEPT ![c] = S]]
  BY DEF Put
<1>3. [slot[r] EXCEPT ![c] = S] \in [Cells -> SUBSET Nat]
  BY <1>1
<1>4. Put(slot, r, c, S) \in [RingIds -> [Cells -> SUBSET Nat]]
  BY <1>2, <1>3
<1>5. ASSUME NEW q \in RingIds, NEW d \in Cells
      PROVE  Put(slot, r, c, S)[q][d] = IF q = r /\ d = c THEN S ELSE slot[q][d]
  <2>1. CASE q = r
    <3>1. Put(slot, r, c, S)[q] = [slot[r] EXCEPT ![c] = S]
      BY <2>1, <1>2
    <3> QED BY <3>1, <1>1, <2>1
  <2>2. CASE q # r
    BY <2>2, <1>2
  <2> QED BY <2>1, <2>2
<1> QED BY <1>4, <1>5

\* The numbers of the slot under the scan.
LEMMA AheadIs ==
  ASSUME NEW w, NEW i
  PROVE  i \in Ahead(w) <=> i \in w.slot[w.scan.ring][w.pos[w.scan.ring]] /\ i > w.scan.last
  BY DEF Ahead

\* The place under the scan.
LEMMA ScanIs ==
  ASSUME NEW w, RingsOK(w), NEW g, g = w.scan.ring
  PROVE  g \in RingIds /\ g \in Nat /\ w.pos[g] \in Cells /\ w.pos[g] \in Nat /\ w.scan.last \in Nat
         /\ w.scan.half \in {"old", "new"} /\ w.scan.on \in BOOLEAN /\ w.scan.wrap \in BOOLEAN
         /\ w.scan.todo \in Nat /\ w.scan.left \in Nat /\ w.scan.at \in Nat
<1>1. w.scan \in Scans
  BY DEF RingsOK
<1>2. g \in RingIds
  BY <1>1 DEF Scans
<1>3. w.pos[g] \in Cells
  BY <1>2 DEF RingsOK
<1> QED BY <1>1, <1>2, <1>3 DEF Scans, RingIds, Cells

\* When all numbers of the slot were visited, no timer belongs there.
LEMMA SlotIsDone ==
  ASSUME NEW w, RingsOK(w), NEW P, Placed(w, P), w.scan.on, Ahead(w) = {}, NEW i \in LiveIds(w),
         NEW g, g = w.scan.ring
  PROVE  ~Awaits(w, i) /\ Stands(w, i) /\ ~Home(w, i, g, w.pos[g])
<1>1. ~Awaits(w, i)
  BY DEF Awaits
<1>2. Stands(w, i)
  BY <1>1 DEF Placed
<1>3. g \in RingIds /\ w.pos[g] \in Cells /\ Under(w, g, w.pos[g]) /\ i \in Nat /\ w.scan.last \in Nat
  BY ScanIs DEF Under, RingsOK
<1>6. PICK c : c = w.pos[g]
  OBVIOUS
<1>7. IF Under(w, g, c) /\ Passed(w, i) THEN ~Home(w, i, g, c) ELSE i \in w.slot[g][c] <=> Home(w, i, g, c)
  BY <1>2, <1>3, <1>6, Zenon DEF Stands
<1>4. CASE Passed(w, i)
  BY <1>1, <1>2, <1>3, <1>4, <1>6, <1>7
<1>5. CASE ~Passed(w, i)
  <2>1. i > w.scan.last
    BY <1>3, <1>5 DEF Passed
  <2>2. i \notin w.slot[g][w.pos[g]]
    BY <2>1, AheadIs
  <2> QED BY <2>2, <1>1, <1>2, <1>6, <1>7, <1>5
<1> QED BY <1>4, <1>5

\* ... so to empty it puts no timer out of its place.
LEMMA EmptiedIs ==
  ASSUME NEW w, RingsOK(w), NEW P, Placed(w, P), w.scan.on, Ahead(w) = {}, NEW g, g = w.scan.ring,
         NEW slot, slot = Put(w.slot, g, w.pos[g], {})
  PROVE  /\ slot \in [RingIds -> [Cells -> SUBSET Nat]]
         /\ \A i \in LiveIds(w) : \A r \in RingIds, c \in Cells : i \in slot[r][c] <=> Home(w, i, r, c)
         /\ \A r \in RingIds, c \in Cells : slot[r][c] \subseteq LiveIds(w)
         /\ slot[g][w.pos[g]] = {}
<1>1. g \in RingIds /\ w.pos[g] \in Cells
  BY ScanIs
<1>2. w.slot \in [RingIds -> [Cells -> SUBSET Nat]] /\ {} \in SUBSET Nat
  BY DEF RingsOK
<1>3. /\ slot \in [RingIds -> [Cells -> SUBSET Nat]]
      /\ \A q \in RingIds, d \in Cells : slot[q][d] = IF q = g /\ d = w.pos[g] THEN {} ELSE w.slot[q][d]
  BY <1>1, <1>2, PutIs, SMTT(90)
<1>4. ASSUME NEW i \in LiveIds(w), NEW r \in RingIds, NEW c \in Cells
      PROVE  i \in slot[r][c] <=> Home(w, i, r, c)
  <2>1. Stands(w, i) /\ ~Home(w, i, g, w.pos[g])
    BY SlotIsDone
  <2>2. CASE r = g /\ c = w.pos[g]
    BY <2>1, <2>2, <1>3
  <2>3. CASE ~(r = g /\ c = w.pos[g])
    BY <2>1, <2>3, <1>3 DEF Stands, Under
  <2> QED BY <2>2, <2>3
<1>5. ASSUME NEW r \in RingIds, NEW c \in Cells, NEW i \in slot[r][c]
      PROVE  i \in LiveIds(w)
  <2>1. ~(r = g /\ c = w.pos[g]) /\ i \in w.slot[r][c]
    BY <1>3
  <2> QED BY <2>1 DEF Placed, Under
<1> QED BY <1>1, <1>3, <1>4, <1>5

\* How many ticks from the reading P to a stamp.
TicksTo(P, s) == IF s >= P THEN s - P ELSE s + Lap - P

\* The reading after one more tick.
NextReading(P, g) == IF Digit(P, g) = RingSize - 1 THEN 0 ELSE P + 1

\* The rings below the one that turned have come round.
LEMMA TurnedDigits ==
  ASSUME NEW w, RingsOK(w), NEW P, Reads(w, P), w.scan.on, w.scan.half = "new", NEW g, g = w.scan.ring
  PROVE  /\ P \in 0..Lap - 1 /\ P \in Nat /\ \A r \in RingIds : Digit(P, r) \in Cells /\ Digit(P, r) \in Nat
         /\ \A r \in RingIds : r < g => Digit(P, r) = RingSize - 1 /\ w.pos[r] = 0
         /\ w.pos[g] = Stepped(Digit(P, g))
         /\ \A r \in RingIds : r > g => w.pos[r] = Digit(P, r)
<1>1. g \in RingIds /\ g \in Nat
  BY ScanIs
<1>2. Moved(w) = g + 1
  BY DEF Moved
<1>3. P \in 0..Lap - 1 /\ P \in Nat
  BY DEF Reads
<1>4. \A r \in RingIds : Digit(P, r) \in Cells /\ Digit(P, r) \in Nat
  BY <1>3, QuotNext DEF Cells
<1>5. ASSUME NEW r \in RingIds
      PROVE  /\ r < g => Digit(P, r) = RingSize - 1 /\ w.pos[r] = 0
             /\ r = g => w.pos[r] = Stepped(Digit(P, r))
             /\ r > g => w.pos[r] = Digit(P, r)
  <2>1. w.pos[r] = IF r < g + 1 THEN Stepped(Digit(P, r)) ELSE Digit(P, r)
    BY <1>2 DEF Reads
  <2>2. r \in Nat /\ (r < g => Digit(P, r) = RingSize - 1)
    BY DEF Reads, RingIds
  <2>3. Stepped(RingSize - 1) = 0
    BY DEF Stepped
  <2> QED BY <1>1, <2>1, <2>2, <2>3
<1> QED BY <1>1, <1>3, <1>4, <1>5

\* A tick ends when the last ring that turns in it has turned.
LEMMA TickEnds ==
  ASSUME NEW w, RingsOK(w), NEW P, Reads(w, P), Placed(w, P), w.scan.on, w.scan.half = "new", Ahead(w) = {},
         NEW g, g = w.scan.ring, Digit(P, g) # RingSize - 1 \/ g = Rings - 1,
         NEW Q, Q = NextReading(P, g),
         NEW v, SameTimers(w, v), v.slot = Put(w.slot, g, w.pos[g], {})
  PROVE  /\ AtRest(v, Q)
         /\ \A i \in LiveIds(w) : TicksTo(P, StampOf(w, i)) = TicksTo(Q, StampOf(w, i)) + 1
<1>1. g \in RingIds /\ g \in Nat /\ w.pos[g] \in Cells
  BY ScanIs
<1>2. /\ P \in 0..Lap - 1 /\ P \in Nat /\ \A r \in RingIds : Digit(P, r) \in Cells /\ Digit(P, r) \in Nat
      /\ \A r \in RingIds : r < g => Digit(P, r) = RingSize - 1 /\ w.pos[r] = 0
      /\ w.pos[g] = Stepped(Digit(P, g))
      /\ \A r \in RingIds : r > g => w.pos[r] = Digit(P, r)
  BY TurnedDigits
<1>3. Lap \in Nat \ {0} /\ RingSize \in Nat /\ Rings \in Nat /\ RingSize >= 2 /\ Rings >= 2 /\ \A r \in RingIds : r \in Nat /\ r < Rings
  BY LapIs, SizeIs DEF RingIds
<1>4. /\ Q \in 0..Lap - 1 /\ \A r \in RingIds : w.pos[r] = Digit(Q, r)
      /\ Q = P + 1 \/ (Q = 0 /\ P = Lap - 1)
      /\ g # 0 => Digit(Q, 0) = 0
  <2>1. CASE Digit(P, g) # RingSize - 1
    <3>1. Q = P + 1
      BY <2>1 DEF NextReading
    <3>2. /\ P + 1 \in 0..Lap - 1
          /\ \A r \in RingIds : r < g => Digit(P + 1, r) = 0
          /\ Digit(P + 1, g) = Digit(P, g) + 1
          /\ \A r \in RingIds : r > g => Digit(P + 1, r) = Digit(P, r)
      BY <1>1, <1>2, <2>1, CarryStops
    <3>3. w.pos[g] = Digit(P, g) + 1
      BY <1>2, <2>1 DEF Stepped
    <3>4. \A r \in RingIds : w.pos[r] = Digit(Q, r)
      BY <1>1, <1>2, <1>3, <3>1, <3>2, <3>3
    <3>5. 0 \in RingIds
      BY <1>3 DEF RingIds
    <3>6. g # 0 => Digit(Q, 0) = 0
      BY <1>1, <3>1, <3>2, <3>5
    <3> QED BY <3>1, <3>2, <3>4, <3>6
  <2>2. CASE Digit(P, g) = RingSize - 1
    <3>1. g = Rings - 1 /\ Q = 0
      BY <2>2 DEF NextReading
    <3>2. \A r \in RingIds : r = g \/ r < g
      BY <3>1, <1>3
    <3>3. \A r \in RingIds : Digit(P, r) = RingSize - 1
      BY <3>2, <1>2, <2>2
    <3>4. P + 1 = Lap
      BY <3>3, <1>2, LapEnds
    <3>5. \A r \in RingIds : Digit(Q, r) = 0
      BY <3>1, ZeroDigits
    <3>6. w.pos[g] = 0
      BY <1>2, <2>2 DEF Stepped
    <3>7. 0 \in RingIds
      BY <1>3 DEF RingIds
    <3> QED BY <3>1, <3>2, <3>4, <3>5, <3>6, <3>7, <1>2, <1>3
  <2> QED BY <2>1, <2>2
<1>5. /\ \A i \in LiveIds(w) : \A r \in RingIds, c \in Cells : i \in v.slot[r][c] <=> Home(w, i, r, c)
      /\ \A r \in RingIds, c \in Cells : v.slot[r][c] \subseteq LiveIds(w)
  BY EmptiedIs
<1>6. /\ LiveIds(v) = LiveIds(w)
      /\ \A i : StampOf(v, i) = StampOf(w, i)
      /\ \A i, r, c : Home(v, i, r, c) <=> Home(w, i, r, c)
      /\ \A i : NotBehind(v, i) <=> NotBehind(w, i)
      /\ v.pos = w.pos
  BY SameHomes DEF SameTimers
<1>7. ASSUME NEW i \in LiveIds(w)
      PROVE  /\ NotBehind(w, i) /\ StampOf(w, i) # P /\ StampOf(w, i) \in 1..Lap - 1
             /\ StampOf(w, i) = Q => Digit(Q, 0) = 0
  <2>1. Stands(w, i) /\ ~Home(w, i, g, w.pos[g]) /\ NotMissed(w, i, P)
    BY SlotIsDone DEF Placed
  <2>2. StampOf(w, i) # P
    BY <2>1 DEF NotMissed
  <2>3. StampOf(w, i) \in 1..Lap - 1
    BY DEF RingsOK
  <2>4. ASSUME StampOf(w, i) = Q, g = 0
        PROVE  FALSE
    <3>1. 0 \in RingIds /\ \A r \in RingIds : Digit(StampOf(w, i), r) = w.pos[r]
      BY <1>1, <1>4, <2>4
    <3>2. At(w.pos, StampOf(w, i), 0)
      BY <3>1 DEF At
    <3>3. RingOf(w, StampOf(w, i)) = 0
      BY <3>2, RingIs
    <3> QED BY <3>1, <3>3, <2>1, <2>4 DEF Home
  <2> QED BY <1>4, <2>1, <2>2, <2>3, <2>4 DEF Stands
<1>8. AtRest(v, Q)
  BY <1>4, <1>5, <1>6, <1>7 DEF AtRest
<1>9. ASSUME NEW i \in LiveIds(w)
      PROVE  TicksTo(P, StampOf(w, i)) = TicksTo(Q, StampOf(w, i)) + 1
  BY <1>2, <1>3, <1>4, <1>7 DEF TicksTo
<1> QED BY <1>8, <1>9

\* A ring that comes round turns the next one.
LEMMA RingComesRound ==
  ASSUME NEW w, RingsOK(w), NEW P, Reads(w, P), Placed(w, P), w.scan.on, w.scan.half = "new", Ahead(w) = {},
         NEW g, g = w.scan.ring, Digit(P, g) = RingSize - 1, g # Rings - 1,
         NEW v, RingsOK(v), SameTimers(w, v), v.slot = Put(w.slot, g, w.pos[g], {}),
         v.scan.on, v.scan.ring = g + 1, v.scan.half = "old", v.scan.last = 0
  PROVE  Reads(v, P) /\ Placed(v, P)
<1>1. g \in RingIds /\ g \in Nat /\ w.pos[g] \in Cells
  BY ScanIs
<1>2. /\ P \in 0..Lap - 1
      /\ \A r \in RingIds : r < g => Digit(P, r) = RingSize - 1 /\ w.pos[r] = 0
      /\ w.pos[g] = Stepped(Digit(P, g))
  BY TurnedDigits
<1>3. RingSize \in Nat /\ Rings \in Nat /\ \A r \in RingIds : r \in Nat /\ r < Rings
  BY SizeIs DEF RingIds
<1>4. w.pos[g] = 0 /\ g < Rings - 1
  BY <1>1, <1>2, <1>3 DEF Stepped
<1>5. SweptTo(w) = g + 1 /\ SweptTo(v) = g + 1 /\ Moved(w) = g + 1 /\ Moved(v) = g + 1
  BY <1>4, <1>1 DEF SweptTo, Moved
<1>6. /\ LiveIds(v) = LiveIds(w)
      /\ \A i : StampOf(v, i) = StampOf(w, i)
      /\ \A s : RingOf(v, s) = RingOf(w, s)
      /\ \A i, r, c : Home(v, i, r, c) <=> Home(w, i, r, c)
      /\ \A i : NotBehind(v, i) <=> NotBehind(w, i)
      /\ v.pos = w.pos
  BY SameHomes DEF SameTimers
<1>7. Reads(v, P)
  <2>1. \A r \in RingIds : r < g + 1 => Digit(P, r) = RingSize - 1
    BY <1>1, <1>2, <1>3
  <2> QED BY <2>1, <1>5, <1>6 DEF Reads
<1>8. /\ \A i \in LiveIds(w) : \A r \in RingIds, c \in Cells : i \in v.slot[r][c] <=> Home(w, i, r, c)
      /\ \A r \in RingIds, c \in Cells : v.slot[r][c] \subseteq LiveIds(w)
  BY EmptiedIs
<1>9. ASSUME NEW i \in LiveIds(v)
      PROVE  /\ ~Awaits(v, i) /\ Stands(v, i)
             /\ RingOf(v, StampOf(v, i)) >= SweptTo(v) /\ NotMissed(v, i, P)
  <2>1. i \in LiveIds(w) /\ i \in Nat \ {0}
    BY <1>6 DEF RingsOK
  <2>2. Stands(w, i) /\ RingOf(w, StampOf(w, i)) >= SweptTo(w) /\ NotMissed(w, i, P)
    BY <2>1, SlotIsDone DEF Placed
  <2>3. ~Awaits(v, i)
    BY DEF Awaits
  <2>4. ~Passed(v, i)
    BY <2>1 DEF Passed
  <2>5. Stands(v, i)
    BY <2>1, <2>2, <2>4, <1>6, <1>8 DEF Stands
  <2>6. NotMissed(v, i, P)
    BY <2>2, <1>6 DEF NotMissed
  <2> QED BY <2>2, <2>3, <2>5, <2>6, <1>5, <1>6
<1>10. Placed(v, P)
  BY <1>6, <1>8, <1>9 DEF Placed
<1> QED BY <1>7, <1>10

\* A position after one step.
LEMMA SteppedIs ==
  ASSUME NEW d \in Cells
  PROVE  /\ Stepped(d) = (d + 1) % RingSize /\ Stepped(d) \in Cells /\ Stepped(d) # d
         /\ d # RingSize - 1 => Stepped(d) = d + 1
<1>1. RingSize \in Nat /\ RingSize >= 2 /\ d \in Nat /\ d < RingSize
  BY SizeIs DEF Cells
<1>2. CASE d = RingSize - 1
  <2>1. d + 1 = RingSize * 1 + 0
    BY <1>1, <1>2
  <2>2. 0 = (d + 1) % RingSize
    BY <2>1, <1>1, DivUnique
  <2> QED BY <2>2, <1>1, <1>2 DEF Stepped, Cells
<1>3. CASE d # RingSize - 1
  <2>1. d + 1 = RingSize * 0 + (d + 1) /\ d + 1 < RingSize
    BY <1>1, <1>3
  <2>2. d + 1 = (d + 1) % RingSize
    BY <2>1, <1>1, DivUnique
  <2> QED BY <2>2, <1>1, <1>3 DEF Stepped, Cells
<1> QED BY <1>2, <1>3

\* A ring moves on by one slot, and the timers of the slot it comes to belong
\* on lower rings now.
LEMMA RingTurns ==
  ASSUME NEW w, RingsOK(w), NEW P, Reads(w, P), Placed(w, P), w.scan.on, w.scan.half = "old", Ahead(w) = {},
         NEW g, g = w.scan.ring, NEW d, d = w.pos[g],
         NEW v, RingsOK(v), v.heap = w.heap, v.slot = Put(w.slot, g, d, {}),
         v.pos = [w.pos EXCEPT ![g] = Stepped(d)],
         v.scan.on, v.scan.ring = g, v.scan.half = "new", v.scan.last = 0
  PROVE  Reads(v, P) /\ Placed(v, P)
<1>1. g \in RingIds /\ g \in Nat /\ d \in Cells /\ d \in Nat
  BY ScanIs
<1>2. RingSize \in Nat /\ RingSize >= 2 /\ Rings \in Nat /\ Rings >= 2 /\ \A r \in RingIds : r \in Nat /\ r < Rings
  BY SizeIs DEF RingIds
<1>3. Stepped(d) \in Cells /\ Stepped(d) # d /\ (d # RingSize - 1 => Stepped(d) = d + 1) /\ Stepped(d) \in Nat
      /\ (d = RingSize - 1 => Stepped(d) = 0) /\ d < RingSize
  BY <1>1, <1>2, SteppedIs DEF Cells, Stepped
<1>4. v.pos[g] = Stepped(d) /\ \A r \in RingIds : r # g => v.pos[r] = w.pos[r]
  BY <1>1 DEF RingsOK
<1>5. Moved(w) = g /\ Moved(v) = g + 1
  BY DEF Moved
<1>6. Reads(v, P)
  <2>1. ASSUME NEW r \in RingIds
        PROVE  v.pos[r] = IF r < g + 1 THEN Stepped(Digit(P, r)) ELSE Digit(P, r)
    <3>1. w.pos[r] = IF r < g THEN Stepped(Digit(P, r)) ELSE Digit(P, r)
      BY <1>5 DEF Reads
    <3>2. CASE r = g
      BY <3>1, <3>2, <1>1, <1>4
    <3>3. CASE r # g
      BY <3>1, <3>3, <1>1, <1>2, <1>4
    <3> QED BY <3>2, <3>3
  <2> QED BY <2>1, <1>5 DEF Reads
<1>7. /\ \A i \in LiveIds(w) : \A r \in RingIds, c \in Cells : i \in v.slot[r][c] <=> Home(w, i, r, c)
      /\ \A r \in RingIds, c \in Cells : v.slot[r][c] \subseteq LiveIds(w)
  BY EmptiedIs
<1>8. LiveIds(v) = LiveIds(w) /\ \A i : StampOf(v, i) = StampOf(w, i)
  BY DEF LiveIds, StampOf
<1>9. SweptTo(w) = g
  BY DEF SweptTo
<1>10. ASSUME NEW i \in LiveIds(v)
       PROVE  /\ IF Awaits(v, i) THEN Waits(v, i) ELSE Stands(v, i)
              /\ RingOf(v, StampOf(v, i)) >= SweptTo(v)
              /\ NotMissed(v, i, P)
  <2>1. PICK s : s = StampOf(w, i) /\ s = StampOf(v, i)
    BY <1>8
  <2>2. i \in LiveIds(w) /\ i \in Nat \ {0} /\ s \in 1..Lap - 1 /\ s \in Nat
    BY <2>1, <1>8, LapIs DEF RingsOK
  <2>3. Stands(w, i) /\ ~Home(w, i, g, d) /\ RingOf(w, s) >= g /\ NotMissed(w, i, P)
    BY <2>1, <2>2, <1>9, SlotIsDone DEF Placed
  <2>4. PICK h : h = RingOf(w, s)
    OBVIOUS
  <2>5. /\ At(w.pos, s, h)
        /\ \A k : At(w.pos, s, k) => k = RingOf(w, s)
        /\ \A k : At(v.pos, s, k) => k = RingOf(v, s)
    BY <2>4, RingIs
  <2>6. h \in RingIds /\ h \in Nat /\ h >= g /\ \A r \in RingIds : Digit(s, r) \in Cells /\ Digit(s, r) \in Nat /\ Digit(s, r) < RingSize
    BY <2>2, <2>3, <2>4, <2>5, <1>2, QuotNext DEF At, Cells
  <2>7. \A r, c : Home(w, i, r, c) <=> r = h /\ c = Digit(s, r)
    BY <2>1, <2>4 DEF Home
  <2>8. \A r \in RingIds, c \in Cells : i \in v.slot[r][c] <=> r = h /\ c = Digit(s, r)
    BY <2>2, <2>7, <1>7
  <2>9. i \in Ahead(v) <=> g = h /\ Stepped(d) = Digit(s, g)
    <3>1. i \in Ahead(v) <=> i \in v.slot[g][v.pos[g]] /\ i > 0
      BY DEF Ahead
    <3> QED BY <3>1, <2>2, <2>8, <1>1, <1>3, <1>4
  <2>10. ~Passed(v, i)
    BY <2>2 DEF Passed
  <2>11. h # Rings - 1 => Digit(s, h) >= w.pos[h]
    BY <2>1, <2>3, <2>4, <2>6 DEF Stands, NotBehind
  <2>12. g = h => Digit(s, g) # d
    BY <2>3, <2>7
  <2>13. NotMissed(v, i, P)
    <3>1. ASSUME s = P
          PROVE  FALSE
      <4>1. g = 0
        BY <3>1, <2>1, <2>3 DEF NotMissed
      <4>2. \A r \in RingIds : w.pos[r] = Digit(P, r)
        BY <4>1, <1>2, <1>5 DEF Reads
      <4>3. At(w.pos, s, 0)
        BY <4>1, <4>2, <3>1, <1>1 DEF At
      <4>4. h = 0
        BY <4>3, <2>4, <2>5
      <4> QED BY <4>1, <4>2, <4>4, <3>1, <2>12, <1>1
    <3> QED BY <3>1, <2>1 DEF NotMissed
  <2>14. CASE g = h /\ Stepped(d) = Digit(s, g) /\ g # 0
    <3>1. Awaits(v, i)
      BY <2>14, <2>9 DEF Awaits
    <3>2. Waits(v, i)
      <4>1. \A r \in RingIds, c \in Cells : i \in v.slot[r][c] => Under(v, r, c)
        BY <2>8, <2>14, <1>4 DEF Under
      <4>2. \A r \in RingIds : r > g => Digit(s, r) = v.pos[r]
        BY <2>5, <2>14, <1>1, <1>2, <1>4 DEF At
      <4>3. \A r \in RingIds : r >= g => r = g \/ r > g
        BY <1>1, <1>2
      <4>4. \A r \in RingIds : r >= g => Digit(s, r) = v.pos[r]
        BY <4>2, <4>3, <2>14, <1>4
      <4> QED BY <4>1, <4>4, <2>1 DEF Waits
    <3>3. SweptTo(v) = 0
      <4>1. g < Rings - 1 => Stepped(d) # 0
        BY <2>11, <2>12, <2>14, <2>6, <1>1, <1>2, <1>3
      <4> QED BY <4>1, <1>4 DEF SweptTo
    <3>4. RingOf(v, s) >= 0
      BY RingRange
    <3> QED BY <3>1, <3>2, <3>3, <3>4, <2>1, <2>13
  <2>15. CASE ~(g = h /\ Stepped(d) = Digit(s, g) /\ g # 0)
    <3>1. ~Awaits(v, i)
      BY <2>15, <2>9 DEF Awaits
    <3>2. At(v.pos, s, h)
      <4>1. \A r \in RingIds : r > h => Digit(s, r) = v.pos[r]
        BY <2>5, <2>6, <1>1, <1>2, <1>4 DEF At
      <4>2. h # 0 => Digit(s, h) # v.pos[h]
        BY <2>5, <2>6, <2>15, <1>1, <1>4 DEF At
      <4> QED BY <4>1, <4>2, <2>6 DEF At
    <3>3. RingOf(v, s) = h
      BY <3>2, <2>5
    <3>4. \A r, c : Home(v, i, r, c) <=> r = h /\ c = Digit(s, r)
      BY <3>3, <2>1 DEF Home
    <3>5. NotBehind(v, i)
      <4>1. h # Rings - 1 => Digit(s, h) >= v.pos[h]
        <5>1. CASE h # g
          BY <5>1, <2>6, <2>11, <1>4
        <5>2. CASE h = g
          BY <5>2, <2>6, <2>11, <2>12, <1>1, <1>3, <1>4
        <5> QED BY <5>1, <5>2
      <4> QED BY <4>1, <3>3, <2>1 DEF NotBehind
    <3>6. Stands(v, i)
      BY <3>4, <3>5, <2>8, <2>10 DEF Stands
    <3>7. h >= SweptTo(v)
      <4>1. CASE h = g
        <5>1. g < Rings - 1 => Stepped(d) # 0
          BY <4>1, <2>11, <2>12, <2>6, <1>1, <1>2, <1>3
        <5> QED BY <4>1, <5>1, <2>6, <1>1, <1>4 DEF SweptTo
      <4>2. CASE h # g
        <5>1. h >= g + 1
          BY <4>2, <2>6, <1>1
        <5> QED BY <5>1, <2>6, <1>1 DEF SweptTo
      <4> QED BY <4>1, <4>2
    <3> QED BY <3>1, <3>3, <3>6, <3>7, <2>1, <2>13
  <2> QED BY <2>14, <2>15
<1>11. Placed(v, P)
  BY <1>7, <1>8, <1>10 DEF Placed
<1> QED BY <1>6, <1>11

\* The scan visits the next number of a slot: it is the least ahead, and a timer.
LEMMA NextAhead ==
  ASSUME NEW w, RingsOK(w), NEW P, Placed(w, P), w.scan.on, Ahead(w) # {}, NEW g, g = w.scan.ring,
         NEW d, d = w.pos[g], NEW id, id = Min(Ahead(w))
  PROVE  /\ id \in LiveIds(w) /\ id \in w.slot[g][d] /\ id > w.scan.last /\ id \in Nat /\ ~Passed(w, id)
         /\ \A i \in Ahead(w) : id <= i
         /\ \A i \in LiveIds(w) : i \notin Ahead(w) => ~Awaits(w, i) /\ Stands(w, i) /\ ~Home(w, i, g, d)
<1>1. g \in RingIds /\ g \in Nat /\ d \in Cells /\ w.scan.last \in Nat
  BY ScanIs
<1>2. w.slot[g][d] \in SUBSET Nat
  BY <1>1 DEF RingsOK
<1>3. Ahead(w) \in SUBSET Nat
  BY <1>2 DEF Ahead
<1>4. id \in Ahead(w) /\ \A i \in Ahead(w) : id <= i
  BY <1>3, MinIs
<1>5. id \in w.slot[g][d] /\ id > w.scan.last
  BY <1>4 DEF Ahead
<1>6. id \in Nat /\ ~Passed(w, id)
  BY <1>1, <1>2, <1>5 DEF Passed
<1>7. id \in LiveIds(w)
  BY <1>1, <1>5, <1>6 DEF Placed
<1>8. ASSUME NEW i \in LiveIds(w), i \notin Ahead(w)
      PROVE  ~Awaits(w, i) /\ Stands(w, i) /\ ~Home(w, i, g, d)
  <2>1. ~Awaits(w, i)
    BY <1>8 DEF Awaits
  <2>2. Stands(w, i)
    BY <2>1 DEF Placed
  <2>3. Under(w, g, d) /\ i \in Nat
    BY DEF Under, RingsOK
  <2>4. i \in w.slot[g][d] => Passed(w, i)
    <3>1. i \in w.slot[g][d] => ~(i > w.scan.last)
      BY <1>8 DEF Ahead
    <3> QED BY <3>1, <2>3, <1>1 DEF Passed
  <2>5. IF Under(w, g, d) /\ Passed(w, i) THEN ~Home(w, i, g, d) ELSE i \in w.slot[g][d] <=> Home(w, i, g, d)
    BY <2>2, <1>1, Zenon DEF Stands
  <2> QED BY <2>1, <2>2, <2>3, <2>4, <2>5
<1> QED BY <1>4, <1>5, <1>6, <1>7, <1>8

\* A timer of a higher ring is dealt out to the ring it belongs on now.
LEMMA TimerIsDealt ==
  ASSUME NEW w, RingsOK(w), NEW P, Reads(w, P), Placed(w, P), w.scan.on, Ahead(w) # {},
         NEW g, g = w.scan.ring, g # 0, NEW id, id = Min(Ahead(w)),
         NEW h, h = RingOf(w, StampOf(w, id)), NEW e, e = Digit(StampOf(w, id), h),
         NEW v, RingsOK(v), SameTimers(w, v), v.slot = Put(w.slot, h, e, w.slot[h][e] \cup {id}),
         v.scan.on, v.scan.ring = g, v.scan.half = w.scan.half, v.scan.last = id
  PROVE  Reads(v, P) /\ Placed(v, P)
<1> DEFINE d == w.pos[g]
<1>1. g \in RingIds /\ g \in Nat /\ d \in Cells /\ w.scan.last \in Nat /\ w.scan.half \in {"old", "new"}
  BY ScanIs
<1>2. /\ id \in LiveIds(w) /\ id \in w.slot[g][d] /\ id > w.scan.last /\ id \in Nat /\ ~Passed(w, id)
      /\ \A i \in Ahead(w) : id <= i
      /\ \A i \in LiveIds(w) : i \notin Ahead(w) => ~Awaits(w, i) /\ Stands(w, i) /\ ~Home(w, i, g, d)
  BY NextAhead
<1>3. RingSize \in Nat /\ RingSize >= 2 /\ Rings \in Nat /\ Rings >= 2 /\ \A r \in RingIds : r \in Nat /\ r < Rings
  BY SizeIs DEF RingIds
<1>4. StampOf(w, id) \in Nat
  BY <1>2, LapIs DEF RingsOK
<1>5. At(w.pos, StampOf(w, id), h) /\ h \in RingIds /\ h \in Nat /\ e \in Cells /\ e \in Nat
  BY <1>4, RingIs, HomeIs, RingRange DEF Cells
<1>6. id \in Ahead(w)
  BY <1>2 DEF Ahead
<1>7. w.scan.half = "new"
  <2>1. ASSUME w.scan.half = "old"
        PROVE  FALSE
    <3>1. ~Awaits(w, id)
      BY <2>1 DEF Awaits
    <3>2. Stands(w, id)
      BY <3>1, <1>2 DEF Placed
    <3>3. IF Under(w, g, d) /\ Passed(w, id) THEN ~Home(w, id, g, d) ELSE id \in w.slot[g][d] <=> Home(w, id, g, d)
      BY <3>2, <1>1, Zenon DEF Stands
    <3>4. Home(w, id, g, d)
      BY <3>3, <1>2
    <3>5. g = h /\ d = Digit(StampOf(w, id), g)
      BY <3>4 DEF Home
    <3> QED BY <3>5, <1>5 DEF At
  <2> QED BY <2>1, <1>1
<1>8. Awaits(w, id)
  BY <1>6, <1>7 DEF Awaits
<1>9. Waits(w, id) /\ RingOf(w, StampOf(w, id)) >= SweptTo(w) /\ NotMissed(w, id, P)
  BY <1>2, <1>8 DEF Placed
<1>10. h < g
  <2>1. ASSUME h >= g
        PROVE  FALSE
    <3>1. Digit(StampOf(w, id), h) = w.pos[h]
      BY <2>1, <1>5, <1>9 DEF Waits
    <3>2. h # 0
      BY <2>1, <1>1, <1>5
    <3> QED BY <3>1, <3>2, <1>5 DEF At
  <2> QED BY <2>1, <1>1, <1>5
<1>11. w.pos[h] = 0
  BY <1>5, <1>7, <1>10, TurnedDigits
<1>12. w.slot \in [RingIds -> [Cells -> SUBSET Nat]] /\ w.slot[h][e] \cup {id} \in SUBSET Nat
  BY <1>2, <1>5 DEF RingsOK
<1>13. /\ \A q \in RingIds, c \in Cells : ~(q = h /\ c = e) => v.slot[q][c] = w.slot[q][c]
       /\ v.slot[h][e] = w.slot[h][e] \cup {id}
  <2>1. PICK S \in SUBSET Nat : S = w.slot[h][e] \cup {id}
    BY <1>12
  <2>2. v.slot = Put(w.slot, h, e, S)
    BY <2>1
  <2>3. \A q \in RingIds, c \in Cells : v.slot[q][c] = IF q = h /\ c = e THEN S ELSE w.slot[q][c]
    BY <2>2, <1>5, <1>12, PutIs
  <2>4. ASSUME NEW q \in RingIds, NEW c \in Cells, ~(q = h /\ c = e)
        PROVE  v.slot[q][c] = w.slot[q][c]
    <3>1. v.slot[q][c] = IF q = h /\ c = e THEN S ELSE w.slot[q][c]
      BY <2>3, ZenonT(90)
    <3> QED BY <2>4, <3>1
  <2>5. v.slot[h][e] = S
    <3>1. v.slot[h][e] = IF h = h /\ e = e THEN S ELSE w.slot[h][e]
      BY <2>3, <1>5, ZenonT(90)
    <3> QED BY <3>1
  <2> QED BY <2>1, <2>4, <2>5, ZenonT(40)
<1>14. v.slot[g][d] = w.slot[g][d]
  <2>1. g # h
    BY <1>1, <1>5, <1>10
  <2>2. PICK k : k = d
    OBVIOUS
  <2>3. v.slot[g][k] = w.slot[g][k]
    BY <2>1, <2>2, <1>1, <1>13
  <2> QED BY <2>2, <2>3
<1>16. /\ v.scan.on /\ v.scan.ring = g /\ v.scan.half = "new" /\ v.scan.last = id
       /\ v.pos = w.pos /\ v.heap = w.heap
  BY <1>7 DEF SameTimers
<1>17. /\ LiveIds(v) = LiveIds(w)
       /\ \A i : StampOf(v, i) = StampOf(w, i)
       /\ \A s : RingOf(v, s) = RingOf(w, s)
       /\ \A i, r, c : Home(v, i, r, c) <=> Home(w, i, r, c)
       /\ \A i : NotBehind(v, i) <=> NotBehind(w, i)
  BY SameHomes
<1>18. \A r, c : Under(v, r, c) <=> Under(w, r, c)
  BY <1>16 DEF Under
<1>19. SweptTo(v) = SweptTo(w) /\ Moved(v) = Moved(w)
  BY <1>7, <1>16 DEF SweptTo, Moved
<1>20. Reads(v, P)
  BY <1>16, <1>19 DEF Reads
<1>21. \A i : i \in Ahead(v) <=> i \in w.slot[g][d] /\ i > id
  BY <1>14, <1>16 DEF Ahead
<1>22. \A i \in LiveIds(w) : Passed(v, i) <=> i <= id
  BY <1>16 DEF Passed
<1>23. \A i \in LiveIds(w) : i \in Nat
  BY DEF RingsOK
<1> HIDE DEF d
<1>24. ASSUME NEW i \in LiveIds(v), i = id
       PROVE  ~Awaits(v, i) /\ Stands(v, i)
  <2>1. ~Awaits(v, i)
    BY <1>2, <1>21, <1>24 DEF Awaits
  <2>2. \A r, c : Home(w, id, r, c) <=> r = h /\ c = e
    BY DEF Home
  <2>3. ASSUME NEW r \in RingIds, NEW c \in Cells
        PROVE  IF Under(v, r, c) /\ Passed(v, id) THEN ~Home(v, id, r, c) ELSE id \in v.slot[r][c] <=> Home(v, id, r, c)
    <3>1. CASE Under(v, r, c)
      <4>1. r = g /\ Passed(v, id)
        BY <3>1, <1>2, <1>16, <1>22 DEF Under
      <4> QED BY <3>1, <4>1, <2>2, <1>1, <1>5, <1>10, <1>17
    <3>2. CASE ~Under(v, r, c)
      <4>1. id \notin w.slot[r][c]
        BY <3>2, <1>9, <1>18 DEF Waits
      <4>2. CASE r = h /\ c = e
        <5>1. id \in v.slot[r][c]
          BY <4>2, <1>13
        <5> QED BY <3>2, <5>1, <4>2, <2>2, <1>17
      <4>3. CASE ~(r = h /\ c = e)
        <5>1. v.slot[r][c] = w.slot[r][c]
          BY <4>3, <1>13
        <5> QED BY <3>2, <5>1, <4>1, <4>3, <2>2, <1>17
      <4> QED BY <4>2, <4>3
    <3> QED BY <3>1, <3>2
  <2>4. NotBehind(w, id)
    BY <1>5, <1>11 DEF NotBehind
  <2> QED BY <2>1, <2>3, <2>4, <1>17, <1>24 DEF Stands
<1>25. ASSUME NEW i \in LiveIds(v), i # id
       PROVE  IF Awaits(v, i) THEN Waits(v, i) ELSE Stands(v, i)
  <2>1. i \in LiveIds(w) /\ i \in Nat
    BY <1>17, <1>23
  <2>2. ASSUME NEW r \in RingIds, NEW c \in Cells
        PROVE  i \in v.slot[r][c] <=> i \in w.slot[r][c]
    <3>1. CASE r = h /\ c = e
      <4>1. v.slot[r][c] = w.slot[r][c] \cup {id}
        BY <3>1, <1>13
      <4> QED BY <4>1, <1>25
    <3>2. CASE ~(r = h /\ c = e)
      <4>1. v.slot[r][c] = w.slot[r][c]
        BY <3>2, <1>13
      <4> QED BY <4>1
    <3> QED BY <3>1, <3>2
  <2>3. CASE i \in Ahead(w)
    <3>1. i > id /\ i \in w.slot[g][d]
      <4>1. id <= i
        BY <2>3, <1>2
      <4>2. i \in w.slot[g][d]
        BY <2>3 DEF Ahead, d
      <4> QED BY <4>1, <4>2, <2>1, <1>2, <1>25
    <3>2. Awaits(v, i) /\ Awaits(w, i)
      BY <2>3, <3>1, <1>7, <1>16, <1>21 DEF Awaits
    <3>3. Waits(w, i)
      BY <2>1, <3>2 DEF Placed
    <3>4. Waits(v, i)
      <4>1. \A r \in RingIds, c \in Cells : i \in v.slot[r][c] => Under(v, r, c)
        BY <3>3, <2>2, <1>18 DEF Waits
      <4>2. \A r \in RingIds : r >= v.scan.ring => Digit(StampOf(v, i), r) = v.pos[r]
        BY <3>3, <1>16, <1>17 DEF Waits
      <4> QED BY <4>1, <4>2, Zenon DEF Waits
    <3> QED BY <3>2, <3>4
  <2>4. CASE i \notin Ahead(w)
    <3>1. ~Awaits(w, i) /\ Stands(w, i) /\ ~Home(w, i, g, d)
      BY <2>1, <2>4, <1>2
    <3>2. i \notin Ahead(v)
      <4>1. i \in w.slot[g][d] => ~(i > w.scan.last)
        BY <2>4 DEF Ahead, d
      <4> QED BY <4>1, <2>1, <1>1, <1>2, <1>21
    <3>3. Passed(w, i) => Passed(v, i)
      BY <2>1, <1>1, <1>2, <1>22 DEF Passed
    <3>4. ASSUME NEW r \in RingIds, NEW c \in Cells
          PROVE  IF Under(v, r, c) /\ Passed(v, i) THEN ~Home(v, i, r, c) ELSE i \in v.slot[r][c] <=> Home(v, i, r, c)
      <4>1. IF Under(w, r, c) /\ Passed(w, i) THEN ~Home(w, i, r, c) ELSE i \in w.slot[r][c] <=> Home(w, i, r, c)
        BY <3>1, Zenon DEF Stands
      <4>2. Under(w, r, c) => ~Home(w, i, r, c)
        BY <3>1 DEF Under, d
      <4> QED BY <4>1, <4>2, <3>3, <2>2, <1>17, <1>18
    <3>5. Stands(v, i)
      BY <3>1, <3>4, <1>17 DEF Stands
    <3> QED BY <3>2, <3>5 DEF Awaits
  <2> QED BY <2>3, <2>4
<1>26. ASSUME NEW i \in LiveIds(v)
       PROVE  RingOf(v, StampOf(v, i)) >= SweptTo(v) /\ NotMissed(v, i, P)
  <2>1. i \in LiveIds(w)
    BY <1>17
  <2>2. RingOf(w, StampOf(w, i)) >= SweptTo(w) /\ NotMissed(w, i, P)
    BY <2>1 DEF Placed
  <2> QED BY <2>2, <1>16, <1>17, <1>19, <1>7 DEF NotMissed
<1>27. ASSUME NEW r \in RingIds, NEW c \in Cells, NEW i \in v.slot[r][c]
       PROVE  i \in LiveIds(v) \/ (Under(v, r, c) /\ Passed(v, i))
  <2>1. CASE i \in w.slot[r][c]
    <3>1. i \in Nat
      BY <2>1 DEF RingsOK
    <3>2. i \in LiveIds(w) \/ (Under(w, r, c) /\ Passed(w, i))
      BY <2>1 DEF Placed
    <3>3. Passed(w, i) => Passed(v, i)
      BY <3>1, <1>1, <1>2, <1>16 DEF Passed
    <3> QED BY <3>2, <3>3, <1>17, <1>18
  <2>2. CASE i \notin w.slot[r][c]
    <3>1. i = id
      <4>1. r = h /\ c = e
        BY <2>2, <1>13
      <4>2. i \in w.slot[r][c] \cup {id}
        BY <4>1, <1>13
      <4> QED BY <4>2, <2>2
    <3> QED BY <3>1, <1>2, <1>17
  <2> QED BY <2>1, <2>2
<1>28. Placed(v, P)
  BY <1>24, <1>25, <1>26, <1>27 DEF Placed
<1> QED BY <1>20, <1>28

\* Where one timer belongs.
LEMMA SameHome ==
  ASSUME NEW w, NEW v, NEW i, v.pos = w.pos, StampOf(v, i) = StampOf(w, i)
  PROVE  /\ RingOf(v, StampOf(v, i)) = RingOf(w, StampOf(w, i))
         /\ \A r, c : Home(v, i, r, c) <=> Home(w, i, r, c)
         /\ NotBehind(v, i) <=> NotBehind(w, i)
<1>1. RingOf(v, StampOf(v, i)) = RingOf(w, StampOf(w, i))
  BY Zenon DEF RingOf
<1> QED BY <1>1 DEF Home, NotBehind

\* No timer waits to be dealt out while owners are called, or between scans.
LEMMA NoneAwaits ==
  ASSUME NEW w, NEW P, Placed(w, P), w.scan.on => w.scan.ring = 0
  PROVE  \A i \in LiveIds(w) : ~Awaits(w, i) /\ Stands(w, i)
  BY DEF Placed, Awaits

-----------------------------------------------------------------------------
(* Timers are set, cancelled and served                                    *)

\* v has some of the timers of w, where they were.
Fewer(w, v) ==
  /\ v.pos = w.pos
  /\ LiveIds(v) \subseteq LiveIds(w)
  /\ \A i \in LiveIds(v) : StampOf(v, i) = StampOf(w, i)
  /\ v.scan.on = w.scan.on /\ v.scan.ring = w.scan.ring /\ v.scan.half = w.scan.half

\* Those timers stand as well as before.
LEMMA FewerIs ==
  ASSUME NEW w, NEW v, Fewer(w, v), NEW P, Reads(w, P), Placed(w, P), w.scan.on => w.scan.ring = 0
  PROVE  /\ Reads(v, P) /\ SweptTo(v) = SweptTo(w)
         /\ \A r, c : Under(v, r, c) <=> Under(w, r, c)
         /\ \A i \in LiveIds(v) : /\ RingOf(v, StampOf(v, i)) = RingOf(w, StampOf(w, i))
                                  /\ \A r, c : Home(v, i, r, c) <=> Home(w, i, r, c)
                                  /\ NotBehind(v, i) <=> NotBehind(w, i)
                                  /\ i \in LiveIds(w) /\ Stands(w, i) /\ ~Awaits(v, i)
                                  /\ RingOf(v, StampOf(v, i)) >= SweptTo(v) /\ NotMissed(v, i, P)
<1>1. Moved(v) = Moved(w) /\ SweptTo(v) = SweptTo(w)
  BY DEF Moved, SweptTo, Fewer
<1>2. Reads(v, P)
  BY <1>1 DEF Reads, Fewer
<1>3. \A r, c : Under(v, r, c) <=> Under(w, r, c)
  BY DEF Under, Fewer
<1>4. ASSUME NEW i \in LiveIds(v)
      PROVE  /\ RingOf(v, StampOf(v, i)) = RingOf(w, StampOf(w, i))
             /\ \A r, c : Home(v, i, r, c) <=> Home(w, i, r, c)
             /\ NotBehind(v, i) <=> NotBehind(w, i)
             /\ i \in LiveIds(w) /\ Stands(w, i) /\ ~Awaits(v, i)
             /\ RingOf(v, StampOf(v, i)) >= SweptTo(v) /\ NotMissed(v, i, P)
  <2>1. i \in LiveIds(w) /\ StampOf(v, i) = StampOf(w, i) /\ v.pos = w.pos
    BY DEF Fewer
  <2>2. /\ RingOf(v, StampOf(v, i)) = RingOf(w, StampOf(w, i))
        /\ \A r, c : Home(v, i, r, c) <=> Home(w, i, r, c)
        /\ NotBehind(v, i) <=> NotBehind(w, i)
    BY <2>1, SameHome
  <2>3. Stands(w, i)
    BY <2>1, NoneAwaits
  <2>4. ~Awaits(v, i)
    BY DEF Awaits, Fewer
  <2>5. RingOf(w, StampOf(w, i)) >= SweptTo(w) /\ NotMissed(w, i, P)
    BY <2>1 DEF Placed
  <2>6. NotMissed(v, i, P)
    BY <2>1, <2>5 DEF NotMissed, Fewer
  <2> QED BY <2>1, <2>2, <2>3, <2>4, <2>5, <2>6, <1>1
<1> QED BY <1>1, <1>2, <1>3, <1>4

\* The owner of a timer has been called, and its number is free again.
LEMMA TimerIsServed ==
  ASSUME NEW w, RingsOK(w), NEW P, Reads(w, P), Placed(w, P), w.scan.on, Ahead(w) # {},
         w.scan.ring = 0, NEW id, id = Min(Ahead(w)),
         NEW v, Fewer(w, v), v.slot = w.slot, LiveIds(v) = LiveIds(w) \ {id}, v.scan.last = id
  PROVE  Reads(v, P) /\ Placed(v, P)
<1>1. PICK g, d : g = w.scan.ring /\ d = w.pos[g]
  OBVIOUS
<1>2. g \in RingIds /\ d \in Cells /\ w.scan.last \in Nat
  BY <1>1, ScanIs
<1>3. /\ id \in LiveIds(w) /\ id \in w.slot[g][d] /\ id > w.scan.last /\ id \in Nat /\ ~Passed(w, id)
      /\ \A i \in Ahead(w) : id <= i
      /\ \A i \in LiveIds(w) : i \notin Ahead(w) => ~Awaits(w, i) /\ Stands(w, i) /\ ~Home(w, i, g, d)
  BY <1>1, NextAhead
<1>4. /\ Reads(v, P) /\ SweptTo(v) = SweptTo(w)
      /\ \A r, c : Under(v, r, c) <=> Under(w, r, c)
      /\ \A i \in LiveIds(v) : /\ RingOf(v, StampOf(v, i)) = RingOf(w, StampOf(w, i))
                               /\ \A r, c : Home(v, i, r, c) <=> Home(w, i, r, c)
                               /\ NotBehind(v, i) <=> NotBehind(w, i)
                               /\ i \in LiveIds(w) /\ Stands(w, i) /\ ~Awaits(v, i)
                               /\ RingOf(v, StampOf(v, i)) >= SweptTo(v) /\ NotMissed(v, i, P)
  BY FewerIs
<1>5. \A i : Passed(v, i) <=> i <= id
  BY DEF Passed, Fewer
<1>6. ASSUME NEW i \in LiveIds(v)
      PROVE  Stands(v, i)
  <2>1. i \in LiveIds(w) /\ i # id /\ i \in Nat
    BY DEF RingsOK
  <2>2. Stands(w, i)
    BY <1>4
  <2>3. Passed(w, i) => Passed(v, i)
    BY <2>1, <1>2, <1>3, <1>5 DEF Passed
  <2>4. ASSUME NEW r \in RingIds, NEW c \in Cells
        PROVE  IF Under(v, r, c) /\ Passed(v, i) THEN ~Home(v, i, r, c) ELSE i \in v.slot[r][c] <=> Home(v, i, r, c)
    <3>1. IF Under(w, r, c) /\ Passed(w, i) THEN ~Home(w, i, r, c) ELSE i \in w.slot[r][c] <=> Home(w, i, r, c)
      BY <2>2, Zenon DEF Stands
    <3>2. ASSUME Under(w, r, c), Passed(v, i)
          PROVE  ~Home(w, i, r, c)
      <4>1. r = g /\ c = d
        BY <3>2, <1>1 DEF Under
      <4>2. i \notin Ahead(w)
        BY <3>2, <1>3, <1>5, <2>1
      <4> QED BY <4>1, <4>2, <2>1, <1>3
    <3> QED BY <3>1, <3>2, <2>3, <1>4
  <2> QED BY <2>4, <2>2, <1>4 DEF Stands
<1>7. ASSUME NEW r \in RingIds, NEW c \in Cells, NEW i \in v.slot[r][c]
      PROVE  i \in LiveIds(v) \/ (Under(v, r, c) /\ Passed(v, i))
  <2>1. i \in Nat
    BY DEF RingsOK
  <2>2. CASE i = id
    <3>1. Stands(w, i)
      BY <2>2, <1>3, NoneAwaits
    <3>2. Home(w, i, g, d)
      <4>1. IF Under(w, g, d) /\ Passed(w, i) THEN ~Home(w, i, g, d) ELSE i \in w.slot[g][d] <=> Home(w, i, g, d)
        BY <3>1, <1>2, Zenon DEF Stands
      <4> QED BY <4>1, <2>2, <1>3
    <3>3. Home(w, i, r, c)
      <4>1. IF Under(w, r, c) /\ Passed(w, i) THEN ~Home(w, i, r, c) ELSE i \in w.slot[r][c] <=> Home(w, i, r, c)
        BY <3>1, Zenon DEF Stands
      <4> QED BY <4>1, <2>2, <1>3
    <3>4. r = g /\ c = d
      BY <3>2, <3>3 DEF Home
    <3>5. Under(w, r, c)
      BY <3>4, <1>1 DEF Under
    <3>6. Passed(v, i)
      BY <2>1, <2>2, <1>5
    <3> QED BY <3>5, <3>6, <1>4
  <2>3. CASE i # id
    <3>1. i \in LiveIds(w) \/ (Under(w, r, c) /\ Passed(w, i))
      BY DEF Placed
    <3>2. Passed(w, i) => Passed(v, i)
      BY <2>1, <1>2, <1>3, <1>5 DEF Passed
    <3> QED BY <3>1, <3>2, <2>3, <1>4
  <2> QED BY <2>2, <2>3
<1>8. Placed(v, P)
  BY <1>4, <1>6, <1>7 DEF Placed
<1> QED BY <1>4, <1>8

\* What delete_node does to the slots.
Without(w, v, id) ==
  \A r \in RingIds, c \in Cells :
     v.slot[r][c] = IF c = Digit(StampOf(w, id), r) THEN w.slot[r][c] \ {id} ELSE w.slot[r][c]

\* cancel_timer takes a timer off the ring it stands on.
LEMMA TimerIsCancelled ==
  ASSUME NEW w, RingsOK(w), NEW P, Reads(w, P), Placed(w, P), w.scan.on => w.scan.ring = 0,
         NEW id \in LiveIds(w), NEW v, Fewer(w, v), LiveIds(v) = LiveIds(w) \ {id}, v.scan.last = w.scan.last,
         Without(w, v, id)
  PROVE  Reads(v, P) /\ Placed(v, P)
<1>1. /\ Reads(v, P) /\ SweptTo(v) = SweptTo(w)
      /\ \A r, c : Under(v, r, c) <=> Under(w, r, c)
      /\ \A i \in LiveIds(v) : /\ RingOf(v, StampOf(v, i)) = RingOf(w, StampOf(w, i))
                               /\ \A r, c : Home(v, i, r, c) <=> Home(w, i, r, c)
                               /\ NotBehind(v, i) <=> NotBehind(w, i)
                               /\ i \in LiveIds(w) /\ Stands(w, i) /\ ~Awaits(v, i)
                               /\ RingOf(v, StampOf(v, i)) >= SweptTo(v) /\ NotMissed(v, i, P)
  BY FewerIs
<1>2. \A i : Passed(v, i) <=> Passed(w, i)
  BY DEF Passed, Fewer
<1>3. ASSUME NEW i, NEW r \in RingIds, NEW c \in Cells
      PROVE  /\ i \in v.slot[r][c] => i \in w.slot[r][c]
             /\ i # id => (i \in v.slot[r][c] <=> i \in w.slot[r][c])
             /\ i = id /\ i \in v.slot[r][c] => c # Digit(StampOf(w, id), r)
  BY DEF Without
<1>4. ASSUME NEW i \in LiveIds(v)
      PROVE  Stands(v, i)
  <2>1. Stands(w, i) /\ i # id
    BY <1>1
  <2> QED BY <2>1, <1>1, <1>2, <1>3 DEF Stands
<1>5. ASSUME NEW r \in RingIds, NEW c \in Cells, NEW i \in v.slot[r][c]
      PROVE  i \in LiveIds(v) \/ (Under(v, r, c) /\ Passed(v, i))
  <2>1. CASE i = id
    <3>1. IF Under(w, r, c) /\ Passed(w, i) THEN ~Home(w, i, r, c) ELSE i \in w.slot[r][c] <=> Home(w, i, r, c)
      BY <2>1, NoneAwaits DEF Stands
    <3>2. ~Home(w, i, r, c)
      BY <2>1, <1>3 DEF Home
    <3> QED BY <3>1, <3>2, <1>1, <1>2, <1>3
  <2>2. CASE i # id
    <3>1. i \in LiveIds(w) \/ (Under(w, r, c) /\ Passed(w, i))
      BY <1>3 DEF Placed
    <3> QED BY <3>1, <2>2, <1>1, <1>2
  <2> QED BY <2>1, <2>2
<1>6. Placed(v, P)
  BY <1>1, <1>4, <1>5 DEF Placed
<1> QED BY <1>1, <1>6

\* A new timer is put where the scan has still to come.
FitsIn(w, P, s) ==
  /\ s \in 1..Lap - 1 /\ s # P
  /\ RingOf(w, s) # Rings - 1 => Digit(s, RingOf(w, s)) >= w.pos[RingOf(w, s)]
  /\ RingOf(w, s) >= SweptTo(w)
  /\ w.scan.on /\ RingOf(w, s) = 0 => Digit(s, 0) # w.pos[0]

\* A slot has taken in one number.
Plus(w, v, h, e, id) == v.slot = Put(w.slot, h, e, w.slot[h][e] \cup {id})

\* schedule, with the stamp s.
LEMMA TimerIsSet ==
  ASSUME NEW w, RingsOK(w), NEW P, Reads(w, P), Placed(w, P), w.scan.on => w.scan.ring = 0,
         NEW s, FitsIn(w, P, s), NEW id \in Nat \ {0}, id \notin LiveIds(w),
         NEW h, h = RingOf(w, s), NEW e, e = Digit(s, h),
         NEW v, Fewer(v, w), LiveIds(v) = LiveIds(w) \cup {id}, StampOf(v, id) = s,
         v.scan.last = w.scan.last, Plus(w, v, h, e, id)
  PROVE  Reads(v, P) /\ Placed(v, P)
<1>1. v.pos = w.pos /\ v.scan.on = w.scan.on /\ v.scan.ring = w.scan.ring /\ v.scan.half = w.scan.half
      /\ \A i \in LiveIds(w) : StampOf(v, i) = StampOf(w, i)
  BY DEF Fewer
<1>2. Moved(v) = Moved(w) /\ SweptTo(v) = SweptTo(w)
  BY <1>1 DEF Moved, SweptTo
<1>3. Reads(v, P)
  BY <1>1, <1>2 DEF Reads
<1>4. \A r, c : Under(v, r, c) <=> Under(w, r, c)
  BY <1>1 DEF Under
<1>5. \A i : Passed(v, i) <=> Passed(w, i)
  BY <1>1 DEF Passed
<1>6. s \in Nat /\ h \in RingIds /\ h \in Nat /\ e \in Cells
  BY LapIs, RingRange, QuotNext DEF FitsIn
<1>7. w.slot \in [RingIds -> [Cells -> SUBSET Nat]] /\ w.slot[h][e] \in SUBSET Nat
  BY <1>6 DEF RingsOK
<1>8. PICK S \in SUBSET Nat : S = w.slot[h][e] \cup {id}
  BY <1>7
<1>9. /\ \A q \in RingIds, c \in Cells : ~(q = h /\ c = e) => v.slot[q][c] = w.slot[q][c]
      /\ v.slot[h][e] = w.slot[h][e] \cup {id}
  <2>1. v.slot = Put(w.slot, h, e, S)
    BY <1>8 DEF Plus
  <2>2. \A q \in RingIds, c \in Cells : v.slot[q][c] = IF q = h /\ c = e THEN S ELSE w.slot[q][c]
    <3>1. w.slot \in [RingIds -> [Cells -> SUBSET Nat]]
      BY <1>7
    <3> QED BY <2>1, <3>1, <1>6, PutIs
  <2> QED BY <2>2, <1>6, <1>8
<1>10. ASSUME NEW i, i # id, NEW r \in RingIds, NEW c \in Cells
       PROVE  i \in v.slot[r][c] <=> i \in w.slot[r][c]
  BY <1>9, <1>10
<1>11. \A i \in LiveIds(v) : ~Awaits(v, i)
  BY <1>1 DEF Awaits
<1>16. \A r \in RingIds, c \in Cells : id \in w.slot[r][c] => Under(w, r, c) /\ Passed(w, id)
  BY Zenon DEF Placed
<1>12. ASSUME NEW i \in LiveIds(w)
       PROVE  /\ Stands(v, i)
              /\ RingOf(v, StampOf(v, i)) >= SweptTo(v) /\ NotMissed(v, i, P)
  <2>1. i # id /\ StampOf(v, i) = StampOf(w, i)
    BY <1>1
  <2>2. Stands(w, i) /\ RingOf(w, StampOf(w, i)) >= SweptTo(w) /\ NotMissed(w, i, P)
    BY NoneAwaits DEF Placed
  <2>3. /\ RingOf(v, StampOf(v, i)) = RingOf(w, StampOf(w, i))
        /\ \A r, c : Home(v, i, r, c) <=> Home(w, i, r, c)
        /\ NotBehind(v, i) <=> NotBehind(w, i)
    BY <2>1, <1>1, SameHome
  <2>4. Stands(v, i)
    BY <2>1, <2>2, <2>3, <1>4, <1>5, <1>10 DEF Stands
  <2>5. NotMissed(v, i, P)
    BY <2>1, <2>2, <1>1 DEF NotMissed
  <2> QED BY <2>2, <2>3, <2>4, <2>5, <1>2
<1>13. Stands(v, id) /\ RingOf(v, StampOf(v, id)) >= SweptTo(v) /\ NotMissed(v, id, P)
  <2>1. RingOf(v, s) = h
    BY <1>1, Zenon DEF RingOf
  <2>2. \A r, c : Home(v, id, r, c) <=> r = h /\ c = e
    BY <2>1 DEF Home
  <2>3. ASSUME NEW r \in RingIds, NEW c \in Cells
        PROVE  IF Under(v, r, c) /\ Passed(v, id) THEN ~Home(v, id, r, c) ELSE id \in v.slot[r][c] <=> Home(v, id, r, c)
    <3>1. CASE Under(v, r, c)
      <4>1. w.scan.on /\ r = 0 /\ c = w.pos[0]
        BY <3>1, <1>4 DEF Under
      <4>2. ~(r = h /\ c = e)
        BY <4>1 DEF FitsIn
      <4>3. Passed(v, id) \/ id \notin w.slot[r][c]
        BY <1>5, <1>16
      <4>4. v.slot[r][c] = w.slot[r][c]
        BY <4>2, <1>9
      <4>5. ~Home(v, id, r, c)
        BY <4>2, <2>2
      <4> QED BY <3>1, <4>3, <4>4, <4>5
    <3>2. CASE ~Under(v, r, c)
      <4>1. id \notin w.slot[r][c]
        BY <3>2, <1>4, <1>16
      <4>2. CASE r = h /\ c = e
        BY <3>2, <4>2, <2>2, <1>9
      <4>3. CASE ~(r = h /\ c = e)
        <5>1. v.slot[r][c] = w.slot[r][c]
          BY <4>3, <1>9
        <5>2. ~Home(v, id, r, c)
          BY <4>3, <2>2
        <5> QED BY <3>2, <4>1, <5>1, <5>2
      <4> QED BY <4>2, <4>3
    <3> QED BY <3>1, <3>2
  <2>4. NotBehind(v, id)
    BY <2>1, <1>1 DEF NotBehind, FitsIn
  <2>5. Stands(v, id)
    BY <2>3, <2>4 DEF Stands
  <2>6. NotMissed(v, id, P)
    BY DEF NotMissed, FitsIn
  <2>7. RingOf(v, StampOf(v, id)) >= SweptTo(v)
    BY <2>1, <1>2 DEF FitsIn
  <2> QED BY <2>5, <2>6, <2>7
<1>14. ASSUME NEW r \in RingIds, NEW c \in Cells, NEW i \in v.slot[r][c]
       PROVE  i \in LiveIds(v) \/ (Under(v, r, c) /\ Passed(v, i))
  <2>1. CASE i = id
    BY <2>1
  <2>2. CASE i # id
    <3>1. i \in LiveIds(w) \/ (Under(w, r, c) /\ Passed(w, i))
      BY <2>2, <1>10 DEF Placed
    <3> QED BY <3>1, <1>4, <1>5
  <2> QED BY <2>1, <2>2
<1>15. Placed(v, P)
  BY <1>11, <1>12, <1>13, <1>14 DEF Placed
<1> QED BY <1>3, <1>15

\* 1 ends in the digit 1.
LEMMA OneIs == 1 \in 1..Lap - 1 /\ Digit(1, 0) = 1 /\ Rings - 1 \in RingIds /\ 0 \in RingIds /\ Rings - 1 # 0
<1>1. 0 \in RingIds /\ RingSize \in Nat /\ RingSize >= 2 /\ Rings - 1 \in RingIds /\ Rings - 1 # 0
  BY SizeIs DEF RingIds
<1>2. Quot(1, 0) = 1 /\ Quot(1, 0) = RingSize * Quot(1, 0 + 1) + Digit(1, 0) /\ Digit(1, 0) \in Cells
      /\ Quot(1, 0 + 1) \in Nat
  BY <1>1, QuotEnds, QuotNext
<1>3. PICK q \in Nat, d \in Cells : q = Quot(1, 0 + 1) /\ d = Digit(1, 0)
  BY <1>2
<1>4. 1 = RingSize * q + d /\ d \in Nat /\ d < RingSize
  BY <1>1, <1>2, <1>3 DEF Cells
<1>5. d = 1 % RingSize
  BY <1>4, RestIs
<1>6. 1 = RingSize * 0 + 1
  BY <1>1
<1>7. 1 = 1 % RingSize
  BY <1>1, <1>6, RestIs
<1>8. Lap \in Nat /\ Lap # 1 /\ Lap # 0
  <2>1. Lap = Pow(Rings - 1) * RingSize /\ Pow(Rings - 1) \in Nat \ {0}
    <3>1. Pow((Rings - 1) + 1) = Pow(Rings - 1) * RingSize /\ Pow(Rings - 1) \in Nat \ {0}
      BY <1>1, PowIs
    <3>2. (Rings - 1) + 1 = Rings
      BY SizeIs
    <3> QED BY <3>1, <3>2, PowIs
  <2>2. PICK n \in Nat \ {0} : n = Pow(Rings - 1)
    BY <2>1
  <2>3. n * RingSize # 1
    BY <1>1, <2>2
  <2> QED BY <2>1, <2>2, <2>3, LapIs
<1> QED BY <1>1, <1>3, <1>5, <1>7, <1>8

\* A stamp of the D-th tick since the start, while the rings read P.
LEMMA StampFits ==
  ASSUME NEW w, RingsOK(w), NEW P, Reads(w, P), w.scan.on => w.scan.ring = 0,
         NEW D \in Nat, P + 1 <= D, w.scan.on => P + 2 <= D, D + Pow(Rings - 1) <= P + Lap,
         NEW s \in Nat, D % Lap = 0 => s = 1, D % Lap # 0 => s = D % Lap
  PROVE  /\ FitsIn(w, P, s)
         /\ TicksTo(P, s) = D - P \/ (TicksTo(P, s) = D - P + 1 /\ Digit(s, 0) # 0)
<1>1. P \in 0..Lap - 1 /\ P \in Nat /\ Lap \in Nat \ {0} /\ Rings \in Nat /\ Rings >= 2 /\ RingSize \in Nat
      /\ \A r \in RingIds : r \in Nat
  BY LapIs, SizeIs DEF Reads, RingIds
<1>2. \A r \in RingIds : Digit(P, r) \in Cells /\ Digit(P, r) \in Nat
  BY <1>1, QuotNext DEF Cells
<1>3. PICK h : h = RingOf(w, s)
  OBVIOUS
<1>4. At(w.pos, s, h) /\ h \in RingIds /\ h \in Nat
  BY <1>3, RingIs, RingRange
<1>5. \A r \in RingIds : r # 0 => w.pos[r] = Digit(P, r)
  <2>1. ~w.scan.on \/ w.scan.half = "old" => Moved(w) = 0
    BY DEF Moved
  <2>2. w.scan.on /\ w.scan.half # "old" => Moved(w) = 1
    BY DEF Moved
  <2> QED BY <2>1, <2>2, <1>1 DEF Reads
<1>6. SweptTo(w) \in {0, 1}
  BY DEF SweptTo
<1>7. CASE D < Lap
  <2>1. D % Lap = D /\ D # 0
    <3>1. D = Lap * 0 + D
      BY <1>1
    <3> QED BY <3>1, <1>1, <1>7, DivUnique
  <2>2. s = D /\ s \in 0..Lap - 1 /\ s \in 1..Lap - 1 /\ P < s /\ s \in Nat /\ P <= s
    BY <2>1, <1>1, <1>7
  <2>3. TicksTo(P, s) = D - P
    BY <2>2, <1>1 DEF TicksTo
  <2>4. \A r \in RingIds : Digit(s, r) \in Cells /\ Digit(s, r) \in Nat /\ Digit(s, r) < RingSize
    BY <2>2, <1>1, QuotNext DEF Cells
  <2>5. ASSUME NEW r \in RingIds, r > h
        PROVE  Digit(P, r) = Digit(s, r)
    <3>1. r # 0
      BY <2>5, <1>1, <1>4
    <3>2. Digit(s, r) = w.pos[r]
      BY <2>5, <1>4, Zenon DEF At
    <3> QED BY <3>1, <3>2, <1>5
  <2>6. Digit(P, h) <= Digit(s, h) /\ (h = 0 /\ P # s => Digit(P, h) < Digit(s, h))
    BY <2>2, <2>5, <1>1, <1>4, HighestDecides
  <2>7. CASE h # 0
    <3>1. Digit(s, h) >= w.pos[h]
      BY <2>6, <2>7, <1>2, <1>4, <1>5, <2>4
    <3>2. h >= SweptTo(w)
      BY <2>7, <1>4, <1>6
    <3> QED BY <3>1, <3>2, <2>2, <2>3, <2>7, <1>3 DEF FitsIn
  <2>8. CASE h = 0
    <3>1. Digit(P, 0) < Digit(s, 0) /\ Digit(P, 0) # RingSize - 1
      BY <2>2, <2>4, <2>6, <2>8, <1>1, <1>2, <1>4
    <3>2. CASE ~w.scan.on \/ w.scan.half = "old"
      <4>1. w.pos[0] = Digit(P, 0)
        BY <3>2, <2>8, <1>4 DEF Reads, Moved
      <4>2. SweptTo(w) = 0
        BY <3>2 DEF SweptTo
      <4> QED BY <4>1, <4>2, <3>1, <2>2, <2>3, <2>4, <2>8, <1>2, <1>3, <1>4 DEF FitsIn
    <3>3. CASE w.scan.on /\ w.scan.half # "old"
      <4>1. w.pos[0] = Digit(P, 0) + 1
        BY <3>1, <3>3, <2>8, <1>4 DEF Reads, Moved, Stepped
      <4>2. SweptTo(w) = 0
        BY <4>1, <3>3, <2>8, <1>2, <1>4 DEF SweptTo
      <4>3. ASSUME Digit(s, 0) = w.pos[0]
            PROVE  FALSE
        <5>1. \A r \in RingIds : r < 0 => Digit(P, r) = RingSize - 1
          BY <1>1
        <5>2. /\ P + 1 \in 0..Lap - 1
              /\ Digit(P + 1, 0) = Digit(P, 0) + 1
              /\ \A r \in RingIds : r > 0 => Digit(P + 1, r) = Digit(P, r)
          BY <5>1, <3>1, <2>8, <1>1, <1>4, CarryStops
        <5>3. \A r \in RingIds : Digit(P + 1, r) = Digit(s, r)
          BY <5>2, <4>1, <4>3, <2>5, <2>8, <1>1
        <5>4. P + 1 = s
          BY <5>2, <5>3, <2>2, SameDigits
        <5> QED BY <5>4, <3>3, <2>2, <1>1
      <4> QED BY <4>1, <4>2, <4>3, <3>1, <2>2, <2>3, <2>4, <2>8, <1>2, <1>3, <1>4 DEF FitsIn
    <3> QED BY <3>2, <3>3
  <2> QED BY <2>7, <2>8
<1>8. CASE D >= Lap
  <2>1. PICK n \in Nat \ {0} : n = Pow(Rings - 1)
    BY OneIs, PowIs
  <2>2. PICK q \in Nat : q = D - Lap
    BY <1>1, <1>8
  <2>3. q + n <= P /\ q < Lap /\ D = Lap * 1 + q
    BY <2>1, <2>2, <1>1
  <2>4. D % Lap = q
    BY <2>3, <1>1, DivUnique
  <2>5. s \in 0..Lap - 1 /\ s \in 1..Lap - 1 /\ (q # 0 => s = q) /\ (q = 0 => s = 1)
    BY <2>3, <2>4, <1>1, OneIs
  <2>6. s + Pow(Rings - 1) <= P \/ (s = 1 /\ Pow(Rings - 1) <= P)
    BY <2>1, <2>3, <2>5, <1>1
  <2>7. Digit(P, Rings - 1) # Digit(s, Rings - 1)
    BY <2>5, <2>6, <1>1, TopDiffers
  <2>8. At(w.pos, s, Rings - 1)
    <3>1. \A r \in RingIds : ~(r > Rings - 1)
      BY <1>1 DEF RingIds
    <3> QED BY <3>1, <2>7, <1>5, OneIs DEF At
  <2>9. h = Rings - 1
    BY <2>8, <1>3, RingIs
  <2>10. s # P
    BY <2>7
  <2>11. h >= SweptTo(w) /\ h # 0
    BY <2>9, <1>1, <1>6
  <2>12. FitsIn(w, P, s)
    BY <2>5, <2>9, <2>10, <2>11, <1>3 DEF FitsIn
  <2>13. ~(s >= P)
    BY <2>5, <2>6, <2>10, <2>1, <1>1
  <2>14. TicksTo(P, s) = s + Lap - P
    BY <2>13 DEF TicksTo
  <2>15. q = 0 => Digit(s, 0) # 0
    BY <2>5, OneIs
  <2> QED BY <2>2, <2>5, <2>12, <2>14, <2>15, <1>1
<1> QED BY <1>1, <1>7, <1>8

\* A scan is under way, and stands there.
ScanAt(s, at, left, ring, todo, wrap, half, last) ==
  /\ s \in Scans /\ s.on
  /\ s.at = at /\ s.left = left /\ s.ring = ring /\ s.todo = todo /\ s.wrap = wrap /\ s.half = half /\ s.last = last

\* v is w with these fields; its scan may differ, too.
Fields(w, v, pos, slot, start, prev) ==
  /\ IsWheel(v) /\ v.heap = w.heap /\ v.free = w.free
  /\ v.pos = pos /\ v.slot = slot /\ v.start = start /\ v.prev = prev

WithScan(w, c)  == [w EXCEPT !.scan = c]
WithSlot(w, c)  == [w EXCEPT !.slot = c]
WithPos(w, c)   == [w EXCEPT !.pos = c]
WithPrev(w, c)  == [w EXCEPT !.prev = c]
WithStart(w, c) == [w EXCEPT !.start = c]

\* A change of one field leaves the others alone.
LEMMA OneField ==
  ASSUME NEW w, IsWheel(w), NEW c
  PROVE  /\ Fields(w, WithScan(w, c), w.pos, w.slot, w.start, w.prev) /\ WithScan(w, c).scan = c
         /\ Fields(w, WithSlot(w, c), w.pos, c, w.start, w.prev) /\ WithSlot(w, c).scan = w.scan
         /\ Fields(w, WithPos(w, c), c, w.slot, w.start, w.prev) /\ WithPos(w, c).scan = w.scan
         /\ Fields(w, WithPrev(w, c), w.pos, w.slot, w.start, c) /\ WithPrev(w, c).scan = w.scan
         /\ Fields(w, WithStart(w, c), w.pos, w.slot, c, w.prev) /\ WithStart(w, c).scan = w.scan
<1>1. Fields(w, WithScan(w, c), w.pos, w.slot, w.start, w.prev) /\ WithScan(w, c).scan = c
  BY DEF IsWheel, Fields, WithScan
<1>2. Fields(w, WithSlot(w, c), w.pos, c, w.start, w.prev) /\ WithSlot(w, c).scan = w.scan
  BY DEF IsWheel, Fields, WithSlot
<1>3. Fields(w, WithPos(w, c), c, w.slot, w.start, w.prev) /\ WithPos(w, c).scan = w.scan
  BY DEF IsWheel, Fields, WithPos
<1>4. Fields(w, WithPrev(w, c), w.pos, w.slot, w.start, c) /\ WithPrev(w, c).scan = w.scan
  BY DEF IsWheel, Fields, WithPrev
<1>5. Fields(w, WithStart(w, c), w.pos, w.slot, c, w.prev) /\ WithStart(w, c).scan = w.scan
  BY DEF IsWheel, Fields, WithStart
<1> QED BY <1>1, <1>2, <1>3, <1>4, <1>5

\* A field and the scan.
LEMMA TwoFields ==
  ASSUME NEW w, IsWheel(w), NEW c, NEW x
  PROVE  /\ Fields(w, WithScan(WithSlot(w, x), c), w.pos, x, w.start, w.prev) /\ WithScan(WithSlot(w, x), c).scan = c
         /\ Fields(w, WithScan(WithPos(w, x), c), x, w.slot, w.start, w.prev) /\ WithScan(WithPos(w, x), c).scan = c
         /\ Fields(w, WithScan(WithPrev(w, x), c), w.pos, w.slot, w.start, x) /\ WithScan(WithPrev(w, x), c).scan = c
<1>1. ASSUME NEW v, NEW pos, NEW slot, NEW start, NEW prev, Fields(w, v, pos, slot, start, prev)
      PROVE  Fields(w, WithScan(v, c), pos, slot, start, prev) /\ WithScan(v, c).scan = c
  <2>1. IsWheel(v)
    BY <1>1 DEF Fields
  <2>2. Fields(v, WithScan(v, c), v.pos, v.slot, v.start, v.prev) /\ WithScan(v, c).scan = c
    BY <2>1, OneField
  <2> QED BY <2>2, <1>1 DEF Fields
<1> QED BY <1>1, OneField

\* Where a scan goes on from.
Rescaled(s, ring, wrap, todo, left) ==
  [s EXCEPT !.ring = ring, !.wrap = wrap, !.todo = todo, !.left = left, !.half = "old", !.last = 0]
Raised(s, ring, wrap) == [s EXCEPT !.ring = ring, !.todo = 1, !.wrap = wrap]
Seen(s, last)         == [s EXCEPT !.last = last]
Halfway(s)            == [s EXCEPT !.last = 0, !.half = "new"]
Done(s, todo)         == [s EXCEPT !.last = 0, !.todo = todo, !.half = "old"]

\* What these changes make of a scan.
LEMMA ScanExcept ==
  ASSUME NEW s \in Scans, s.on, NEW left \in Nat, NEW ring \in RingIds, NEW todo \in Nat, NEW wrap \in BOOLEAN,
         NEW last \in Nat
  PROVE  /\ ScanAt(Rescaled(s, ring, wrap, todo, left), s.at, left, ring, todo, wrap, "old", 0)
         /\ ScanAt(Raised(s, ring, wrap), s.at, s.left, ring, 1, wrap, s.half, s.last)
         /\ ScanAt(Seen(s, last), s.at, s.left, s.ring, s.todo, s.wrap, s.half, last)
         /\ ScanAt(Halfway(s), s.at, s.left, s.ring, s.todo, s.wrap, "new", 0)
         /\ ScanAt(Done(s, todo), s.at, s.left, s.ring, todo, s.wrap, "old", 0)
<1>1. ScanAt(Rescaled(s, ring, wrap, todo, left), s.at, left, ring, todo, wrap, "old", 0)
  BY DEF Scans, ScanAt, Rescaled
<1>2. ScanAt(Raised(s, ring, wrap), s.at, s.left, ring, 1, wrap, s.half, s.last)
  BY DEF Scans, ScanAt, Raised
<1>3. ScanAt(Seen(s, last), s.at, s.left, s.ring, s.todo, s.wrap, s.half, last)
  BY DEF Scans, ScanAt, Seen
<1>4. ScanAt(Halfway(s), s.at, s.left, s.ring, s.todo, s.wrap, "new", 0)
  BY DEF Scans, ScanAt, Halfway
<1>5. ScanAt(Done(s, todo), s.at, s.left, s.ring, todo, s.wrap, "old", 0)
  BY DEF Scans, ScanAt, Done
<1> QED BY <1>1, <1>2, <1>3, <1>4, <1>5

\* cycle on ring 0, and what is left for the next call.
LEMMA TurnFields ==
  ASSUME NEW w, IsWheel(w), w.scan \in Scans, w.scan.on, NEW d \in Nat, d = w.pos[0], d < RingSize
  PROVE  /\ Fields(w, Turn(w), w.pos, w.slot, w.start, w.prev)
         /\ w.scan.left + d >= RingSize =>
              ScanAt(Turn(w).scan, w.scan.at, w.scan.left + d - RingSize, 0, RingSize - d, TRUE, "old", 0)
         /\ ~(w.scan.left + d >= RingSize) =>
              ScanAt(Turn(w).scan, w.scan.at, 0, 0, w.scan.left, FALSE, "old", 0)
<1> DEFINE wrap == w.scan.left + d >= RingSize
           todo == IF wrap THEN RingSize - d ELSE w.scan.left
           left == IF wrap THEN w.scan.left + d - RingSize ELSE 0
<1>2. w.scan.left \in Nat /\ RingSize \in Nat /\ 0 \in RingIds
  BY SizeIs DEF Scans, RingIds
<1>3. wrap \in BOOLEAN /\ todo \in Nat /\ left \in Nat
  BY <1>2
<1>1. Turn(w) = [w EXCEPT !.scan.ring = 0, !.scan.wrap = wrap, !.scan.todo = todo, !.scan.left = left, !.scan.half = "old", !.scan.last = 0]
  BY Zenon DEF Turn
<1>8. /\ wrap => left = w.scan.left + d - RingSize /\ todo = RingSize - d /\ wrap = TRUE
      /\ ~wrap => left = 0 /\ todo = w.scan.left /\ wrap = FALSE
  OBVIOUS
<1>9. (w.scan.left + d >= RingSize) <=> wrap
  OBVIOUS
<1> HIDE DEF wrap, todo, left
<1>4. PICK c : c = Rescaled(w.scan, 0, wrap, todo, left)
  OBVIOUS
<1>5. Turn(w) = WithScan(w, c)
  BY <1>1, <1>4 DEF IsWheel, Rescaled, WithScan
<1>6. ScanAt(c, w.scan.at, left, 0, todo, wrap, "old", 0)
  BY <1>2, <1>3, <1>4, ScanExcept
<1>7. Fields(w, Turn(w), w.pos, w.slot, w.start, w.prev) /\ Turn(w).scan = c
  BY <1>5, OneField
<1> QED BY <1>6, <1>7, <1>8, <1>9

\* cycle on a higher ring
LEMMA TurnUpperFields ==
  ASSUME NEW w, IsWheel(w), w.scan \in Scans, w.scan.on, NEW r \in RingIds
  PROVE  /\ Fields(w, TurnUpper(w, r), w.pos, w.slot, w.start, w.prev)
         /\ ScanAt(TurnUpper(w, r).scan, w.scan.at, w.scan.left, r, 1, w.pos[r] + 1 >= RingSize, w.scan.half, w.scan.last)
<1> DEFINE wrap == w.pos[r] + 1 >= RingSize
<1>1. wrap \in BOOLEAN
  OBVIOUS
<1>6. TurnUpper(w, r) = [w EXCEPT !.scan.ring = r, !.scan.todo = 1, !.scan.wrap = wrap]
  BY Zenon DEF TurnUpper
<1>7. w.pos[r] + 1 >= RingSize <=> wrap
  OBVIOUS
<1> HIDE DEF wrap
<1>2. PICK c : c = Raised(w.scan, r, wrap)
  OBVIOUS
<1>3. TurnUpper(w, r) = WithScan(w, c)
  BY <1>6, <1>2 DEF IsWheel, Raised, WithScan
<1>4. ScanAt(c, w.scan.at, w.scan.left, r, 1, wrap, w.scan.half, w.scan.last)
  <2>1. w.scan.left \in Nat /\ w.scan.last \in Nat
    BY DEF Scans
  <2> QED BY <2>1, <1>1, <1>2, ScanExcept
<1>5. Fields(w, TurnUpper(w, r), w.pos, w.slot, w.start, w.prev) /\ TurnUpper(w, r).scan = c
  BY <1>3, OneField
<1> QED BY <1>4, <1>5 DEF wrap

-----------------------------------------------------------------------------
(* When timers fall due                                                    *)

\* The time of the last tick that is done.
Tau(w) == IF w.scan.on THEN w.scan.at - w.scan.left - w.scan.todo ELSE w.prev

\* The scan is at most MaxLag behind the clock, its scale adds up, and the
\* reading of the rings is behind the time by less than that.
InScale(s, prev, P) ==
  /\ s.todo >= 1 /\ prev + s.left + s.todo <= s.at
  /\ s.wrap => Digit(P, s.ring) + s.todo = RingSize
  /\ ~s.wrap => Digit(P, s.ring) + s.todo < RingSize
  /\ s.ring # 0 => s.todo = 1

OnTime(w, t, P) ==
  /\ w.prev <= t /\ t <= w.prev + MaxLag /\ w.start <= t
  /\ w.scan.on => w.scan.at <= t /\ InScale(w.scan, w.prev, P)
  /\ Tau(w) <= w.start + P /\ w.start + P <= Tau(w) + MaxLag - 1

Good(w, t, P) == IsWheel(w) /\ RingsOK(w) /\ Reads(w, P) /\ OnTime(w, t, P) /\ Placed(w, P)

\* When a timer will be served, unless the scan comes later.
Due(w, P, i) == Tau(w) + TicksTo(P, StampOf(w, i))

\* The timers are the same and due at the same time.
SameDues(w, P, v, Q) ==
  v.heap = w.heap /\ v.free = w.free /\ \A i \in LiveIds(w) : Due(v, Q, i) = Due(w, P, i)

\* The lag is a tick at least.
LEMMA LagIs == MaxLag \in Nat \ {0}
  BY DCAssumption

\* The queue between two ticks, with left ticks to go.
Between(u, t, Q) ==
  /\ IsWheel(u) /\ RingsOK(u) /\ u.scan.on /\ AtRest(u, Q)
  /\ u.prev <= t /\ t <= u.prev + MaxLag /\ u.start <= t /\ u.scan.at <= t
  /\ u.prev + u.scan.left <= u.scan.at
  /\ u.scan.at - u.scan.left <= u.start + Q /\ u.start + Q <= u.scan.at - u.scan.left + MaxLag - 1

\* What the rings are does not depend on the scan.
LEMMA RestMoves ==
  ASSUME NEW u, RingsOK(u), NEW Q, AtRest(u, Q), NEW v, NEW n \in Nat, Fields(u, v, u.pos, u.slot, u.start, n), v.scan \in Scans
  PROVE  RingsOK(v) /\ AtRest(v, Q) /\ IsWheel(v) /\ v.heap = u.heap /\ v.free = u.free
<1>1. SameTimers(u, v) /\ v.slot = u.slot
  BY DEF SameTimers, Fields
<1>2. /\ LiveIds(v) = LiveIds(u)
      /\ \A i : StampOf(v, i) = StampOf(u, i)
      /\ \A i, r, c : Home(v, i, r, c) <=> Home(u, i, r, c)
      /\ \A i : NotBehind(v, i) <=> NotBehind(u, i)
  BY <1>1, SameHomes
<1>3. RingsOK(v)
  BY <1>2 DEF RingsOK, Fields
<1>4. AtRest(v, Q)
  BY <1>1, <1>2 DEF AtRest, Fields
<1> QED BY <1>3, <1>4 DEF Fields

\* The scan goes on with the next call of cycle on ring 0.
LEMMA GoesOn ==
  ASSUME NEW u, NEW t \in Nat, NEW Q, Between(u, t, Q), u.scan.left > 0
  PROVE  /\ Good(Turn(u), t, Q) /\ Tau(Turn(u)) = u.scan.at - u.scan.left
         /\ Turn(u).heap = u.heap /\ Turn(u).free = u.free
<1>1. /\ IsWheel(u) /\ RingsOK(u) /\ u.scan.on /\ AtRest(u, Q)
      /\ u.scan \in Scans /\ u.prev \in Nat /\ u.start \in Nat
  BY DEF Between, RingsOK
<1>2. RingSize \in Nat /\ RingSize >= 2 /\ 0 \in RingIds /\ MaxLag \in Nat /\ Q \in Nat
  BY <1>1, SizeIs, LagIs, LapIs DEF RingIds, AtRest
<1>3. PICK d : d = u.pos[0]
  OBVIOUS
<1>4. d = Digit(Q, 0) /\ d \in Nat /\ d < RingSize
  BY <1>1, <1>2, <1>3 DEF AtRest, RingsOK, Cells
<1>5. u.scan.left \in Nat /\ u.scan.at \in Nat
  BY <1>1 DEF Scans
<1>6. PICK v : v = Turn(u)
  OBVIOUS
<1>7. /\ Fields(u, v, u.pos, u.slot, u.start, u.prev)
      /\ u.scan.left + d >= RingSize =>
              ScanAt(v.scan, u.scan.at, u.scan.left + d - RingSize, 0, RingSize - d, TRUE, "old", 0)
      /\ ~(u.scan.left + d >= RingSize) =>
              ScanAt(v.scan, u.scan.at, 0, 0, u.scan.left, FALSE, "old", 0)
  BY <1>1, <1>3, <1>4, <1>6, TurnFields
<1>8. /\ v.scan \in Scans /\ v.scan.on /\ v.scan.at = u.scan.at /\ v.scan.ring = 0 /\ v.scan.half = "old" /\ v.scan.last = 0
      /\ v.scan.todo \in Nat /\ v.scan.left \in Nat /\ v.scan.todo >= 1
      /\ v.scan.left + v.scan.todo = u.scan.left
      /\ v.scan.wrap => d + v.scan.todo = RingSize
      /\ ~v.scan.wrap => d + v.scan.todo < RingSize
  <2>1. CASE u.scan.left + d >= RingSize
    <3>1. ScanAt(v.scan, u.scan.at, u.scan.left + d - RingSize, 0, RingSize - d, TRUE, "old", 0)
      BY <2>1, <1>7
    <3> QED BY <3>1, <2>1, <1>2, <1>4, <1>5 DEF ScanAt
  <2>2. CASE ~(u.scan.left + d >= RingSize)
    <3>1. ScanAt(v.scan, u.scan.at, 0, 0, u.scan.left, FALSE, "old", 0)
      BY <2>2, <1>7
    <3> QED BY <3>1, <2>2, <1>2, <1>4, <1>5 DEF ScanAt
  <2> QED BY <2>1, <2>2
<1>9. RingsOK(v) /\ AtRest(v, Q) /\ IsWheel(v) /\ v.heap = u.heap /\ v.free = u.free
  BY <1>1, <1>7, <1>8, RestMoves
<1>10. Fresh(v)
  BY <1>8 DEF Fresh
<1>11. Reads(v, Q) /\ Placed(v, Q)
  BY <1>9, <1>10, RestIsPlaced
<1>12. v.prev = u.prev /\ v.start = u.start
  BY <1>7 DEF Fields
<1>13. Tau(v) = u.scan.at - u.scan.left
  BY <1>5, <1>8 DEF Tau
<1>14. InScale(v.scan, v.prev, Q)
  BY <1>1, <1>4, <1>5, <1>8, <1>12 DEF InScale, Between
<1>15. OnTime(v, t, Q)
  BY <1>8, <1>12, <1>13, <1>14 DEF OnTime, Between
<1> QED BY <1>6, <1>9, <1>11, <1>13, <1>15 DEF Good

\* The scan is over.
ScanOver(u) == [u EXCEPT !.prev = u.scan.at, !.scan = NoScan]

\* A scan whose scale is used up leaves a good queue.
LEMMA GoesHome ==
  ASSUME NEW u, NEW t \in Nat, NEW Q, Between(u, t, Q), u.scan.left = 0
  PROVE  /\ Good(ScanOver(u), t, Q) /\ Tau(ScanOver(u)) = u.scan.at
         /\ ScanOver(u).heap = u.heap /\ ScanOver(u).free = u.free
<1>1. /\ IsWheel(u) /\ RingsOK(u) /\ u.scan.on /\ AtRest(u, Q)
      /\ u.scan \in Scans /\ u.prev \in Nat /\ u.start \in Nat
  BY DEF Between, RingsOK
<1>2. NoScan \in Scans /\ ~NoScan.on
  BY SizeIs DEF NoScan, Scans, RingIds
<1>3. u.scan.at \in Nat /\ MaxLag \in Nat
  BY <1>1, LagIs DEF Scans
<1>4. PICK v : v = ScanOver(u)
  OBVIOUS
<1>5. v = WithScan(WithPrev(u, u.scan.at), NoScan)
  BY <1>4 DEF ScanOver, WithScan, WithPrev
<1>6. Fields(u, v, u.pos, u.slot, u.start, u.scan.at) /\ v.scan = NoScan
  BY <1>1, <1>5, TwoFields
<1>7. RingsOK(v) /\ AtRest(v, Q) /\ IsWheel(v) /\ v.heap = u.heap /\ v.free = u.free
  BY <1>1, <1>2, <1>3, <1>6, RestMoves
<1>8. Fresh(v) /\ ~v.scan.on
  BY <1>2, <1>6 DEF Fresh
<1>9. Reads(v, Q) /\ Placed(v, Q)
  BY <1>7, <1>8, RestIsPlaced
<1>10. v.prev = u.scan.at /\ v.start = u.start /\ Tau(v) = u.scan.at
  BY <1>6, <1>8 DEF Fields, Tau
<1>11. OnTime(v, t, Q)
  BY <1>1, <1>3, <1>8, <1>10 DEF OnTime, Between
<1> QED BY <1>4, <1>7, <1>9, <1>10, <1>11 DEF Good

\* A ring moves on by one slot.
Moving(pos, g) == [pos EXCEPT ![g] = (@ + 1) % RingSize]

\* The slot under the scan has been visited, and the ring moves on.
LEMMA MovedFields ==
  ASSUME NEW w, IsWheel(w), RingsOK(w), w.scan.on, w.scan.half = "old", NEW t, NEW g, g = w.scan.ring, NEW d, d = w.pos[g]
  PROVE  /\ Fields(w, SlotDone(w, t), [w.pos EXCEPT ![g] = Stepped(d)], Put(w.slot, g, d, {}), w.start, w.prev)
         /\ ScanAt(SlotDone(w, t).scan, w.scan.at, w.scan.left, g, w.scan.todo, w.scan.wrap, "new", 0)
<1>1. g \in RingIds /\ d \in Cells /\ w.scan \in Scans /\ w.scan.left \in Nat /\ w.scan.todo \in Nat
      /\ w.scan.wrap \in BOOLEAN /\ w.scan.last \in Nat
  BY ScanIs DEF RingsOK
<1>2. PICK c : c = Halfway(w.scan)
  OBVIOUS
<1>3. PICK x : x = Put(w.slot, g, d, {})
  OBVIOUS
<1>4. PICK y : y = Moving(w.pos, g)
  OBVIOUS
<1>5. SlotDone(w, t) = WithScan(WithPos(WithSlot(w, x), y), c)
  BY <1>2, <1>3, <1>4, ZenonT(90) DEF SlotDone, IsWheel, Halfway, Moving, Put, WithScan, WithPos, WithSlot
<1>6. PICK u : u = WithSlot(w, x)
  OBVIOUS
<1>7. Fields(w, u, w.pos, x, w.start, w.prev) /\ u.scan = w.scan /\ IsWheel(u)
  BY <1>6, OneField DEF Fields
<1>8. SlotDone(w, t) = WithScan(WithPos(u, y), c)
  BY <1>5, <1>6
<1>9. Fields(u, WithScan(WithPos(u, y), c), y, u.slot, u.start, u.prev) /\ WithScan(WithPos(u, y), c).scan = c
  BY <1>7, TwoFields
<1>10. Fields(w, SlotDone(w, t), y, x, w.start, w.prev) /\ SlotDone(w, t).scan = c
  BY <1>7, <1>8, <1>9 DEF Fields
<1>11. y = [w.pos EXCEPT ![g] = Stepped(d)]
  <2>1. Stepped(d) = (d + 1) % RingSize
    BY <1>1, SteppedIs
  <2> QED BY <2>1, <1>4 DEF Moving
<1>12. ScanAt(c, w.scan.at, w.scan.left, w.scan.ring, w.scan.todo, w.scan.wrap, "new", 0)
  BY <1>1, <1>2, ScanExcept
<1> QED BY <1>3, <1>10, <1>11, <1>12

\* A tick of the scan is done.
Ticked(w, u, g, d, n) ==
  /\ Fields(w, u, w.pos, Put(w.slot, g, d, {}), w.start, w.prev)
  /\ ScanAt(u.scan, w.scan.at, w.scan.left, g, n, w.scan.wrap, "old", 0)

\* The slot the ring has moved to has been visited, and the tick is done.
LEMMA TickedFields ==
  ASSUME NEW w, IsWheel(w), RingsOK(w), w.scan.on, w.scan.half # "old", NEW t, NEW g, g = w.scan.ring, NEW d, d = w.pos[g],
         w.scan.todo >= 1
  PROVE  \E u : /\ Ticked(w, u, g, d, w.scan.todo - 1)
                /\ SlotDone(w, t) = IF w.scan.todo - 1 > 0 THEN u ELSE AfterTurn(u, t)
<1>1. g \in RingIds /\ d \in Cells /\ w.scan \in Scans /\ w.scan.left \in Nat /\ w.scan.todo \in Nat
      /\ w.scan.wrap \in BOOLEAN /\ w.scan.last \in Nat
  BY ScanIs DEF RingsOK
<1>2. PICK n \in Nat : n = w.scan.todo - 1
  BY <1>1
<1>3. PICK c : c = Done(w.scan, n)
  OBVIOUS
<1>4. PICK x : x = Put(w.slot, g, d, {})
  OBVIOUS
<1>5. PICK u : u = WithScan(WithSlot(w, x), c)
  OBVIOUS
<1>6. Fields(w, u, w.pos, x, w.start, w.prev) /\ u.scan = c
  BY <1>5, TwoFields
<1>7. ScanAt(c, w.scan.at, w.scan.left, w.scan.ring, n, w.scan.wrap, "old", 0)
  BY <1>1, <1>2, <1>3, ScanExcept
<1>8. u = [[w EXCEPT !.slot[w.scan.ring][w.pos[w.scan.ring]] = {}, !.scan.last = 0]
             EXCEPT !.scan.todo = @ - 1, !.scan.half = "old"]
  BY <1>2, <1>3, <1>4, <1>5, <1>1, ZenonT(90) DEF IsWheel, Done, Put, WithScan, WithSlot, Scans
<1>9. SlotDone(w, t) = IF u.scan.todo > 0 THEN u ELSE AfterTurn(u, t)
  <2> DEFINE z == [[w EXCEPT !.slot[w.scan.ring][w.pos[w.scan.ring]] = {}, !.scan.last = 0]
                   EXCEPT !.scan.todo = @ - 1, !.scan.half = "old"]
  <2>1. w.scan.half # "old" => SlotDone(w, t) = IF z.scan.todo > 0 THEN z ELSE AfterTurn(z, t)
    BY Zenon DEF SlotDone
  <2>2. u = z
    BY <1>8
  <2> HIDE DEF z
  <2> QED BY <2>1, <2>2
<1> QED BY <1>2, <1>4, <1>6, <1>7, <1>9 DEF Ticked, ScanAt

\* The queue goes on well, and its timers stay due when they were.
Follows(w, P, v, t) == \E Q : Good(v, t, Q) /\ SameDues(w, P, v, Q)

-----------------------------------------------------------------------------
(* A step of the scan                                                      *)

\* What a good queue is made of.
LEMMA GoodIs ==
  ASSUME NEW w, NEW t, NEW P, Good(w, t, P)
  PROVE  /\ IsWheel(w) /\ RingsOK(w) /\ Reads(w, P) /\ OnTime(w, t, P) /\ Placed(w, P)
         /\ w.scan \in Scans /\ w.start \in Nat /\ w.prev \in Nat /\ P \in Nat /\ P \in 0..Lap - 1
         /\ w.scan.at \in Nat /\ w.scan.left \in Nat /\ w.scan.todo \in Nat
         /\ \A i \in LiveIds(w) : StampOf(w, i) \in 1..Lap - 1 /\ StampOf(w, i) \in Nat
<1>1. IsWheel(w) /\ RingsOK(w) /\ Reads(w, P) /\ OnTime(w, t, P) /\ Placed(w, P)
  BY DEF Good
<1>2. w.scan \in Scans /\ w.start \in Nat /\ w.prev \in Nat
  BY <1>1 DEF RingsOK
<1>3. P \in Nat /\ P \in 0..Lap - 1
  BY <1>1, LapIs DEF Reads
<1>4. \A i \in LiveIds(w) : StampOf(w, i) \in 1..Lap - 1 /\ StampOf(w, i) \in Nat
  BY <1>1, LapIs DEF RingsOK
<1> QED BY <1>1, <1>2, <1>3, <1>4 DEF Scans

\* A number of ticks is a number.
LEMMA TicksAre ==
  ASSUME NEW P \in 0..Lap - 1, NEW s \in 0..Lap - 1
  PROVE  TicksTo(P, s) \in Nat
  BY LapIs DEF TicksTo

\* The same timers with other rings.
LEMMA SameStamps ==
  ASSUME NEW w, NEW v, v.heap = w.heap
  PROVE  LiveIds(v) = LiveIds(w) /\ \A i : StampOf(v, i) = StampOf(w, i)
  BY DEF LiveIds, StampOf

\* The slot under the scan is empty now.
LEMMA EmptyOK ==
  ASSUME NEW w, RingsOK(w), NEW g, g = w.scan.ring, NEW d, d = w.pos[g],
         NEW v, v.heap = w.heap, v.slot = Put(w.slot, g, d, {}), v.pos \in [RingIds -> Cells],
         v.prev \in Nat, v.start \in Nat, v.scan \in Scans
  PROVE  RingsOK(v)
<1>1. g \in RingIds /\ d \in Cells
  BY ScanIs
<1>2. w.slot \in [RingIds -> [Cells -> SUBSET Nat]] /\ {} \in SUBSET Nat
  BY DEF RingsOK
<1>3. v.slot \in [RingIds -> [Cells -> SUBSET Nat]]
  BY <1>1, <1>2, PutIs
<1>4. LiveIds(v) = LiveIds(w) /\ \A i : StampOf(v, i) = StampOf(w, i)
  BY SameStamps
<1> QED BY <1>3, <1>4 DEF RingsOK

\* The ring moves on: the reading stays.
LEMMA MoveFollows ==
  ASSUME NEW w, NEW t \in Nat, NEW P, Good(w, t, P), w.scan.on, Ahead(w) = {}, w.scan.half = "old"
  PROVE  Follows(w, P, SlotDone(w, t), t)
<1>1. PICK g : g = w.scan.ring
  OBVIOUS
<1>2. PICK d : d = w.pos[g]
  OBVIOUS
<1>3. /\ IsWheel(w) /\ RingsOK(w) /\ Reads(w, P) /\ OnTime(w, t, P) /\ Placed(w, P)
      /\ w.scan \in Scans /\ w.start \in Nat /\ w.prev \in Nat
  BY GoodIs
<1>4. PICK v : v = SlotDone(w, t)
  OBVIOUS
<1>5. /\ Fields(w, v, [w.pos EXCEPT ![g] = Stepped(d)], Put(w.slot, g, d, {}), w.start, w.prev)
      /\ ScanAt(v.scan, w.scan.at, w.scan.left, g, w.scan.todo, w.scan.wrap, "new", 0)
  BY <1>1, <1>2, <1>3, <1>4, MovedFields
<1>6. g \in RingIds /\ d \in Cells
  BY <1>1, <1>2, <1>3, ScanIs
<1>7. Stepped(d) \in Cells
  BY <1>6, SteppedIs
<1>8. v.pos \in [RingIds -> Cells]
  BY <1>3, <1>5, <1>7 DEF Fields, RingsOK
<1>9. v.heap = w.heap /\ v.free = w.free /\ v.slot = Put(w.slot, g, d, {}) /\ v.start = w.start /\ v.prev = w.prev
      /\ IsWheel(v) /\ v.pos = [w.pos EXCEPT ![g] = Stepped(d)]
  BY <1>5 DEF Fields
<1>10. /\ v.scan \in Scans /\ v.scan.on /\ v.scan.ring = g /\ v.scan.half = "new" /\ v.scan.last = 0
       /\ v.scan.at = w.scan.at /\ v.scan.left = w.scan.left /\ v.scan.todo = w.scan.todo /\ v.scan.wrap = w.scan.wrap
  BY <1>5 DEF ScanAt
<1>11. RingsOK(v)
  BY <1>1, <1>2, <1>3, <1>8, <1>9, <1>10, EmptyOK
<1>12. Reads(v, P) /\ Placed(v, P)
  BY <1>1, <1>2, <1>3, <1>9, <1>10, <1>11, RingTurns
<1>13. Tau(v) = Tau(w)
  BY <1>9, <1>10 DEF Tau
<1>14. OnTime(v, t, P)
  BY <1>1, <1>3, <1>9, <1>10, <1>13 DEF OnTime, InScale
<1>15. SameDues(w, P, v, P)
  BY <1>9, <1>13, SameStamps DEF SameDues, Due
<1> QED BY <1>4, <1>9, <1>11, <1>12, <1>14, <1>15 DEF Follows, Good

\* The queue after the last tick of a turn.
LEMMA RestFollows ==
  ASSUME NEW w, NEW t \in Nat, NEW P, Good(w, t, P), w.scan.on, w.scan.todo = 1,
         NEW u, NEW Q, Between(u, t, Q), u.heap = w.heap, u.free = w.free,
         u.scan.at = w.scan.at, u.scan.left = w.scan.left,
         \A i \in LiveIds(w) : TicksTo(P, StampOf(w, i)) = TicksTo(Q, StampOf(w, i)) + 1,
         NEW v, v = IF u.scan.left > 0 THEN Turn(u) ELSE ScanOver(u)
  PROVE  Follows(w, P, v, t)
<1>1. /\ w.scan.at \in Nat /\ w.scan.left \in Nat
      /\ \A i \in LiveIds(w) : StampOf(w, i) \in 1..Lap - 1
      /\ P \in 0..Lap - 1 /\ P \in Nat /\ OnTime(w, t, P)
  BY GoodIs
<1>2. Good(v, t, Q) /\ Tau(v) = w.scan.at - w.scan.left /\ v.heap = w.heap /\ v.free = w.free
  <2>1. CASE u.scan.left > 0
    BY <2>1, GoesOn
  <2>2. CASE ~(u.scan.left > 0)
    <3>1. u.scan.left = 0
      BY <2>2, <1>1
    <3> QED BY <3>1, <2>2, <1>1, GoesHome
  <2> QED BY <2>1, <2>2
<1>3. Tau(w) = w.scan.at - w.scan.left - 1
  BY DEF Tau
<1>4. Q \in 0..Lap - 1
  BY DEF Between, AtRest
<1>5. ASSUME NEW i \in LiveIds(w)
      PROVE  Due(v, Q, i) = Due(w, P, i)
  <2>1. TicksTo(P, StampOf(w, i)) = TicksTo(Q, StampOf(w, i)) + 1
    OBVIOUS
  <2>2. TicksTo(Q, StampOf(w, i)) \in Nat
    BY <1>1, <1>4, TicksAre, LapIs
  <2>3. StampOf(v, i) = StampOf(w, i)
    BY <1>2, SameStamps
  <2> QED BY <2>1, <2>2, <2>3, <1>1, <1>2, <1>3 DEF Due
<1> QED BY <1>2, <1>5 DEF Follows, SameDues

\* A tick of ring 0 that is not the last of its turn.
LEMMA TickFollows ==
  ASSUME NEW w, NEW t \in Nat, NEW P, Good(w, t, P), w.scan.on, Ahead(w) = {}, w.scan.half = "new",
         NEW g, g = w.scan.ring, NEW d, d = w.pos[g],
         w.scan.todo - 1 > 0, NEW u, Ticked(w, u, g, d, w.scan.todo - 1)
  PROVE  Follows(w, P, u, t)
<1>1. /\ IsWheel(w) /\ RingsOK(w) /\ Reads(w, P) /\ OnTime(w, t, P) /\ Placed(w, P)
      /\ w.scan \in Scans /\ w.start \in Nat /\ w.prev \in Nat /\ P \in Nat /\ P \in 0..Lap - 1
      /\ w.scan.at \in Nat /\ w.scan.left \in Nat /\ w.scan.todo \in Nat
      /\ \A i \in LiveIds(w) : StampOf(w, i) \in 1..Lap - 1
  BY GoodIs
<1>2. g \in RingIds /\ d \in Cells /\ g \in Nat
  BY <1>1, ScanIs
<1>3. /\ Fields(w, u, w.pos, Put(w.slot, g, d, {}), w.start, w.prev)
      /\ ScanAt(u.scan, w.scan.at, w.scan.left, g, w.scan.todo - 1, w.scan.wrap, "old", 0)
  BY DEF Ticked
<1>4. u.heap = w.heap /\ u.free = w.free /\ u.slot = Put(w.slot, g, d, {}) /\ u.start = w.start /\ u.prev = w.prev
      /\ IsWheel(u) /\ u.pos = w.pos
  BY <1>3 DEF Fields
<1>5. /\ u.scan \in Scans /\ u.scan.on /\ u.scan.ring = g /\ u.scan.half = "old" /\ u.scan.last = 0
      /\ u.scan.at = w.scan.at /\ u.scan.left = w.scan.left /\ u.scan.todo = w.scan.todo - 1 /\ u.scan.wrap = w.scan.wrap
  BY <1>3 DEF ScanAt
<1>6. RingsOK(u)
  <2>1. w.pos \in [RingIds -> Cells]
    BY <1>1 DEF RingsOK
  <2> QED BY <2>1, <1>1, <1>4, <1>5, EmptyOK
<1>7. InScale(w.scan, w.prev, P)
  BY <1>1 DEF OnTime
<1>8. g = 0
  BY <1>1, <1>7 DEF InScale
<1>9. RingSize \in Nat /\ RingSize >= 2 /\ Rings \in Nat /\ Rings >= 2 /\ Digit(P, g) \in Nat /\ MaxLag \in Nat
      /\ \A r \in RingIds : ~(r < 0)
  <2>1. Digit(P, g) \in Nat
    BY <1>1, <1>2, QuotNext DEF Cells
  <2>2. \A r \in RingIds : ~(r < 0)
    BY DEF RingIds
  <2> QED BY <2>1, <2>2, SizeIs, LagIs
<1>10. Digit(P, g) # RingSize - 1 /\ w.scan.wrap \in BOOLEAN
  <2>1. w.scan.wrap \in BOOLEAN
    BY <1>1, ScanIs
  <2>2. CASE w.scan.wrap
    BY <2>1, <2>2, <1>1, <1>7, <1>9 DEF InScale
  <2>3. CASE ~w.scan.wrap
    BY <2>1, <2>3, <1>1, <1>7, <1>9 DEF InScale
  <2> QED BY <2>2, <2>3
<1>11. PICK Q : Q = NextReading(P, g)
  OBVIOUS
<1>12. Q = P + 1
  BY <1>10, <1>11 DEF NextReading
<1>13. /\ AtRest(u, Q)
       /\ \A i \in LiveIds(w) : TicksTo(P, StampOf(w, i)) = TicksTo(Q, StampOf(w, i)) + 1
  <2>1. SameTimers(w, u)
    BY <1>4 DEF SameTimers
  <2>2. w.pos[g] = d
    OBVIOUS
  <2> QED BY <2>1, <1>1, <1>4, <1>10, <1>11, TickEnds
<1>14. Fresh(u)
  BY <1>5, <1>8 DEF Fresh
<1>15. Reads(u, Q) /\ Placed(u, Q)
  BY <1>6, <1>13, <1>14, RestIsPlaced
<1>16. Digit(Q, g) = Digit(P, g) + 1
  <2>1. \A r \in RingIds : r < g => Digit(P, r) = RingSize - 1
    BY <1>8, <1>9
  <2> QED BY <2>1, <1>1, <1>2, <1>10, <1>12, CarryStops
<1>17. Tau(u) = Tau(w) + 1 /\ Tau(w) = w.scan.at - w.scan.left - w.scan.todo
  BY <1>1, <1>4, <1>5 DEF Tau
<1>18. InScale(u.scan, u.prev, Q)
  <2>1. /\ w.scan.wrap => Digit(P, g) + w.scan.todo = RingSize
        /\ ~w.scan.wrap => Digit(P, g) + w.scan.todo < RingSize
        /\ w.prev + w.scan.left + w.scan.todo <= w.scan.at
    BY <1>7 DEF InScale
  <2>2. /\ u.scan.wrap => Digit(Q, g) + u.scan.todo = RingSize
        /\ ~u.scan.wrap => Digit(Q, g) + u.scan.todo < RingSize
    BY <2>1, <1>1, <1>5, <1>9, <1>16
  <2>3. u.prev + u.scan.left + u.scan.todo <= u.scan.at /\ u.scan.todo >= 1
    BY <2>1, <1>1, <1>4, <1>5
  <2> QED BY <2>2, <2>3, <1>5, <1>8 DEF InScale
<1>19. OnTime(u, t, Q)
  BY <1>1, <1>4, <1>5, <1>9, <1>12, <1>17, <1>18 DEF OnTime
<1>20. ASSUME NEW i \in LiveIds(w)
       PROVE  Due(u, Q, i) = Due(w, P, i)
  <2>1. TicksTo(P, StampOf(w, i)) = TicksTo(Q, StampOf(w, i)) + 1
    BY <1>13
  <2>2. TicksTo(Q, StampOf(w, i)) \in Nat
    <3>1. Q \in 0..Lap - 1
      BY <1>15 DEF Reads
    <3> QED BY <3>1, <1>1, TicksAre, LapIs
  <2>3. StampOf(u, i) = StampOf(w, i)
    BY <1>4, SameStamps
  <2>4. Tau(w) \in Int
    BY <1>1, <1>17
  <2> QED BY <2>1, <2>2, <2>3, <2>4, <1>17 DEF Due
<1> QED BY <1>4, <1>6, <1>15, <1>19, <1>20 DEF Follows, Good, SameDues

\* A ring that came round turns the next.
LEMMA RaiseFollows ==
  ASSUME NEW w, NEW t \in Nat, NEW P, Good(w, t, P), w.scan.on, Ahead(w) = {}, w.scan.half = "new", w.scan.todo = 1,
         NEW g, g = w.scan.ring, NEW d, d = w.pos[g], NEW u, Ticked(w, u, g, d, 0),
         w.scan.wrap, g + 1 # Rings
  PROVE  Follows(w, P, TurnUpper(u, g + 1), t)
<1>1. /\ IsWheel(w) /\ RingsOK(w) /\ Reads(w, P) /\ OnTime(w, t, P) /\ Placed(w, P)
      /\ w.scan \in Scans /\ w.start \in Nat /\ w.prev \in Nat /\ P \in Nat /\ P \in 0..Lap - 1
      /\ w.scan.at \in Nat /\ w.scan.left \in Nat /\ w.scan.todo \in Nat
  BY GoodIs
<1>2. g \in RingIds /\ d \in Cells /\ g \in Nat
  BY <1>1, ScanIs
<1>3. RingSize \in Nat /\ RingSize >= 2 /\ Rings \in Nat /\ Rings >= 2 /\ Digit(P, g) \in Nat
      /\ g + 1 \in RingIds /\ g # Rings - 1 /\ Digit(P, g + 1) \in Nat
  <2>1. RingSize \in Nat /\ RingSize >= 2 /\ Rings \in Nat /\ Rings >= 2
    BY SizeIs
  <2>2. g + 1 \in RingIds /\ g # Rings - 1
    BY <2>1, <1>2 DEF RingIds
  <2>3. Digit(P, g) \in Nat /\ Digit(P, g + 1) \in Nat
    BY <2>2, <1>1, <1>2, QuotNext DEF Cells
  <2> QED BY <2>1, <2>2, <2>3
<1>4. /\ Fields(w, u, w.pos, Put(w.slot, g, d, {}), w.start, w.prev)
      /\ ScanAt(u.scan, w.scan.at, w.scan.left, g, 0, w.scan.wrap, "old", 0)
  BY DEF Ticked
<1>5. IsWheel(u) /\ u.scan \in Scans /\ u.scan.on /\ u.pos = w.pos
  BY <1>4 DEF Fields, ScanAt
<1>6. PICK v : v = TurnUpper(u, g + 1)
  OBVIOUS
<1>7. PICK wrap : wrap = (u.pos[g + 1] + 1 >= RingSize)
  OBVIOUS
<1>8. /\ Fields(u, v, u.pos, u.slot, u.start, u.prev)
      /\ ScanAt(v.scan, u.scan.at, u.scan.left, g + 1, 1, wrap, u.scan.half, u.scan.last)
  BY <1>3, <1>5, <1>6, <1>7, TurnUpperFields
<1>9. v.heap = w.heap /\ v.free = w.free /\ v.slot = Put(w.slot, g, d, {}) /\ v.start = w.start /\ v.prev = w.prev
      /\ IsWheel(v) /\ v.pos = w.pos
  BY <1>4, <1>8 DEF Fields
<1>10. /\ v.scan \in Scans /\ v.scan.on /\ v.scan.ring = g + 1 /\ v.scan.half = "old" /\ v.scan.last = 0
       /\ v.scan.at = w.scan.at /\ v.scan.left = w.scan.left /\ v.scan.todo = 1 /\ v.scan.wrap = wrap
  BY <1>4, <1>8 DEF ScanAt
<1>11. RingsOK(v)
  <2>1. w.pos \in [RingIds -> Cells]
    BY <1>1 DEF RingsOK
  <2> QED BY <2>1, <1>1, <1>9, <1>10, EmptyOK
<1>12. InScale(w.scan, w.prev, P)
  BY <1>1 DEF OnTime
<1>13. Digit(P, g) = RingSize - 1
  BY <1>1, <1>3, <1>12 DEF InScale
<1>14. Reads(v, P) /\ Placed(v, P)
  <2>1. SameTimers(w, v)
    BY <1>9 DEF SameTimers
  <2> QED BY <2>1, <1>1, <1>3, <1>9, <1>10, <1>11, <1>13, RingComesRound
<1>15. w.pos[g + 1] = Digit(P, g + 1)
  <2>1. g + 1 > g
    BY <1>2
  <2> QED BY <2>1, <1>1, <1>3, TurnedDigits
<1>16. Tau(v) = Tau(w)
  BY <1>9, <1>10 DEF Tau
<1>17. InScale(v.scan, v.prev, P)
  <2>1. v.scan.wrap <=> Digit(P, g + 1) + 1 >= RingSize
    BY <1>5, <1>7, <1>10, <1>15, ZenonT(90)
  <2>2. Digit(P, g + 1) < RingSize
    BY <1>1, <1>3, QuotNext DEF Cells
  <2>3. v.prev + v.scan.left + 1 <= v.scan.at
    BY <1>1, <1>9, <1>10, <1>12 DEF InScale
  <2> QED BY <2>1, <2>2, <2>3, <1>2, <1>3, <1>10 DEF InScale
<1>18. OnTime(v, t, P)
  BY <1>1, <1>9, <1>10, <1>16, <1>17 DEF OnTime
<1>19. SameDues(w, P, v, P)
  BY <1>9, <1>16, SameStamps DEF SameDues, Due
<1> QED BY <1>6, <1>9, <1>11, <1>14, <1>18, <1>19 DEF Follows, Good

\* A turn of the rings ends: with the last ring the origin moves to the clock.
LEMMA EndFollows ==
  ASSUME NEW w, NEW t \in Nat, NEW P, Good(w, t, P), w.scan.on, Ahead(w) = {}, w.scan.half = "new", w.scan.todo = 1,
         NEW g, g = w.scan.ring, NEW d, d = w.pos[g], NEW u, Ticked(w, u, g, d, 0),
         NEW lap \in BOOLEAN, lap => w.scan.wrap /\ g = Rings - 1, ~lap => ~w.scan.wrap,
         NEW x, x = IF lap THEN WithStart(u, t) ELSE u,
         NEW v, v = IF x.scan.left > 0 THEN Turn(x) ELSE ScanOver(x)
  PROVE  Follows(w, P, v, t)
<1>1. /\ IsWheel(w) /\ RingsOK(w) /\ Reads(w, P) /\ OnTime(w, t, P) /\ Placed(w, P)
      /\ w.scan \in Scans /\ w.start \in Nat /\ w.prev \in Nat /\ P \in Nat /\ P \in 0..Lap - 1
      /\ w.scan.at \in Nat /\ w.scan.left \in Nat /\ w.scan.todo \in Nat
  BY GoodIs
<1>2. g \in RingIds /\ d \in Cells /\ g \in Nat
  BY <1>1, ScanIs
<1>3. RingSize \in Nat /\ RingSize >= 2 /\ Digit(P, g) \in Nat /\ MaxLag \in Nat
  <2>1. Digit(P, g) \in Nat
    BY <1>1, <1>2, QuotNext DEF Cells
  <2> QED BY <2>1, SizeIs, LagIs
<1>4. /\ Fields(w, u, w.pos, Put(w.slot, g, d, {}), w.start, w.prev)
      /\ ScanAt(u.scan, w.scan.at, w.scan.left, g, 0, w.scan.wrap, "old", 0)
  BY DEF Ticked
<1>5. IsWheel(u)
  BY <1>4 DEF Fields
<1>6. PICK start : start = IF lap THEN t ELSE w.start
  OBVIOUS
<1>7. Fields(w, x, w.pos, Put(w.slot, g, d, {}), start, w.prev) /\ x.scan = u.scan
  <2>1. CASE lap
    <3>1. Fields(u, WithStart(u, t), u.pos, u.slot, t, u.prev) /\ WithStart(u, t).scan = u.scan
      BY <1>5, OneField
    <3>2. x = WithStart(u, t) /\ start = t
      BY <2>1, <1>6
    <3> QED BY <3>1, <3>2, <1>4 DEF Fields
  <2>2. CASE ~lap
    BY <2>2, <1>4, <1>6 DEF Fields
  <2> QED BY <2>1, <2>2
<1>8. x.heap = w.heap /\ x.free = w.free /\ x.slot = Put(w.slot, g, d, {}) /\ x.start = start /\ x.prev = w.prev
      /\ IsWheel(x) /\ x.pos = w.pos
  BY <1>7 DEF Fields
<1>9. /\ x.scan \in Scans /\ x.scan.on /\ x.scan.at = w.scan.at /\ x.scan.left = w.scan.left
  BY <1>4, <1>7 DEF ScanAt
<1>10. start \in Nat
  BY <1>1, <1>6
<1>11. RingsOK(x)
  <2>1. w.pos \in [RingIds -> Cells]
    BY <1>1 DEF RingsOK
  <2> QED BY <2>1, <1>1, <1>8, <1>9, <1>10, EmptyOK
<1>12. InScale(w.scan, w.prev, P)
  BY <1>1 DEF OnTime
<1>13. /\ lap => Digit(P, g) = RingSize - 1
       /\ ~lap => Digit(P, g) # RingSize - 1
  <2>1. CASE lap
    BY <2>1, <1>3, <1>12 DEF InScale
  <2>2. CASE ~lap
    BY <2>2, <1>3, <1>12 DEF InScale
  <2> QED BY <2>1, <2>2
<1>14. PICK Q : Q = NextReading(P, g)
  OBVIOUS
<1>15. /\ lap => Q = 0
       /\ ~lap => Q = P + 1
  BY <1>13, <1>14 DEF NextReading
<1>16. /\ AtRest(x, Q)
       /\ \A i \in LiveIds(w) : TicksTo(P, StampOf(w, i)) = TicksTo(Q, StampOf(w, i)) + 1
  <2>1. SameTimers(w, x)
    BY <1>8 DEF SameTimers
  <2>2. Digit(P, g) # RingSize - 1 \/ g = Rings - 1
    BY <1>13
  <2> QED BY <2>1, <2>2, <1>1, <1>8, <1>14, TickEnds
<1>17. /\ w.prev <= t /\ t <= w.prev + MaxLag /\ w.start <= t /\ w.scan.at <= t
       /\ w.prev + w.scan.left + 1 <= w.scan.at
       /\ w.scan.at - w.scan.left - 1 <= w.start + P /\ w.start + P <= w.scan.at - w.scan.left - 1 + MaxLag - 1
  <2>1. w.prev + w.scan.left + 1 <= w.scan.at
    BY <1>12 DEF InScale
  <2>2. Tau(w) = w.scan.at - w.scan.left - 1
    BY DEF Tau
  <2> QED BY <2>1, <2>2, <1>1 DEF OnTime
<1>18. start <= t /\ w.scan.at - w.scan.left <= start + Q /\ start + Q <= w.scan.at - w.scan.left + MaxLag - 1
  <2>1. CASE lap
    BY <2>1, <1>1, <1>3, <1>6, <1>15, <1>17
  <2>2. CASE ~lap
    BY <2>2, <1>1, <1>3, <1>6, <1>15, <1>17
  <2> QED BY <2>1, <2>2
<1>19. w.prev + w.scan.left <= w.scan.at
  BY <1>1, <1>17
<1>20. Between(x, t, Q)
  BY <1>8, <1>9, <1>11, <1>16, <1>17, <1>18, <1>19 DEF Between
<1> QED BY <1>8, <1>9, <1>16, <1>20, RestFollows

\* What AfterTurn does.
LEMMA AfterTurnCases ==
  ASSUME NEW u, NEW t, NEW g, g = u.scan.ring, u.scan.wrap \in BOOLEAN, NEW lap \in BOOLEAN,
         lap <=> (u.scan.wrap /\ g + 1 = Rings)
  PROVE  /\ u.scan.wrap /\ ~lap => AfterTurn(u, t) = TurnUpper(u, g + 1)
         /\ ~(u.scan.wrap /\ ~lap) =>
              \E x : x = (IF lap THEN WithStart(u, t) ELSE u)
                     /\ AfterTurn(u, t) = IF x.scan.left > 0 THEN Turn(x) ELSE ScanOver(x)
<1>1. PICK x : x = IF lap THEN WithStart(u, t) ELSE u
  OBVIOUS
<1>2. x.scan.at = u.scan.at
  <2>1. CASE lap
    BY <1>1, <2>1 DEF WithStart
  <2>2. CASE ~lap
    BY <1>1, <2>2
  <2> QED BY <2>1, <2>2
<1>3. AfterTurn(u, t) = IF u.scan.wrap /\ ~(u.scan.wrap /\ u.scan.ring + 1 = Rings) THEN TurnUpper(u, u.scan.ring + 1)
                        ELSE IF (IF u.scan.wrap /\ u.scan.ring + 1 = Rings THEN WithStart(u, t) ELSE u).scan.left > 0
                             THEN Turn(IF u.scan.wrap /\ u.scan.ring + 1 = Rings THEN WithStart(u, t) ELSE u)
                        ELSE [(IF u.scan.wrap /\ u.scan.ring + 1 = Rings THEN WithStart(u, t) ELSE u)
                                EXCEPT !.prev = u.scan.at, !.scan = NoScan]
  BY Zenon DEF AfterTurn, WithStart
<1>4. x = IF u.scan.wrap /\ u.scan.ring + 1 = Rings THEN WithStart(u, t) ELSE u
  BY <1>1
<1>5. AfterTurn(u, t) = IF u.scan.wrap /\ ~(u.scan.wrap /\ u.scan.ring + 1 = Rings) THEN TurnUpper(u, u.scan.ring + 1)
                        ELSE IF x.scan.left > 0 THEN Turn(x)
                        ELSE [x EXCEPT !.prev = u.scan.at, !.scan = NoScan]
  BY <1>3, <1>4, Zenon
<1>6. ScanOver(x) = [x EXCEPT !.prev = u.scan.at, !.scan = NoScan]
  BY <1>2 DEF ScanOver
<1>7. AfterTurn(u, t) = IF u.scan.wrap /\ ~lap THEN TurnUpper(u, g + 1)
                        ELSE IF x.scan.left > 0 THEN Turn(x) ELSE ScanOver(x)
  BY <1>5, <1>6
<1> QED BY <1>1, <1>7

\* When a slot is done, the queue goes on well.
LEMMA SlotFollows ==
  ASSUME NEW w, NEW t \in Nat, NEW P, Good(w, t, P), w.scan.on, Ahead(w) = {}
  PROVE  Follows(w, P, SlotDone(w, t), t)
<1>1. CASE w.scan.half = "old"
  BY <1>1, MoveFollows
<1>2. CASE w.scan.half # "old"
  <2>1. PICK g : g = w.scan.ring
    OBVIOUS
  <2>2. PICK d : d = w.pos[g]
    OBVIOUS
  <2>3. IsWheel(w) /\ RingsOK(w) /\ OnTime(w, t, P) /\ w.scan.todo \in Nat
    BY GoodIs
  <2>4. w.scan.half = "new" /\ w.scan.todo >= 1 /\ w.scan.wrap \in BOOLEAN /\ g \in RingIds
    <3>1. w.scan.half \in {"old", "new"} /\ w.scan.wrap \in BOOLEAN /\ g \in RingIds
      BY <2>1, <2>3, ScanIs
    <3>2. w.scan.todo >= 1
      BY <2>3 DEF OnTime, InScale
    <3> QED BY <3>1, <3>2, <1>2
  <2>5. PICK u : /\ Ticked(w, u, g, d, w.scan.todo - 1)
                 /\ SlotDone(w, t) = IF w.scan.todo - 1 > 0 THEN u ELSE AfterTurn(u, t)
    BY <1>2, <2>1, <2>2, <2>3, <2>4, TickedFields
  <2>6. CASE w.scan.todo - 1 > 0
    <3>1. SlotDone(w, t) = u
      BY <2>5, <2>6
    <3> QED BY <3>1, <2>1, <2>2, <2>4, <2>5, <2>6, TickFollows
  <2>7. CASE ~(w.scan.todo - 1 > 0)
    <3>1. w.scan.todo = 1 /\ w.scan.todo - 1 = 0
      BY <2>3, <2>4, <2>7
    <3>2. SlotDone(w, t) = AfterTurn(u, t) /\ Ticked(w, u, g, d, 0)
      BY <2>5, <2>7, <3>1
    <3>3. u.scan.wrap = w.scan.wrap /\ u.scan.ring = g /\ Rings \in Nat /\ g \in Nat
      BY <3>2, <2>4, SizeIs DEF Ticked, ScanAt, RingIds
    <3> DEFINE lap == u.scan.wrap /\ g + 1 = Rings
    <3>4. lap \in BOOLEAN /\ (lap <=> (u.scan.wrap /\ g + 1 = Rings))
      BY <3>3, <2>4
    <3>5. lap => w.scan.wrap /\ g = Rings - 1
      BY <3>3
    <3> HIDE DEF lap
    <3>6. CASE w.scan.wrap /\ ~lap
      <4>1. SlotDone(w, t) = TurnUpper(u, g + 1)
        BY <2>4, <3>2, <3>3, <3>4, <3>6, AfterTurnCases
      <4>2. g + 1 # Rings
        BY <3>3, <3>4, <3>6
      <4> QED BY <4>1, <4>2, <2>1, <2>2, <2>4, <3>1, <3>2, <3>6, RaiseFollows
    <3>7. CASE ~(w.scan.wrap /\ ~lap)
      <4>1. PICK x : x = (IF lap THEN WithStart(u, t) ELSE u)
                     /\ AfterTurn(u, t) = IF x.scan.left > 0 THEN Turn(x) ELSE ScanOver(x)
        BY <2>4, <3>3, <3>4, <3>7, AfterTurnCases
      <4>2. ~lap => ~w.scan.wrap
        BY <3>7
      <4>3. SlotDone(w, t) = IF x.scan.left > 0 THEN Turn(x) ELSE ScanOver(x)
        BY <4>1, <3>2
      <4> QED BY <4>1, <4>2, <4>3, <2>1, <2>2, <2>4, <3>1, <3>2, <3>4, <3>5, EndFollows
    <3> QED BY <3>6, <3>7
  <2> QED BY <2>6, <2>7
<1> QED BY <1>1, <1>2

\* What insert_node does to the rings.
LEMMA InsertFields ==
  ASSUME NEW w, IsWheel(w), NEW id, NEW h, h = RingOf(w, StampOf(w, id)), NEW e, e = Digit(StampOf(w, id), h)
  PROVE  /\ Fields(w, Insert(w, id), w.pos, Put(w.slot, h, e, w.slot[h][e] \cup {id}), w.start, w.prev)
         /\ Insert(w, id).scan = w.scan
<1>1. PICK x : x = Put(w.slot, h, e, w.slot[h][e] \cup {id})
  OBVIOUS
<1>2. Insert(w, id) = WithSlot(w, x)
  BY <1>1 DEF Insert, IsWheel, Put, WithSlot, StampOf
<1> QED BY <1>1, <1>2, OneField

\* The types stay when a number is put into a slot.
LEMMA PutOK ==
  ASSUME NEW w, RingsOK(w), NEW id \in Nat, NEW h \in RingIds, NEW e \in Cells,
         NEW v, SameTimers(w, v), v.slot = Put(w.slot, h, e, w.slot[h][e] \cup {id}),
         v.start = w.start, v.prev = w.prev, v.scan \in Scans
  PROVE  RingsOK(v)
<1>1. w.slot \in [RingIds -> [Cells -> SUBSET Nat]]
  BY DEF RingsOK
<1>2. w.slot[h] \in [Cells -> SUBSET Nat]
  BY <1>1
<1>3. PICK S \in SUBSET Nat : S = w.slot[h][e] \cup {id}
  BY <1>2
<1>4. v.slot \in [RingIds -> [Cells -> SUBSET Nat]]
  <2>1. v.slot = Put(w.slot, h, e, S)
    BY <1>3
  <2>2. Put(w.slot, h, e, S) \in [RingIds -> [Cells -> SUBSET Nat]]
    BY <1>1, <1>3, PutIs, ZenonT(120)
  <2> QED BY <2>1, <2>2
<1>5. LiveIds(v) = LiveIds(w) /\ \A i : StampOf(v, i) = StampOf(w, i)
  BY SameStamps DEF SameTimers
<1> QED BY <1>4, <1>5 DEF RingsOK, SameTimers

\* A timer is dealt out to a lower ring.
LEMMA DealFollows ==
  ASSUME NEW w, NEW t \in Nat, NEW P, Good(w, t, P), w.scan.on, Ahead(w) # {}, ~Firing(w)
  PROVE  Follows(w, P, Silent(w, t), t)
<1>1. /\ IsWheel(w) /\ RingsOK(w) /\ Reads(w, P) /\ OnTime(w, t, P) /\ Placed(w, P)
      /\ w.scan \in Scans /\ w.start \in Nat /\ w.prev \in Nat
  BY GoodIs
<1>2. PICK g : g = w.scan.ring
  OBVIOUS
<1>3. PICK d : d = w.pos[g]
  OBVIOUS
<1>4. PICK id : id = Min(Ahead(w))
  OBVIOUS
<1>5. id \in LiveIds(w) /\ id \in Nat
  BY <1>1, <1>2, <1>3, <1>4, NextAhead
<1>6. Live(w, Min(Ahead(w)))
  BY <1>4, <1>5 DEF Live, LiveIds
<1>7. g # 0
  BY <1>2, <1>6 DEF Firing
<1>8. PICK h : h = RingOf(w, StampOf(w, id))
  OBVIOUS
<1>9. PICK e : e = Digit(StampOf(w, id), h)
  OBVIOUS
<1>10. h \in RingIds /\ e \in Cells
  <2>1. StampOf(w, id) \in Nat
    BY <1>5, GoodIs
  <2> QED BY <2>1, <1>8, <1>9, HomeIs
<1>11. PICK u : u = Insert(w, id)
  OBVIOUS
<1>12. /\ Fields(w, u, w.pos, Put(w.slot, h, e, w.slot[h][e] \cup {id}), w.start, w.prev)
       /\ u.scan = w.scan
  BY <1>1, <1>8, <1>9, <1>11, InsertFields
<1>13. PICK c : c = Seen(w.scan, id)
  OBVIOUS
<1>14. ScanAt(c, w.scan.at, w.scan.left, w.scan.ring, w.scan.todo, w.scan.wrap, w.scan.half, id)
  <2>1. w.scan.left \in Nat /\ w.scan.todo \in Nat /\ w.scan.wrap \in BOOLEAN /\ w.scan.ring \in RingIds
    BY <1>1, ScanIs
  <2> QED BY <2>1, <1>1, <1>5, <1>13, ScanExcept
<1>15. Silent(w, t) = WithScan(u, c)
  <2>1. Silent(w, t) = [(IF Live(w, Min(Ahead(w))) THEN Insert(w, Min(Ahead(w))) ELSE w) EXCEPT !.scan.last = Min(Ahead(w))]
    BY Zenon DEF Silent
  <2>2. (IF Live(w, Min(Ahead(w))) THEN Insert(w, Min(Ahead(w))) ELSE w) = u
    BY <1>4, <1>6, <1>11
  <2>3. Silent(w, t) = [u EXCEPT !.scan.last = id]
    BY <2>1, <2>2, <1>4
  <2> QED BY <2>3, <1>12, <1>13 DEF Fields, IsWheel, Seen, WithScan
<1>16. PICK v : v = WithScan(u, c)
  OBVIOUS
<1>17. /\ Fields(u, v, u.pos, u.slot, u.start, u.prev)
       /\ v.scan = c
  <2>1. IsWheel(u)
    BY <1>12 DEF Fields
  <2> QED BY <2>1, <1>16, OneField
<1>18. v.heap = w.heap /\ v.free = w.free /\ v.slot = Put(w.slot, h, e, w.slot[h][e] \cup {id}) /\ v.start = w.start /\ v.prev = w.prev
      /\ IsWheel(v) /\ v.pos = w.pos
  BY <1>12, <1>17 DEF Fields
<1>19. /\ v.scan \in Scans /\ v.scan.on /\ v.scan.ring = g /\ v.scan.half = w.scan.half /\ v.scan.last = id
       /\ v.scan.at = w.scan.at /\ v.scan.left = w.scan.left /\ v.scan.todo = w.scan.todo /\ v.scan.wrap = w.scan.wrap
  BY <1>2, <1>14, <1>17 DEF ScanAt
<1>20. RingsOK(v) /\ SameTimers(w, v)
  <2>1. SameTimers(w, v)
    BY <1>18 DEF SameTimers
  <2> QED BY <2>1, <1>1, <1>5, <1>10, <1>18, <1>19, PutOK
<1>21. Reads(v, P) /\ Placed(v, P)
  BY <1>1, <1>2, <1>4, <1>7, <1>8, <1>9, <1>18, <1>19, <1>20, TimerIsDealt
<1>22. Tau(v) = Tau(w)
  BY <1>18, <1>19 DEF Tau
<1>23. OnTime(v, t, P)
  BY <1>1, <1>2, <1>18, <1>19, <1>22 DEF OnTime, InScale
<1>24. SameDues(w, P, v, P)
  BY <1>18, <1>22, SameStamps DEF SameDues, Due
<1> QED BY <1>15, <1>16, <1>18, <1>20, <1>21, <1>23, <1>24 DEF Follows, Good

\* A step of the scan.
LEMMA AdvanceFollows ==
  ASSUME NEW w, NEW t \in Nat, NEW P, Good(w, t, P)
  PROVE  Follows(w, P, Advance(w, t), t)
<1>1. CASE ~(w.scan.on /\ ~Firing(w))
  <2>1. Advance(w, t) = w
    BY <1>1 DEF Advance
  <2>2. SameDues(w, P, w, P)
    BY DEF SameDues
  <2> QED BY <2>1, <2>2 DEF Follows
<1>2. CASE w.scan.on /\ ~Firing(w) /\ Ahead(w) = {}
  <2>1. Advance(w, t) = SlotDone(w, t)
    BY <1>2, Zenon DEF Advance, Silent
  <2> QED BY <2>1, <1>2, SlotFollows
<1>3. CASE w.scan.on /\ ~Firing(w) /\ Ahead(w) # {}
  <2>1. Advance(w, t) = Silent(w, t)
    BY <1>3 DEF Advance
  <2> QED BY <2>1, <1>3, DealFollows
<1> QED BY <1>1, <1>2, <1>3

\* What follows on what follows.
LEMMA FollowsTwice ==
  ASSUME NEW w, NEW P, NEW v, NEW Q, NEW u, NEW t, SameDues(w, P, v, Q), Follows(v, Q, u, t)
  PROVE  Follows(w, P, u, t)
<1>1. PICK R : Good(u, t, R) /\ SameDues(v, Q, u, R)
  BY DEF Follows
<1>2. LiveIds(v) = LiveIds(w)
  BY SameStamps DEF SameDues
<1>3. SameDues(w, P, u, R)
  BY <1>1, <1>2 DEF SameDues
<1> QED BY <1>1, <1>3 DEF Follows

\* The scan up to the next callback, or to its end.
LEMMA SettleFollows ==
  ASSUME NEW w, NEW t \in Nat, NEW P, Good(w, t, P)
  PROVE  Follows(w, P, Settle(w, t), t)
<1>1. PICK f : /\ f[0] = w
               /\ \A k \in 1..ScanSteps : f[k] = SettleStep(f, k, t)
               /\ Settle(w, t) = f[ScanSteps]
  BY SettleWalk
<1>2. ScanSteps \in Nat
  BY WheelAssumption
<1> DEFINE Bad == {n \in 0..ScanSteps : ~Follows(w, P, f[n], t)}
<1>3. Bad = {}
  <2>1. SUFFICES ASSUME Bad # {} PROVE FALSE
    OBVIOUS
  <2>2. Bad \in SUBSET Nat
    BY <1>2
  <2>3. PICK n \in Bad : \A j \in Bad : n <= j
    BY <2>1, <2>2, LeastOf
  <2>4. n \in 0..ScanSteps /\ ~Follows(w, P, f[n], t)
    BY <2>3
  <2>5. n # 0
    <3>1. SameDues(w, P, w, P)
      BY DEF SameDues
    <3>2. Follows(w, P, w, t)
      BY <3>1 DEF Follows
    <3> QED BY <3>2, <1>1, <2>4
  <2>6. n - 1 \in 0..ScanSteps /\ ~(n <= n - 1) /\ n \in 1..ScanSteps
    BY <1>2, <2>4, <2>5
  <2>7. PICK v : v = f[n - 1]
    OBVIOUS
  <2>8. Follows(w, P, v, t)
    BY <2>3, <2>6, <2>7
  <2>9. f[n] = Advance(v, t)
    <3>1. f[n] = SettleStep(f, n, t)
      BY <1>1, <2>6
    <3>2. \A x : (CHOOSE y \in {x} : TRUE) = x
      OBVIOUS
    <3>3. {Advance(u, t) : u \in {v}} = {Advance(v, t)}
      OBVIOUS
    <3> QED
      BY <2>7, <3>1, <3>2, <3>3 DEF SettleStep
  <2>10. PICK Q : Good(v, t, Q) /\ SameDues(w, P, v, Q)
    BY <2>8 DEF Follows
  <2>11. Follows(v, Q, Advance(v, t), t)
    BY <2>10, AdvanceFollows
  <2> QED
    BY <2>4, <2>9, <2>10, <2>11, FollowsTwice
<1>4. ScanSteps \in 0..ScanSteps
  BY <1>2
<1> QED
  BY <1>1, <1>3, <1>4

\* Between two scans every timer is at home.
LEMMA PlacedIsRest ==
  ASSUME NEW w, RingsOK(w), NEW P, Reads(w, P), Placed(w, P), ~w.scan.on
  PROVE  AtRest(w, P)
<1>1. Moved(w) = 0
  BY DEF Moved
<1>2. \A r \in RingIds : w.pos[r] = Digit(P, r)
  <2>1. \A r \in RingIds : ~(r < 0)
    BY DEF RingIds
  <2> QED BY <1>1, <2>1 DEF Reads
<1>3. ASSUME NEW i \in LiveIds(w)
      PROVE  /\ \A r \in RingIds, c \in Cells : i \in w.slot[r][c] <=> Home(w, i, r, c)
             /\ NotBehind(w, i) /\ (StampOf(w, i) = P => Digit(P, 0) = 0)
  <2>1. ~Awaits(w, i) /\ \A r, c : ~Under(w, r, c)
    BY DEF Awaits, Under
  <2>2. Stands(w, i) /\ NotMissed(w, i, P)
    BY <2>1 DEF Placed
  <2> QED BY <2>1, <2>2 DEF Stands, NotMissed
<1>4. \A r \in RingIds, c \in Cells : w.slot[r][c] \subseteq LiveIds(w)
  BY DEF Placed, Under
<1>5. P \in 0..Lap - 1
  BY DEF Reads
<1> QED BY <1>2, <1>3, <1>4, <1>5 DEF AtRest

-----------------------------------------------------------------------------
(* What owners do to the queue                                             *)

\* The scan that expire starts.
Started(w, t) == [w EXCEPT !.scan = [NoScan EXCEPT !.on = TRUE, !.at = t, !.left = t - w.prev]]

\* Only the scan differs.
LEMMA StartedIs ==
  ASSUME NEW w, IsWheel(w), NEW t \in Nat, w.prev \in Nat, t > w.prev
  PROVE  /\ Fields(w, Started(w, t), w.pos, w.slot, w.start, w.prev)
         /\ Started(w, t).scan \in Scans /\ Started(w, t).scan.on
         /\ Started(w, t).scan.at = t /\ Started(w, t).scan.left = t - w.prev
<1>1. PICK n \in Nat : n = t - w.prev
  OBVIOUS
<1>2. PICK c : c = [NoScan EXCEPT !.on = TRUE, !.at = t, !.left = n]
  OBVIOUS
<1>3. c = [on |-> TRUE, at |-> t, left |-> n, ring |-> 0, todo |-> 0, wrap |-> FALSE, half |-> "old", last |-> 0]
  BY <1>2 DEF NoScan
<1>4. 0 \in RingIds
  BY SizeIs DEF RingIds
<1>5. c \in Scans /\ c.on /\ c.at = t /\ c.left = n
  BY <1>3, <1>4 DEF Scans
<1>6. Started(w, t) = WithScan(w, c)
  BY <1>1, <1>2 DEF Started, WithScan
<1> QED BY <1>1, <1>5, <1>6, OneField

\* expire
LEMMA ExpireFollows ==
  ASSUME NEW w, NEW t \in Nat, NEW P, Good(w, t, P), ~w.scan.on
  PROVE  Follows(w, P, Expire(w, t), t)
<1>1. /\ IsWheel(w) /\ RingsOK(w) /\ Reads(w, P) /\ OnTime(w, t, P) /\ Placed(w, P)
      /\ w.start \in Nat /\ w.prev \in Nat
  BY GoodIs
<1>2. CASE ~(t > w.prev)
  <2>1. Expire(w, t) = w
    BY <1>2 DEF Expire
  <2>2. SameDues(w, P, w, P)
    BY DEF SameDues
  <2> QED BY <2>1, <2>2 DEF Follows
<1>3. CASE t > w.prev
  <2>1. PICK u : u = Started(w, t)
    OBVIOUS
  <2>2. Expire(w, t) = Settle(Turn(u), t)
    BY <1>3, <2>1 DEF Expire, Started
  <2>3. /\ Fields(w, u, w.pos, w.slot, w.start, w.prev)
        /\ u.scan \in Scans /\ u.scan.on /\ u.scan.at = t /\ u.scan.left = t - w.prev
    BY <1>1, <1>3, <2>1, StartedIs
  <2>4. AtRest(w, P)
    BY <1>1, PlacedIsRest
  <2>5. RingsOK(u) /\ AtRest(u, P) /\ IsWheel(u) /\ u.heap = w.heap /\ u.free = w.free
    BY <1>1, <2>3, <2>4, RestMoves
  <2>6. u.prev = w.prev /\ u.start = w.start
    BY <2>3 DEF Fields
  <2>7. Tau(w) = w.prev
    BY DEF Tau
  <2>8. Between(u, t, P)
    <3>1. w.prev <= t /\ t <= w.prev + MaxLag /\ w.start <= t /\ w.prev <= w.start + P /\ w.start + P <= w.prev + MaxLag - 1
      BY <1>1, <2>7 DEF OnTime
    <3>2. u.prev + u.scan.left <= u.scan.at /\ u.scan.at - u.scan.left = w.prev
      BY <1>1, <2>3, <2>6
    <3> QED BY <3>1, <3>2, <2>3, <2>5, <2>6 DEF Between
  <2>9. u.scan.left > 0 /\ u.scan.at - u.scan.left = w.prev
    BY <1>1, <1>3, <2>3
  <2>10. Good(Turn(u), t, P) /\ Tau(Turn(u)) = w.prev /\ Turn(u).heap = u.heap /\ Turn(u).free = u.free
    BY <2>8, <2>9, GoesOn
  <2>11. SameDues(w, P, Turn(u), P)
    BY <2>5, <2>7, <2>10, SameStamps DEF SameDues, Due
  <2>12. Follows(Turn(u), P, Settle(Turn(u), t), t)
    BY <2>10, SettleFollows
  <2> QED BY <2>2, <2>11, <2>12, FollowsTwice
<1> QED BY <1>2, <1>3

\* The timers that are left stay due when they were.
LessDues(w, P, v, Q) ==
  \A i \in LiveIds(v) : i \in LiveIds(w) /\ v.heap[i] = w.heap[i] /\ Due(v, Q, i) = Due(w, P, i)

\* heap_[id] = NULL
LEMMA FreedFields ==
  ASSUME NEW w, WheelOK(w), NEW id \in LiveIds(w)
  PROVE  /\ IsWheel(Freed(w, id)) /\ Freed(w, id).pos = w.pos /\ Freed(w, id).slot = w.slot
         /\ Freed(w, id).start = w.start /\ Freed(w, id).prev = w.prev /\ Freed(w, id).scan = w.scan
         /\ LiveIds(Freed(w, id)) = LiveIds(w) \ {id}
         /\ \A i \in LiveIds(Freed(w, id)) : Freed(w, id).heap[i] = w.heap[i]
<1>1. PICK h, f : Freed(w, id) = [w EXCEPT !.heap = h, !.free = f]
  BY DEF Freed
<1>2. /\ IsWheel(Freed(w, id)) /\ Freed(w, id).pos = w.pos /\ Freed(w, id).slot = w.slot
      /\ Freed(w, id).start = w.start /\ Freed(w, id).prev = w.prev /\ Freed(w, id).scan = w.scan
  BY <1>1 DEF IsWheel, WheelOK
<1> QED BY <1>2, FreedIs DEF Drops

\* The types stay when a timer goes.
LEMMA FewerOK ==
  ASSUME NEW w, RingsOK(w), NEW v, v.pos = w.pos, v.slot \in [RingIds -> [Cells -> SUBSET Nat]],
         v.start = w.start, v.prev = w.prev, v.scan \in Scans,
         LiveIds(v) \subseteq LiveIds(w), \A i \in LiveIds(v) : StampOf(v, i) = StampOf(w, i)
  PROVE  RingsOK(v)
  BY DEF RingsOK

\* The end of a callback.
LEMMA FiredFollows ==
  ASSUME NEW w, NEW t \in Nat, NEW P, Good(w, t, P), WheelOK(w), w.scan.on, w.scan.ring = 0, Ahead(w) # {},
         NEW id, id = Min(Ahead(w))
  PROVE  /\ \E Q : Good(Fired(w, id, t), t, Q) /\ LessDues(w, P, Fired(w, id, t), Q)
         /\ LiveIds(Fired(w, id, t)) = LiveIds(w) \ {id}
<1>1. /\ IsWheel(w) /\ RingsOK(w) /\ Reads(w, P) /\ OnTime(w, t, P) /\ Placed(w, P)
      /\ w.scan \in Scans /\ w.start \in Nat /\ w.prev \in Nat
  BY GoodIs
<1>2. id \in LiveIds(w) /\ id \in Nat
  BY <1>1, NextAhead
<1>3. PICK u : u = Freed(w, id)
  OBVIOUS
<1>4. /\ IsWheel(u) /\ u.pos = w.pos /\ u.slot = w.slot /\ u.start = w.start /\ u.prev = w.prev /\ u.scan = w.scan
      /\ LiveIds(u) = LiveIds(w) \ {id}
      /\ \A i \in LiveIds(u) : u.heap[i] = w.heap[i]
  BY <1>2, <1>3, FreedFields
<1>5. PICK c : c = Seen(w.scan, id)
  OBVIOUS
<1>6. ScanAt(c, w.scan.at, w.scan.left, w.scan.ring, w.scan.todo, w.scan.wrap, w.scan.half, id)
  <2>1. w.scan.left \in Nat /\ w.scan.todo \in Nat /\ w.scan.wrap \in BOOLEAN /\ w.scan.ring \in RingIds
    BY <1>1, ScanIs
  <2> QED BY <2>1, <1>1, <1>2, <1>5, ScanExcept
<1>7. PICK v : v = WithScan(u, c)
  OBVIOUS
<1>8. Fired(w, id, t) = Settle(v, t)
  <2>1. v = [u EXCEPT !.scan.last = id]
    BY <1>4, <1>5, <1>7 DEF IsWheel, Seen, WithScan
  <2> QED BY <2>1, <1>3 DEF Fired
<1>9. Fields(u, v, u.pos, u.slot, u.start, u.prev) /\ v.scan = c
  BY <1>4, <1>7, OneField
<1>10. v.heap = u.heap /\ v.slot = w.slot /\ v.start = w.start /\ v.prev = w.prev /\ IsWheel(v) /\ v.pos = w.pos
  BY <1>4, <1>9 DEF Fields
<1>11. LiveIds(v) = LiveIds(w) \ {id} /\ \A i \in LiveIds(v) : v.heap[i] = w.heap[i] /\ StampOf(v, i) = StampOf(w, i)
  <2>1. LiveIds(v) = LiveIds(u) /\ \A i : StampOf(v, i) = StampOf(u, i)
    BY <1>10, SameStamps
  <2> QED BY <2>1, <1>4, <1>10 DEF StampOf
<1>12. /\ v.scan \in Scans /\ v.scan.on /\ v.scan.ring = w.scan.ring /\ v.scan.half = w.scan.half /\ v.scan.last = id
       /\ v.scan.at = w.scan.at /\ v.scan.left = w.scan.left /\ v.scan.todo = w.scan.todo /\ v.scan.wrap = w.scan.wrap
  BY <1>6, <1>9 DEF ScanAt
<1>13. RingsOK(v)
  <2>1. w.slot \in [RingIds -> [Cells -> SUBSET Nat]]
    BY <1>1 DEF RingsOK
  <2> QED BY <2>1, <1>1, <1>10, <1>11, <1>12, FewerOK
<1>14. Fewer(w, v)
  BY <1>10, <1>11, <1>12 DEF Fewer
<1>15. Reads(v, P) /\ Placed(v, P)
  BY <1>1, <1>10, <1>11, <1>12, <1>14, TimerIsServed
<1>16. Tau(v) = Tau(w)
  BY <1>10, <1>12 DEF Tau
<1>17. OnTime(v, t, P)
  BY <1>1, <1>10, <1>12, <1>16 DEF OnTime, InScale
<1>18. Good(v, t, P)
  BY <1>10, <1>13, <1>15, <1>17 DEF Good
<1>19. PICK Q : Good(Settle(v, t), t, Q) /\ SameDues(v, P, Settle(v, t), Q)
  BY <1>18, SettleFollows DEF Follows
<1>20. PICK x : x = Settle(v, t)
  OBVIOUS
<1>21. LiveIds(x) = LiveIds(v) /\ x.heap = v.heap
  BY <1>19, <1>20, SameStamps DEF SameDues
<1>22. LessDues(w, P, x, Q)
  BY <1>11, <1>16, <1>19, <1>20, <1>21 DEF LessDues, SameDues, Due
<1> QED BY <1>8, <1>11, <1>19, <1>20, <1>21, <1>22

\* Owners are called only while ring 0 is scanned.
Calls(w) == w.scan.on => w.scan.ring = 0

\* Rings, scan and origin stay, and the slot under the scan takes nothing in.
SameRings(w, v) ==
  /\ v.pos = w.pos /\ v.scan = w.scan /\ v.start = w.start /\ v.prev = w.prev
  /\ w.scan.on => v.slot[0][w.pos[0]] \subseteq w.slot[0][w.pos[0]]

\* The time does not depend on the timers.
LEMMA SameTimes ==
  ASSUME NEW w, NEW t, NEW P, OnTime(w, t, P), NEW v, v.scan = w.scan, v.start = w.start, v.prev = w.prev
  PROVE  OnTime(v, t, P) /\ Tau(v) = Tau(w)
<1>1. Tau(v) = Tau(w)
  BY DEF Tau
<1> QED BY <1>1 DEF OnTime, InScale

\* cancel_timer
LEMMA CancelGood ==
  ASSUME NEW w, NEW t \in Nat, NEW P, Good(w, t, P), WheelOK(w), Calls(w), NEW id, NEW v, v = Cancel(w, id)
  PROVE  Good(v, t, P) /\ SameRings(w, v)
<1>1. /\ IsWheel(w) /\ RingsOK(w) /\ Reads(w, P) /\ OnTime(w, t, P) /\ Placed(w, P)
      /\ w.scan \in Scans /\ w.start \in Nat /\ w.prev \in Nat
  BY GoodIs
<1>2. CASE id \notin LiveIds(w)
  <2>1. v = w
    BY <1>2 DEF Cancel, Live, LiveIds
  <2> QED BY <2>1 DEF SameRings
<1>3. CASE id \in LiveIds(w)
  <2>1. PICK x : x = [r \in RingIds |-> [w.slot[r] EXCEPT ![Digit(StampOf(w, id), r)] = @ \ {id}]]
    OBVIOUS
  <2>2. PICK u : u = WithSlot(w, x)
    OBVIOUS
  <2>3. Delete(w, id) = u
    <3>1. Delete(w, id) = WithSlot(w, [r \in RingIds |-> [w.slot[r] EXCEPT ![Digit(StampOf(w, id), r)] = @ \ {id}]])
      BY Zenon DEF Delete, WithSlot, StampOf
    <3> QED BY <3>1, <2>1, <2>2
  <2>4. v = Freed(u, id)
    BY <1>3, <2>3 DEF Cancel, Live, LiveIds
  <2>5. Fields(w, u, w.pos, x, w.start, w.prev) /\ u.scan = w.scan
    BY <1>1, <2>2, OneField
  <2>6. WheelOK(u) /\ id \in LiveIds(u) /\ LiveIds(u) = LiveIds(w) /\ u.heap = w.heap
    <3>1. SameNumbers(w, u) /\ u.start = w.start /\ u.heap = w.heap
      BY <2>5 DEF Fields, SameNumbers
    <3>2. WheelOK(u) /\ LiveIds(u) = LiveIds(w)
      BY <3>1, <1>1, RingsAside, SameStamps
    <3> QED BY <3>1, <3>2, <1>3
  <2>7. /\ IsWheel(v) /\ v.pos = u.pos /\ v.slot = u.slot /\ v.start = u.start /\ v.prev = u.prev /\ v.scan = u.scan
        /\ LiveIds(v) = LiveIds(u) \ {id}
        /\ \A i \in LiveIds(v) : v.heap[i] = u.heap[i]
    BY <2>4, <2>6, FreedFields
  <2>8. /\ v.pos = w.pos /\ v.slot = x /\ v.start = w.start /\ v.prev = w.prev /\ v.scan = w.scan
        /\ LiveIds(v) = LiveIds(w) \ {id} /\ LiveIds(v) \subseteq LiveIds(w)
        /\ \A i \in LiveIds(v) : StampOf(v, i) = StampOf(w, i)
    BY <2>5, <2>6, <2>7 DEF Fields, StampOf
  <2>9. w.slot \in [RingIds -> [Cells -> SUBSET Nat]] /\ w.pos \in [RingIds -> Cells]
    BY <1>1 DEF RingsOK
  <2>10. \A r \in RingIds, c \in Cells :
            x[r][c] = IF c = Digit(StampOf(w, id), r) THEN w.slot[r][c] \ {id} ELSE w.slot[r][c]
    BY <2>1, <2>9
  <2>11. x \in [RingIds -> [Cells -> SUBSET Nat]]
    <3>1. \A r \in RingIds : [w.slot[r] EXCEPT ![Digit(StampOf(w, id), r)] = @ \ {id}] \in [Cells -> SUBSET Nat]
      <4> TAKE r \in RingIds
      <4>1. PICK y \in [Cells -> SUBSET Nat] : y = w.slot[r]
        BY <2>9
      <4>2. [y EXCEPT ![Digit(StampOf(w, id), r)] = @ \ {id}] \in [Cells -> SUBSET Nat]
        OBVIOUS
      <4> QED BY <4>1, <4>2
    <3> QED BY <3>1, <2>1
  <2>12. RingsOK(v)
    BY <1>1, <2>8, <2>11, FewerOK
  <2>13. Fewer(w, v)
    BY <2>8 DEF Fewer
  <2>14. Reads(v, P) /\ Placed(v, P)
    <3>1. v.scan.last = w.scan.last /\ Without(w, v, id)
      BY <2>8, <2>10 DEF Without
    <3>2. w.scan.on => w.scan.ring = 0
      BY DEF Calls
    <3>3. RingsOK(w) /\ Reads(w, P) /\ Placed(w, P) /\ id \in LiveIds(w) /\ LiveIds(v) = LiveIds(w) \ {id}
      BY <1>1, <1>3, <2>8
    <3> QED BY <3>1, <3>2, <3>3, <2>13, TimerIsCancelled
  <2>15. OnTime(v, t, P)
    BY <1>1, <2>8, SameTimes
  <2>16. v.slot[0][w.pos[0]] \subseteq w.slot[0][w.pos[0]]
    <3>1. 0 \in RingIds /\ w.pos[0] \in Cells
      BY <2>9, OneIs
    <3> QED BY <3>1, <2>8, <2>10
  <2> QED BY <2>7, <2>8, <2>12, <2>14, <2>15, <2>16 DEF Good, SameRings
<1> QED BY <1>2, <1>3

\* The delays of the client fit the rings.
Fits(delay) == delay \in Nat /\ MaxLag <= delay /\ delay + MaxLag <= Lap - Pow(Rings - 1)

\* A timer falls due, at d, no more than the lag before its time, and no later
\* than that, but for the tick a stamp that is not the first of a lap may lose.
InTime(d, at, s) == at - (MaxLag - 1) <= d /\ d <= at + (IF Digit(s, 0) = 0 THEN 0 ELSE 1)

\* The stamp of a timer that is set now.
LEMMA SetFits ==
  ASSUME NEW w, NEW t \in Nat, NEW P, Good(w, t, P), Calls(w), NEW delay, Fits(delay), NEW s, s = Stamp(w, delay, t),
         NEW at, at = t + delay
  PROVE  FitsIn(w, P, s) /\ s \in Nat \ {0} /\ InTime(Tau(w) + TicksTo(P, s), at, s)
<1>1. /\ IsWheel(w) /\ RingsOK(w) /\ Reads(w, P) /\ OnTime(w, t, P) /\ Placed(w, P)
      /\ w.scan \in Scans /\ w.start \in Nat /\ w.prev \in Nat /\ P \in Nat
      /\ w.scan.at \in Nat /\ w.scan.left \in Nat /\ w.scan.todo \in Nat
  BY GoodIs
<1>2. MaxLag \in Nat \ {0} /\ Lap \in Nat \ {0} /\ delay \in Nat
  BY LagIs, LapIs DEF Fits
<1>3. PICK n \in Nat : n = Pow(Rings - 1)
  BY PowIs, OneIs
<1>4. PICK a : a = Tau(w)
  OBVIOUS
<1>5. /\ a \in Int /\ w.prev <= a /\ a <= t /\ (w.scan.on => a + 1 <= t)
      /\ t <= w.prev + MaxLag /\ w.start <= t /\ a <= w.start + P /\ w.start + P <= a + MaxLag - 1
  <2>1. t <= w.prev + MaxLag /\ w.start <= t /\ a <= w.start + P /\ w.start + P <= a + MaxLag - 1 /\ w.prev <= t
    BY <1>1, <1>4 DEF OnTime
  <2>2. CASE w.scan.on
    <3>1. w.scan.at <= t /\ w.scan.todo >= 1 /\ w.prev + w.scan.left + w.scan.todo <= w.scan.at
      BY <1>1, <2>2 DEF OnTime, InScale
    <3>2. a = w.scan.at - w.scan.left - w.scan.todo
      BY <1>4, <2>2 DEF Tau
    <3> QED BY <2>1, <3>1, <3>2, <1>1
  <2>3. CASE ~w.scan.on
    <3>1. a = w.prev
      BY <1>4, <2>3 DEF Tau
    <3> QED BY <2>1, <2>3, <3>1, <1>1
  <2> QED BY <2>2, <2>3
<1>6. PICK D \in Nat : D = t - w.start + delay
  BY <1>1, <1>2, <1>5
<1>7. P + 1 <= D /\ (w.scan.on => P + 2 <= D) /\ D + Pow(Rings - 1) <= P + Lap
  BY <1>1, <1>2, <1>3, <1>5, <1>6 DEF Fits
<1>8. PICK x \in Nat : x = D % Lap
  BY <1>2, <1>6, DivIs
<1>9. s \in Nat \ {0} /\ (D % Lap = 0 => s = 1) /\ (D % Lap # 0 => s = D % Lap)
  <2>1. (IF t > w.start THEN t - w.start + delay ELSE delay) = D
    BY <1>1, <1>2, <1>5, <1>6
  <2>2. s = Max({x, 1})
    BY <1>8, <2>1 DEF Stamp
  <2>3. \E y \in {x, 1} : \A z \in {x, 1} : y >= z
    BY <1>8
  <2>4. s \in {x, 1} /\ s >= x /\ s >= 1
    BY <2>2, <2>3 DEF Max
  <2> QED BY <1>8, <2>4
<1>10. /\ FitsIn(w, P, s)
       /\ TicksTo(P, s) = D - P \/ (TicksTo(P, s) = D - P + 1 /\ Digit(s, 0) # 0)
  BY <1>1, <1>6, <1>7, <1>9, StampFits DEF Calls
<1>11. InTime(a + TicksTo(P, s), at, s)
  <2>1. CASE TicksTo(P, s) = D - P
    BY <2>1, <1>1, <1>2, <1>5, <1>6 DEF InTime
  <2>2. CASE TicksTo(P, s) = D - P + 1 /\ Digit(s, 0) # 0
    BY <2>2, <1>1, <1>2, <1>5, <1>6 DEF InTime
  <2> QED BY <2>1, <2>2, <1>10
<1> QED BY <1>4, <1>9, <1>10, <1>11

\* A heap that grows leaves the rings alone.
LEMMA GrownRings ==
  ASSUME NEW w, WheelOK(w)
  PROVE  /\ IsWheel(Grown(w)) /\ Grown(w).pos = w.pos /\ Grown(w).slot = w.slot
         /\ Grown(w).start = w.start /\ Grown(w).prev = w.prev /\ Grown(w).scan = w.scan
<1>1. PICK h, f : Grown(w) = w \/ Grown(w) = [w EXCEPT !.heap = h, !.free = f]
  BY DEF Grown
<1> QED BY <1>1 DEF IsWheel, WheelOK

\* The types stay when a timer comes.
LEMMA MoreOK ==
  ASSUME NEW w, RingsOK(w), NEW id \in Nat \ {0}, NEW s \in 1..Lap - 1, NEW h \in RingIds, NEW e \in Cells,
         NEW v, v.slot = Put(w.slot, h, e, w.slot[h][e] \cup {id}), v.pos = w.pos,
         v.start = w.start, v.prev = w.prev, v.scan \in Scans,
         LiveIds(v) = LiveIds(w) \cup {id}, StampOf(v, id) = s, \A i \in LiveIds(w) : StampOf(v, i) = StampOf(w, i)
  PROVE  RingsOK(v)
<1>1. w.slot \in [RingIds -> [Cells -> SUBSET Nat]]
  BY DEF RingsOK
<1>2. w.slot[h] \in [Cells -> SUBSET Nat]
  BY <1>1
<1>3. PICK S \in SUBSET Nat : S = w.slot[h][e] \cup {id}
  BY <1>2
<1>4. v.slot \in [RingIds -> [Cells -> SUBSET Nat]]
  <2>1. v.slot = Put(w.slot, h, e, S)
    BY <1>3
  <2>2. Put(w.slot, h, e, S) \in [RingIds -> [Cells -> SUBSET Nat]]
    BY <1>1, <1>3, PutIs, ZenonT(40)
  <2> QED BY <2>1, <2>2
<1>5. LiveIds(v) \in SUBSET (Nat \ {0}) /\ \A i \in LiveIds(v) : StampOf(v, i) \in 1..Lap - 1
  BY DEF RingsOK
<1> QED BY <1>4, <1>5 DEF RingsOK

\* What schedule does to the queue.
LEMMA ScheduleFields ==
  ASSUME NEW w, WheelOK(w), NEW act \in Acts, NEW delay \in Nat, NEW t \in Nat, NEW id, id = NextId(w),
         NEW s, s = Stamp(w, delay, t), NEW h, h = RingOf(w, s), NEW e, e = Digit(s, h),
         NEW v, v = Schedule(w, act, delay, t)
  PROVE  /\ Takes(w, v, id, act) /\ IsWheel(v) /\ StampOf(v, id) = s
         /\ v.pos = w.pos /\ v.slot = Put(w.slot, h, e, w.slot[h][e] \cup {id})
         /\ v.start = w.start /\ v.prev = w.prev /\ v.scan = w.scan
<1>1. Takes(w, v, id, act)
  BY ScheduleIs
<1>2. PICK g : g = Grown(w)
  OBVIOUS
<1>3. IsWheel(g) /\ g.pos = w.pos /\ g.slot = w.slot /\ g.start = w.start /\ g.prev = w.prev /\ g.scan = w.scan
  BY <1>2, GrownRings
<1>4. PICK x : x = [stamp |-> s, act |-> act]
  OBVIOUS
<1>5. PICK p : p = [g.heap EXCEPT ![id] = x]
  OBVIOUS
<1>6. PICK f : f = Tail(g.free)
  OBVIOUS
<1>7. PICK u : u = [g EXCEPT !.heap = p, !.free = f]
  OBVIOUS
<1>8. v = Insert(u, id)
  BY <1>2, <1>4, <1>5, <1>6, <1>7 DEF Schedule, NextId
<1>9. IsWheel(u) /\ u.pos = w.pos /\ u.slot = w.slot /\ u.start = w.start /\ u.prev = w.prev /\ u.scan = w.scan /\ u.heap = p
  BY <1>3, <1>7 DEF IsWheel
<1>10. \A q : RingOf(u, q) = RingOf(w, q)
  BY <1>9, Zenon DEF RingOf
<1>11. StampOf(u, id) = s
  <2>1. v.heap = u.heap
    BY <1>8, <1>9, InsertIs DEF SameNumbers
  <2>2. WheelOK(v) /\ id \in LiveIds(v)
    BY <1>1 DEF Takes
  <2>3. WheelOK(g) /\ g.heap \in Seq(Entry) /\ v.heap \in Seq(Entry)
    BY <1>2, <2>2, GrownIs DEF Drops, WheelOK
  <2>4. id \in DOMAIN p /\ DOMAIN p = DOMAIN g.heap
    <3>1. id \in DOMAIN v.heap
      BY <2>2 DEF LiveIds
    <3>2. DOMAIN p = DOMAIN g.heap
      BY <1>5, <2>3
    <3> QED BY <3>1, <3>2, <2>1, <1>9
  <2>5. p[id] = x
    BY <2>3, <2>4, <1>5
  <2> QED BY <2>5, <1>4, <1>9 DEF StampOf
<1>12. /\ Fields(u, v, u.pos, Put(u.slot, h, e, u.slot[h][e] \cup {id}), u.start, u.prev)
       /\ v.scan = u.scan
  <2>1. h = RingOf(u, StampOf(u, id)) /\ e = Digit(StampOf(u, id), h)
    BY <1>10, <1>11
  <2> QED BY <2>1, <1>8, <1>9, InsertFields
<1>13. IsWheel(v) /\ StampOf(v, id) = s
  BY <1>11, <1>12 DEF Fields, StampOf
<1> QED BY <1>1, <1>9, <1>12, <1>13 DEF Fields

\* schedule
LEMMA ScheduleGood ==
  ASSUME NEW w, NEW t \in Nat, NEW P, Good(w, t, P), WheelOK(w), Calls(w), NEW act \in Acts, NEW delay, Fits(delay),
         NEW id, id = NextId(w), NEW v, v = Schedule(w, act, delay, t)
  PROVE  /\ Good(v, t, P) /\ SameRings(w, v) /\ StampOf(v, id) = Stamp(w, delay, t)
         /\ \A at : at = t + delay => InTime(Due(v, P, id), at, StampOf(v, id))
<1>1. /\ IsWheel(w) /\ RingsOK(w) /\ Reads(w, P) /\ OnTime(w, t, P) /\ Placed(w, P)
      /\ w.scan \in Scans /\ w.start \in Nat /\ w.prev \in Nat
  BY GoodIs
<1>2. PICK s : s = Stamp(w, delay, t)
  OBVIOUS
<1>3. FitsIn(w, P, s) /\ s \in Nat \ {0} /\ \A at : at = t + delay => InTime(Tau(w) + TicksTo(P, s), at, s)
  BY <1>2, SetFits
<1>4. PICK h : h = RingOf(w, s)
  OBVIOUS
<1>5. PICK e : e = Digit(s, h)
  OBVIOUS
<1>6. h \in RingIds /\ e \in Cells
  BY <1>3, <1>4, <1>5, RingRange, QuotNext
<1>7. /\ Takes(w, v, id, act) /\ IsWheel(v) /\ StampOf(v, id) = s
      /\ v.pos = w.pos /\ v.slot = Put(w.slot, h, e, w.slot[h][e] \cup {id})
      /\ v.start = w.start /\ v.prev = w.prev /\ v.scan = w.scan
  <2>1. delay \in Nat
    BY DEF Fits
  <2> QED BY <1>2, <1>4, <1>5, <2>1, ScheduleFields
<1>8. /\ id \in Nat \ {0} /\ id \notin LiveIds(w) /\ LiveIds(v) = LiveIds(w) \cup {id}
      /\ \A i \in LiveIds(w) : StampOf(v, i) = StampOf(w, i)
  BY <1>7 DEF Takes, StampOf
<1>9. RingsOK(v)
  <2>1. s \in 1..Lap - 1
    BY <1>3 DEF FitsIn
  <2> QED BY <2>1, <1>1, <1>6, <1>7, <1>8, MoreOK, SMTT(90)
<1>10. Fewer(v, w)
  BY <1>7, <1>8 DEF Fewer
<1>11. Reads(v, P) /\ Placed(v, P)
  <2>1. v.scan.last = w.scan.last /\ (w.scan.on => w.scan.ring = 0)
    BY <1>7 DEF Calls
  <2>2. Plus(w, v, h, e, id)
    BY <1>7 DEF Plus
  <2>3. LiveIds(v) = LiveIds(w) \cup {id} /\ StampOf(v, id) = s /\ id \in Nat \ {0} /\ id \notin LiveIds(w)
    BY <1>7, <1>8
  <2>4. RingsOK(w) /\ Reads(w, P) /\ Placed(w, P) /\ FitsIn(w, P, s) /\ h = RingOf(w, s) /\ e = Digit(s, h) /\ Fewer(v, w)
    BY <1>1, <1>3, <1>4, <1>5, <1>10
  <2> QED BY <2>1, <2>2, <2>3, <2>4, TimerIsSet
<1>12. OnTime(v, t, P) /\ Tau(v) = Tau(w)
  BY <1>1, <1>7, SameTimes
<1>13. w.scan.on => v.slot[0][w.pos[0]] \subseteq w.slot[0][w.pos[0]]
  <2>1. SUFFICES ASSUME w.scan.on
                 PROVE  v.slot[0][w.pos[0]] \subseteq w.slot[0][w.pos[0]]
    OBVIOUS
  <2>2. 0 \in RingIds /\ w.pos[0] \in Cells
    BY <1>1, OneIs DEF RingsOK
  <2>3. w.slot \in [RingIds -> [Cells -> SUBSET Nat]]
    BY <1>1 DEF RingsOK
  <2>4. w.slot[h] \in [Cells -> SUBSET Nat]
    BY <2>3, <1>6
  <2>5. PICK S \in SUBSET Nat : S = w.slot[h][e] \cup {id}
    BY <2>4, <1>6, <1>8
  <2>6. v.slot = Put(w.slot, h, e, S)
    BY <2>5, <1>7
  <2>7. \A q \in RingIds, c \in Cells : v.slot[q][c] = IF q = h /\ c = e THEN S ELSE w.slot[q][c]
    BY <2>6, <2>3, <2>4, <1>6, PutIs
  <2>8. ~(0 = h /\ w.pos[0] = e)
    BY <2>1, <1>3, <1>4, <1>5 DEF FitsIn
  <2> QED BY <2>2, <2>7, <2>8
<1>14. Due(v, P, id) = Tau(w) + TicksTo(P, s)
  BY <1>7, <1>12 DEF Due
<1>15. Good(v, t, P) /\ SameRings(w, v)
  BY <1>7, <1>9, <1>11, <1>12, <1>13 DEF Good, SameRings
<1> QED BY <1>2, <1>3, <1>7, <1>14, <1>15

\* Time passes.
LEMMA ClockGood ==
  ASSUME NEW w, NEW t \in Nat, NEW P, Good(w, t, P), t - w.prev < MaxLag
  PROVE  Good(w, t + 1, P)
<1>1. /\ w.prev \in Nat /\ w.start \in Nat /\ MaxLag \in Nat /\ OnTime(w, t, P) /\ w.scan.at \in Nat
  BY GoodIs, LagIs
<1>2. OnTime(w, t + 1, P)
  <2>1. w.prev <= t + 1 /\ t + 1 <= w.prev + MaxLag /\ w.start <= t + 1
    BY <1>1 DEF OnTime
  <2>2. w.scan.on => w.scan.at <= t + 1
    BY <1>1 DEF OnTime
  <2> QED BY <1>1, <2>1, <2>2 DEF OnTime
<1> QED BY <1>2 DEF Good

\* While an owner runs the scan has passed the numbers before its timer.
LEMMA VisitedIs ==
  ASSUME NEW w, RingsOK(w), w.scan.on, Firing(w), NEW i \in w.slot[w.scan.ring][w.pos[w.scan.ring]], i <= w.scan.last
  PROVE  i \in Visited(w)
<1>1. PICK d : d = FiringId(w)
  OBVIOUS
<1>2. w.scan.last \in Nat /\ w.scan.ring \in RingIds /\ w.pos[w.scan.ring] \in Cells
  BY ScanIs
<1>3. w.slot[w.scan.ring][w.pos[w.scan.ring]] \in SUBSET Nat
  BY <1>2 DEF RingsOK
<1>4. Ahead(w) \in SUBSET Nat /\ Ahead(w) # {}
  BY <1>3 DEF Ahead, Firing
<1>5. d \in Nat
  BY <1>1, <1>4, MinIs DEF FiringId
<1>6. \E x \in {w.scan.last, d} : \A y \in {w.scan.last, d} : x >= y
  BY <1>2, <1>5
<1>7. PICK m : m = Max({w.scan.last} \cup {d})
  OBVIOUS
<1>8. m \in {w.scan.last, d} /\ m >= w.scan.last
  <2>1. {w.scan.last} \cup {d} = {w.scan.last, d}
    OBVIOUS
  <2> QED BY <1>6, <1>7, <2>1 DEF Max
<1>9. i <= m
  BY <1>2, <1>3, <1>5, <1>8
<1>10. Visited(w) = {id \in w.slot[w.scan.ring][w.pos[w.scan.ring]] : id <= m}
  BY <1>1, <1>7, Zenon DEF Visited
<1> QED BY <1>9, <1>10

\* Whenever an owner runs, and between scans, the timers are in place.
LEMMA GoodPlaces ==
  ASSUME NEW w, NEW t, NEW P, Good(w, t, P), w.scan.on => Firing(w)
  PROVE  InPlace(w)
<1>1. RingsOK(w) /\ Placed(w, P) /\ \A i \in LiveIds(w) : StampOf(w, i) \in Nat
  BY GoodIs
<1>2. w.scan.on => w.scan.ring = 0
  BY DEF Firing
<1>3. ASSUME NEW r \in RingIds, NEW c \in Cells, Under(w, r, c), NEW i \in w.slot[r][c], Passed(w, i)
      PROVE  i \in Visited(w)
  BY <1>1, <1>3, VisitedIs DEF Under, Passed
<1>4. ASSUME NEW i \in LiveIds(w) \ Visited(w), NEW s, s = StampOf(w, i), NEW h, h = RingOf(w, s)
      PROVE  Places(w, i) = {<<h, Digit(s, h)>>}
  <2>1. Stands(w, i)
    BY <1>1, <1>2, NoneAwaits
  <2>2. h \in RingIds /\ Digit(s, h) \in Cells
    BY <1>1, <1>4, HomeIs
  <2>3. ASSUME NEW r \in RingIds, NEW c \in Cells
        PROVE  i \in w.slot[r][c] <=> r = h /\ c = Digit(s, h)
    <3>1. IF Under(w, r, c) /\ Passed(w, i) THEN ~Home(w, i, r, c) ELSE i \in w.slot[r][c] <=> Home(w, i, r, c)
      BY <2>1 DEF Stands
    <3>2. Home(w, i, r, c) <=> r = h /\ c = Digit(s, h)
      BY <1>4 DEF Home
    <3> QED BY <3>1, <3>2, <1>3, <1>4
  <2>4. \A at \in RingIds \X Cells : i \in w.slot[at[1]][at[2]] <=> at = <<h, Digit(s, h)>>
    BY <2>3
  <2>5. <<h, Digit(s, h)>> \in RingIds \X Cells
    BY <2>2
  <2> QED BY <2>4, <2>5 DEF Places
<1>5. ASSUME NEW r \in RingIds, NEW c \in Cells
      PROVE  w.slot[r][c] \subseteq LiveIds(w) \cup Visited(w)
  BY <1>1, <1>3 DEF Placed
<1> QED BY <1>4, <1>5, Zenon DEF InPlace, StampOf

\* The queue of a reactor that has run idle.
LEMMA IdleGood ==
  ASSUME NEW w, w = IdleWheel(Uptime)
  PROVE  Good(w, Uptime, Uptime)
<1>1. Uptime \in 0..Lap - 1 /\ Uptime \in Nat /\ MaxLag \in Nat \ {0}
  BY DCAssumption, LapIs, LagIs, SMTT(90)
<1>2. WheelOK(w) /\ LiveIds(w) = {}
  BY IdleWheelOK
<1>3. PICK x : x = [r \in RingIds |-> Digit(Uptime, r)]
  OBVIOUS
<1>4. /\ w.pos = x /\ w.start = 0 /\ w.prev = Uptime /\ w.scan = NoScan
      /\ w.slot = [r \in RingIds |-> [c \in Cells |-> {}]]
  BY <1>3 DEF IdleWheel, NewWheel
<1>5. NoScan \in Scans /\ ~NoScan.on
  BY SizeIs DEF NoScan, Scans, RingIds
<1>6. x \in [RingIds -> Cells] /\ \A r \in RingIds : x[r] = Digit(Uptime, r)
  BY <1>1, <1>3, QuotNext
<1>7. RingsOK(w)
  BY <1>1, <1>2, <1>4, <1>5, <1>6 DEF RingsOK
<1>8. AtRest(w, Uptime) /\ Fresh(w)
  BY <1>1, <1>2, <1>4, <1>5, <1>6 DEF AtRest, Fresh
<1>9. Reads(w, Uptime) /\ Placed(w, Uptime)
  BY <1>7, <1>8, RestIsPlaced
<1>10. OnTime(w, Uptime, Uptime)
  BY <1>1, <1>4, <1>5 DEF OnTime, Tau
<1> QED BY <1>2, <1>7, <1>9, <1>10 DEF Good, WheelOK

-----------------------------------------------------------------------------
(* What client, connections and timers know of each other                  *)

Hows == {"response", "timeout", "exception", "released", "cancelled", "refused"}

\* A parameter is handed back once at most.
Gots == {<<>>} \cup {<<how>> : how \in Hows}

Conn == [state : {"IDLE", "CONNECTING", "CONNECTED"}, id : Nat, timer : Nat,
         count : Nat, sock : {"none", "opening", "open"}, asked : Nat]

Param == [exc : Nat, at : Nat, conn : Conns \cup {NoConn}, got : Gots]

Client(s, w, cs, q, i, ps) ==
  [wheel |-> w, conns |-> cs, pool |-> q, unmade |-> s.unmade, ids |-> i, param |-> ps,
   hup |-> s.hup, down |-> s.down]

IsClient(s) == s = Client(s, s.wheel, s.conns, s.pool, s.ids, s.param)

Typed(s) ==
  /\ IsClient(s)
  /\ WheelOK(s.wheel)
  /\ s.conns \in [Conns -> Conn]
  /\ s.pool \in Seq(Conns) /\ s.unmade \in SUBSET Conns
  /\ s.ids \in SUBSET Nat
  /\ s.param \in [Params -> Param]

\* The numbers of requests, and what a timer is for.
Requests(w)  == {id \in LiveIds(w) : w.heap[id].act[1] = "request"}
Owner(w, id) == w.heap[id].act[2]

\* Connections not in use are as new, and there once.
Spare(s) == ToSet(s.pool) \cup s.unmade

Pooled(s) ==
  /\ IsInjective(s.pool)
  /\ ToSet(s.pool) \cap s.unmade = {}
  /\ \A c \in Spare(s) : s.conns[c] = IdleConn

\* In the middle of an event, X are timers whose owner no longer counts on
\* them, Y connections that are about to be closed, and Z parameters that are
\* about to be handed back.

\* A connection's timer and the connection know each other.
TimersMatch(s, X) ==
  /\ X \subseteq LiveIds(s.wheel)
  /\ \A id \in (LiveIds(s.wheel) \ Requests(s.wheel)) \ X : s.conns[Owner(s.wheel, id)].timer = id
  /\ \A c \in Conns : s.conns[c].timer # 0 =>
       /\ s.conns[c].timer \in (LiveIds(s.wheel) \ Requests(s.wheel)) \ X
       /\ Owner(s.wheel, s.conns[c].timer) = c

\* An open request and its timer know each other.
RequestsMatch(s, X, Z) ==
  /\ \A id \in Requests(s.wheel) \ X :
       LET p == Owner(s.wheel, id)
       IN p \in Params \ Z /\ IsOpen(s, p) /\ s.param[p].exc = id
  /\ \A p \in Params \ Z : IsOpen(s, p) =>
       s.param[p].exc \in Requests(s.wheel) \ X /\ Owner(s.wheel, s.param[p].exc) = p
  /\ \A p \in Z : p \in Params /\ IsOpen(s, p) /\ s.param[p].exc \notin Requests(s.wheel) \ X

\* The connection of an open request works for it.
ConnsMatch(s, Y, Z) ==
  /\ \A p \in Params \ Z : IsOpen(s, p) /\ s.param[p].conn # NoConn =>
       s.conns[s.param[p].conn].id = s.param[p].exc
  /\ \A c \in Conns \ Y : s.conns[c].asked \in {0, s.conns[c].id}
  /\ \A c \in Y : c \in Conns /\ c \notin Spare(s) /\ s.conns[c].id = 0

Sound(s, X, Y, Z) ==
  Typed(s) /\ Pooled(s) /\ TimersMatch(s, X) /\ RequestsMatch(s, X, Z) /\ ConnsMatch(s, Y, Z)

\* While the client is up, a connection that works for a number works for an
\* open request; and timer_ids_ holds the numbers of the requests.
Up(s, X) ==
  /\ s.ids = Requests(s.wheel) \ X
  /\ \/ s.down
     \/ \A c \in Conns : s.conns[c].id # 0 =>
          \E p \in Params : IsOpen(s, p) /\ s.param[p].exc = s.conns[c].id /\ s.param[p].conn = c

\* A timer keeps its entry.
Carried(s, t, i) == i \in LiveIds(s.wheel) /\ t.wheel.heap[i] = s.wheel.heap[i]

\* A timer is to fall due in time.
Prompt(w, P, i, at) == InTime(Due(w, P, i), at, StampOf(w, i))

\* A request posted now, and its timer.
JustSet(t, P, i) ==
  LET q == Owner(t.wheel, i)
  IN  q \in Params /\ Posted(t, q) /\ t.param[q].at = now /\ Prompt(t.wheel, P, i, now + Delay[q])

\* The queue is good at this time, while no owner runs or one that ring 0 calls.
Ready(w, P) == now \in Nat /\ Good(w, now, P) /\ Calls(w)

\* The queue is left as good as it was: the timers of X stay, the scan stands
\* where it stood, and a request's timer is an old one or has just been set.
Timing(X, s, t) ==
  /\ \A i \in X : i \in LiveIds(s.wheel) => i \in LiveIds(t.wheel) /\ t.wheel.heap[i] = s.wheel.heap[i]
  /\ \A P : Ready(s.wheel, P) =>
       /\ Ready(t.wheel, P) /\ SameRings(s.wheel, t.wheel)
       /\ \A i \in Requests(t.wheel) : Carried(s, t, i) \/ JustSet(t, P, i)

\* A parameter once posted keeps its number, its time and its answer, which is
\* a timeout only for a timer of X.
Lasts(X, s, t) ==
  /\ \A p \in Params : Posted(s, p) =>
       Posted(t, p) /\ t.param[p].at = s.param[p].at /\ t.param[p].exc = s.param[p].exc
  /\ \A p \in Params : s.param[p].got # <<>> => t.param[p].got = s.param[p].got
  /\ \A p \in Params : t.param[p].got = <<"timeout">> => s.param[p].got = <<"timeout">> \/ t.param[p].exc \in X

\* Nothing is posted, or what is posted is posted now.
Calm(s, t) == \A p \in Params : ~Posted(s, p) => ~Posted(t, p) /\ t.param[p].at = s.param[p].at

Bold(s, t) ==
  \A p \in Params : ~Posted(s, p) =>
     IF Posted(t, p) THEN t.param[p].at = now /\ t.param[p].got \in {<<>>, <<"refused">>}
     ELSE t.param[p].at = s.param[p].at

Goes(X, s, t)  == Timing(X, s, t) /\ Lasts(X, s, t) /\ Calm(s, t)
Roams(X, s, t) == Timing(X, s, t) /\ Lasts(X, s, t) /\ Bold(s, t)

\* A connection counts on or from 0.
Counts(s, t) == \A c \in Conns : t.conns[c].count \in {0, s.conns[c].count}

\* What a call leaves alone, and a call that may post a request.
Aside(s, t)    == t.hup = s.hup /\ t.down = s.down /\ t.wheel.scan = s.wheel.scan /\ Counts(s, t)
Frame(X, s, t) == Aside(s, t) /\ Goes(X, s, t)
Wide(X, s, t)  == Aside(s, t) /\ Roams(X, s, t)

\* The queue of one state and of the next, when it is the same.
LEMMA SameTiming ==
  ASSUME NEW X, NEW s, NEW t, t.wheel = s.wheel
  PROVE  Timing(X, s, t)
<1>1. \A P : Ready(s.wheel, P) =>
        /\ Ready(t.wheel, P) /\ SameRings(s.wheel, t.wheel)
        /\ \A i \in Requests(t.wheel) : Carried(s, t, i)
  BY DEF SameRings, Carried, Requests
<1> QED
  BY <1>1 DEF Timing

\* The parameters stay the same, and last.
LEMMA StillGoes ==
  ASSUME NEW s, NEW t, t.param = s.param
  PROVE  \A X : Timing(X, s, t) => Goes(X, s, t)
<1>1. \A p \in Params : Posted(t, p) <=> Posted(s, p)
  BY DEF Posted
<1>2. Calm(s, t) /\ \A X : Lasts(X, s, t)
  BY <1>1 DEF Calm, Lasts
<1> QED
  BY <1>2 DEF Goes

\* What stays the same lasts.
LEMMA SameGoes ==
  ASSUME NEW s, NEW t, t.wheel = s.wheel, t.param = s.param
  PROVE  \A X : Goes(X, s, t)
<1>1. \A X : Timing(X, s, t)
  BY SameTiming
<1> QED
  BY <1>1, StillGoes

\* A timer is cancelled, which no one in X is.
LEMMA DropTiming ==
  ASSUME NEW X, NEW s, WheelOK(s.wheel), NEW t, NEW id, id \notin X \/ id \notin LiveIds(s.wheel),
         t.wheel = Cancel(s.wheel, id)
  PROVE  Timing(X, s, t)
<1>1. Drops(s.wheel, t.wheel, {id})
  BY CancelIs
<1>2. LiveIds(t.wheel) = LiveIds(s.wheel) \ {id} /\ \A i \in LiveIds(t.wheel) : t.wheel.heap[i] = s.wheel.heap[i]
  BY <1>1 DEF Drops
<1>3. \A i \in Requests(t.wheel) : Carried(s, t, i)
  BY <1>2 DEF Carried, Requests
<1>4. ASSUME NEW P, Ready(s.wheel, P)
      PROVE  Ready(t.wheel, P) /\ SameRings(s.wheel, t.wheel)
  <2>1. now \in Nat /\ Good(s.wheel, now, P) /\ Calls(s.wheel)
    BY <1>4 DEF Ready
  <2>2. Good(t.wheel, now, P) /\ SameRings(s.wheel, t.wheel)
    BY <2>1, CancelGood
  <2>3. Calls(t.wheel)
    BY <2>1, <2>2 DEF Calls, SameRings
  <2> QED
    BY <2>1, <2>2, <2>3 DEF Ready
<1> QED
  BY <1>2, <1>3, <1>4 DEF Timing

\* The count of a connection after two calls.
LEMMA AsideTwice ==
  ASSUME NEW s, NEW u, NEW t, Aside(s, u), Aside(u, t)
  PROVE  Aside(s, t)
BY DEF Aside, Counts

\* Two calls last, one after the other.
LEMMA LastsTwice ==
  ASSUME NEW X, NEW s, NEW u, NEW t, Lasts(X, s, u), Lasts(X, u, t)
  PROVE  Lasts(X, s, t)
<1>1. ASSUME NEW p \in Params, Posted(s, p)
      PROVE  Posted(t, p) /\ t.param[p].at = s.param[p].at /\ t.param[p].exc = s.param[p].exc
  BY <1>1 DEF Lasts
<1>2. ASSUME NEW p \in Params, s.param[p].got # <<>>
      PROVE  t.param[p].got = s.param[p].got
  BY <1>2 DEF Lasts
<1>3. ASSUME NEW p \in Params, t.param[p].got = <<"timeout">>
      PROVE  s.param[p].got = <<"timeout">> \/ t.param[p].exc \in X
  <2>1. CASE u.param[p].got = <<"timeout">>
    <3>1. Posted(u, p)
      BY <2>1 DEF Posted
    <3>2. t.param[p].exc = u.param[p].exc
      BY <3>1 DEF Lasts
    <3> QED
      BY <2>1, <3>2 DEF Lasts
  <2> QED
    BY <1>3, <2>1 DEF Lasts
<1> QED
  BY <1>1, <1>2, <1>3 DEF Lasts

\* So does the queue.
LEMMA TimingTwice ==
  ASSUME NEW X, NEW s, NEW u, NEW t, Timing(X, s, u), Timing(X, u, t), Lasts(X, u, t)
  PROVE  Timing(X, s, t)
<1>1. ASSUME NEW i \in X, i \in LiveIds(s.wheel)
      PROVE  i \in LiveIds(t.wheel) /\ t.wheel.heap[i] = s.wheel.heap[i]
  BY <1>1 DEF Timing
<1>2. ASSUME NEW P, Ready(s.wheel, P)
      PROVE  /\ Ready(t.wheel, P) /\ SameRings(s.wheel, t.wheel)
             /\ \A i \in Requests(t.wheel) : Carried(s, t, i) \/ JustSet(t, P, i)
  <2>1. /\ Ready(u.wheel, P) /\ SameRings(s.wheel, u.wheel)
        /\ \A i \in Requests(u.wheel) : Carried(s, u, i) \/ JustSet(u, P, i)
    BY <1>2 DEF Timing
  <2>3. /\ Ready(t.wheel, P) /\ SameRings(u.wheel, t.wheel)
        /\ \A i \in Requests(t.wheel) : Carried(u, t, i) \/ JustSet(t, P, i)
    BY <2>1 DEF Timing
  <2>4. SameRings(s.wheel, t.wheel)
    BY <2>1, <2>3 DEF SameRings
  <2>5. ASSUME NEW i \in Requests(t.wheel), Carried(u, t, i), JustSet(u, P, i)
        PROVE  JustSet(t, P, i)
    <3>1. t.wheel.heap[i] = u.wheel.heap[i]
      BY <2>5 DEF Carried
    <3>2. Owner(t.wheel, i) = Owner(u.wheel, i) /\ StampOf(t.wheel, i) = StampOf(u.wheel, i)
      BY <3>1 DEF Owner, StampOf
    <3>3. Tau(t.wheel) = Tau(u.wheel)
      BY <2>3 DEF SameRings, Tau
    <3>4. Due(t.wheel, P, i) = Due(u.wheel, P, i)
      BY <3>2, <3>3 DEF Due
    <3>5. PICK q : q = Owner(u.wheel, i)
      OBVIOUS
    <3>6. q \in Params /\ Posted(u, q) /\ u.param[q].at = now /\ Prompt(u.wheel, P, i, now + Delay[q])
      BY <2>5, <3>5 DEF JustSet
    <3>7. Posted(t, q) /\ t.param[q].at = now
      BY <3>6 DEF Lasts
    <3>8. Prompt(t.wheel, P, i, now + Delay[q])
      BY <3>2, <3>4, <3>6 DEF Prompt
    <3> QED
      BY <3>2, <3>5, <3>6, <3>7, <3>8 DEF JustSet
  <2>6. ASSUME NEW i \in Requests(t.wheel), Carried(u, t, i)
        PROVE  Carried(s, t, i) \/ JustSet(t, P, i)
    <3>1. i \in Requests(u.wheel)
      BY <2>6 DEF Carried, Requests
    <3>2. CASE Carried(s, u, i)
      BY <2>6, <3>2 DEF Carried
    <3> QED
      BY <2>1, <2>5, <2>6, <3>1, <3>2
  <2> QED
    BY <2>3, <2>4, <2>6
<1> QED
  BY <1>1, <1>2 DEF Timing

\* Two calls, one after the other.
LEMMA GoesTwice ==
  ASSUME NEW X, NEW s, NEW u, NEW t, Goes(X, s, u), Goes(X, u, t)
  PROVE  Goes(X, s, t)
<1>1. Timing(X, s, t) /\ Lasts(X, s, t)
  BY LastsTwice, TimingTwice DEF Goes
<1>2. Calm(s, t)
  BY DEF Goes, Calm
<1> QED
  BY <1>1, <1>2 DEF Goes

\* A call that posts nothing, then one that may.
LEMMA RoamsAfter ==
  ASSUME NEW X, NEW s, NEW u, NEW t, Goes(X, s, u), Roams(X, u, t)
  PROVE  Roams(X, s, t)
<1>1. Timing(X, s, t) /\ Lasts(X, s, t)
  BY LastsTwice, TimingTwice DEF Goes, Roams
<1>2. ASSUME NEW p \in Params, ~Posted(s, p)
      PROVE  IF Posted(t, p) THEN t.param[p].at = now /\ t.param[p].got \in {<<>>, <<"refused">>}
             ELSE t.param[p].at = s.param[p].at
  <2>1. ~Posted(u, p) /\ u.param[p].at = s.param[p].at
    BY <1>2 DEF Goes, Calm
  <2> QED
    BY <2>1 DEF Roams, Bold
<1> QED
  BY <1>1, <1>2 DEF Roams, Bold

\* A call that may post, then one that leaves the parameters alone.
LEMMA RoamsStill ==
  ASSUME NEW X, NEW s, NEW u, NEW t, Roams(X, s, u), Goes(X, u, t), t.param = u.param
  PROVE  Roams(X, s, t)
<1>1. Timing(X, s, t) /\ Lasts(X, s, t)
  BY LastsTwice, TimingTwice DEF Goes, Roams
<1>2. \A p \in Params : Posted(t, p) <=> Posted(u, p)
  BY DEF Posted
<1>3. Bold(s, t)
  BY <1>2 DEF Roams, Bold
<1> QED
  BY <1>1, <1>3 DEF Roams

\* A call that posts nothing is one that may.
LEMMA RoamsIs ==
  ASSUME NEW X, NEW s, NEW t, Goes(X, s, t)
  PROVE  Roams(X, s, t)
<1>1. Bold(s, t)
  BY DEF Goes, Calm, Bold
<1> QED
  BY <1>1 DEF Goes, Roams

\* The same of calls and what they leave alone.
LEMMA FrameTwice ==
  ASSUME NEW X, NEW s, NEW u, NEW t, Frame(X, s, u), Frame(X, u, t)
  PROVE  Frame(X, s, t)
BY AsideTwice, GoesTwice DEF Frame

\* A call that may post a request, after one that does not.
LEMMA WideAfter ==
  ASSUME NEW X, NEW s, NEW u, NEW t, Frame(X, s, u), Wide(X, u, t)
  PROVE  Wide(X, s, t)
BY AsideTwice, RoamsAfter DEF Frame, Wide

\* And before one.
LEMMA WideStill ==
  ASSUME NEW X, NEW s, NEW u, NEW t, Wide(X, s, u), Frame(X, u, t), t.param = u.param
  PROVE  Wide(X, s, t)
BY AsideTwice, RoamsStill DEF Frame, Wide

\* A call that posts nothing is one that may.
LEMMA WideIs ==
  ASSUME NEW X, NEW s, NEW t, Frame(X, s, t)
  PROVE  Wide(X, s, t)
BY RoamsIs DEF Frame, Wide

\* A call that posts one request, which is then open or refused.
LEMMA WideOne ==
  ASSUME NEW X, NEW s, NEW u, NEW t, Wide(X, s, u), Frame(X, u, t), NEW p \in Params,
         \A q \in Params : q # p => u.param[q] = s.param[q],
         Posted(u, p), u.param[p].at = now, t.param[p].got \in {<<>>, <<"refused">>}
  PROVE  Wide(X, s, t)
<1>1. Aside(s, t) /\ Timing(X, s, t) /\ Lasts(X, s, t)
  BY AsideTwice, LastsTwice, TimingTwice DEF Wide, Frame, Goes, Roams
<1>2. ASSUME NEW q \in Params, ~Posted(s, q)
      PROVE  IF Posted(t, q) THEN t.param[q].at = now /\ t.param[q].got \in {<<>>, <<"refused">>}
             ELSE t.param[q].at = s.param[q].at
  <2>1. CASE q = p
    BY <2>1 DEF Frame, Goes, Lasts
  <2>2. CASE q # p
    <3>1. ~Posted(u, q) /\ u.param[q].at = s.param[q].at
      BY <1>2, <2>2 DEF Posted
    <3> QED
      BY <3>1 DEF Frame, Goes, Calm
  <2> QED
    BY <2>1, <2>2
<1> QED
  BY <1>1, <1>2 DEF Wide, Roams, Bold

-----------------------------------------------------------------------------
(* The client's small steps                                                *)

\* An element joins a sequence.
LEMMA AppendIs ==
  ASSUME NEW S, NEW q \in Seq(S), NEW x \in S
  PROVE  /\ Append(q, x) \in Seq(S) /\ ToSet(Append(q, x)) = ToSet(q) \cup {x}
         /\ IsInjective(q) /\ x \notin ToSet(q) => IsInjective(Append(q, x))
<1>1. PICK m \in Nat : m = Len(q) /\ DOMAIN q = 1..m
  OBVIOUS
<1>2. PICK f : f = Append(q, x)
  OBVIOUS
<1>3. f \in Seq(S) /\ DOMAIN f = 1..m + 1 /\ f[m + 1] = x /\ \A i \in 1..m : f[i] = q[i]
  BY <1>1, <1>2
<1>4. ToSet(f) = ToSet(q) \cup {x}
  BY <1>1, <1>3 DEF ToSet
<1>5. ASSUME IsInjective(q), x \notin ToSet(q)
      PROVE  IsInjective(f)
  <2>1. \A i \in 1..m + 1 : i \in 1..m \/ i = m + 1
    OBVIOUS
  <2>2. \A i, j \in 1..m : q[i] = q[j] => i = j
    BY <1>1, <1>5 DEF IsInjective
  <2>3. \A i \in 1..m : q[i] # x
    BY <1>1, <1>5 DEF ToSet
  <2> QED
    BY <1>3, <2>1, <2>2, <2>3 DEF IsInjective
<1> QED
  BY <1>2, <1>3, <1>4, <1>5

\* The timers of a wheel have numbers other than 0, and what they are for.
LEMMA LiveIs ==
  ASSUME NEW w, WheelOK(w)
  PROVE  /\ LiveIds(w) \in SUBSET (Nat \ {0}) /\ Requests(w) \subseteq LiveIds(w)
         /\ \A id \in Requests(w) : Owner(w, id) \in Params
         /\ \A id \in LiveIds(w) \ Requests(w) : Owner(w, id) \in Conns
<1>1. LiveIds(w) \in SUBSET (Nat \ {0})
  BY DEF WheelOK, LiveIds
<1>2. ASSUME NEW id \in LiveIds(w)
      PROVE  IF w.heap[id].act[1] = "request" THEN Owner(w, id) \in Params ELSE Owner(w, id) \in Conns
  <2>1. w.heap[id].act \in Acts
    BY DEF WheelOK
  <2> QED
    BY <2>1 DEF Acts, Owner
<1> QED
  BY <1>1, <1>2 DEF Requests

\* Dropped timers, by kind.
LEMMA DropsIs ==
  ASSUME NEW w, NEW v, NEW D, Drops(w, v, D)
  PROVE  /\ LiveIds(v) = LiveIds(w) \ D /\ Requests(v) = Requests(w) \ D
         /\ \A id \in LiveIds(v) : Owner(v, id) = Owner(w, id)
BY DEF Drops, Requests, Owner

\* A timer more, by kind.
LEMMA TakesIs ==
  ASSUME NEW w, NEW v, NEW id, NEW kind, NEW o, Takes(w, v, id, <<kind, o>>)
  PROVE  /\ LiveIds(v) = LiveIds(w) \cup {id}
         /\ Requests(v) = IF kind = "request" THEN Requests(w) \cup {id} ELSE Requests(w)
         /\ Owner(v, id) = o
         /\ \A i \in LiveIds(w) : Owner(v, i) = Owner(w, i)
<1>1. v.heap[id].act[1] = kind /\ v.heap[id].act[2] = o
  BY DEF Takes
<1>2. \A i \in LiveIds(w) : v.heap[i].act[1] = w.heap[i].act[1] /\ v.heap[i].act[2] = w.heap[i].act[2]
  BY DEF Takes
<1>3. LiveIds(v) = LiveIds(w) \cup {id} /\ id \notin LiveIds(w)
  BY DEF Takes
<1> QED
  BY <1>1, <1>2, <1>3 DEF Requests, Owner

\* A number that nobody counts on any more is cancelled.
LEMMA UntimeKeeps ==
  ASSUME NEW s, NEW X, NEW Y, NEW Z, NEW id, id \notin X, Sound(s, X \cup {id}, Y, Z)
  PROVE  /\ Sound(Untimed(s, id), X, Y, Z) /\ Frame(X, s, Untimed(s, id))
         /\ Up(s, X \cup {id}) => Up(Untimed(s, id), X)
         /\ Untimed(s, id).param = s.param /\ Untimed(s, id).conns = s.conns
         /\ Spare(Untimed(s, id)) = Spare(s) /\ Untimed(s, id).ids = s.ids
         /\ Requests(Untimed(s, id).wheel) = Requests(s.wheel) \ {id}
<1>1. PICK t : t = Untimed(s, id)
  OBVIOUS
<1>2. PICK v : v = Cancel(s.wheel, id)
  OBVIOUS
<1>3. t = Client(s, v, s.conns, s.pool, s.ids, s.param)
  BY <1>1, <1>2 DEF Untimed, Sound, Typed, IsClient, Client
<1>4. /\ t.wheel = v /\ t.conns = s.conns /\ t.pool = s.pool /\ t.unmade = s.unmade
      /\ t.ids = s.ids /\ t.param = s.param /\ t.hup = s.hup /\ t.down = s.down
  BY <1>3 DEF Client
<1>5. IsClient(t)
  BY <1>3, <1>4 DEF IsClient, Client
<1>6. Drops(s.wheel, v, {id}) /\ WheelOK(v) /\ v.scan = s.wheel.scan
  BY <1>2, CancelIs DEF Sound, Typed, Drops
<1>7. /\ LiveIds(v) = LiveIds(s.wheel) \ {id} /\ Requests(v) = Requests(s.wheel) \ {id}
      /\ \A i \in LiveIds(v) : Owner(v, i) = Owner(s.wheel, i)
  BY <1>6, DropsIs
<1>8. Requests(v) \subseteq LiveIds(v)
  BY DEF Requests
<1>9. Typed(t) /\ Pooled(t)
  BY <1>4, <1>5, <1>6 DEF Sound, Typed, Pooled, Spare
<1>10. TimersMatch(t, X)
  BY <1>4, <1>7 DEF Sound, TimersMatch
<1>11. RequestsMatch(t, X, Z)
  BY <1>4, <1>7, <1>8 DEF Sound, RequestsMatch, IsOpen
<1>12. ConnsMatch(t, Y, Z)
  BY <1>4 DEF Sound, ConnsMatch, IsOpen, Spare
<1>13. Up(s, X \cup {id}) => Up(t, X)
  BY <1>4, <1>7 DEF Up, IsOpen
<1>14. Timing(X, s, t)
  BY <1>2, <1>4, DropTiming DEF Sound, Typed
<1>15. Frame(X, s, t)
  BY <1>4, <1>6, <1>14, StillGoes DEF Frame, Aside, Counts
<1> QED
  BY <1>1, <1>4, <1>7, <1>9, <1>10, <1>11, <1>12, <1>13, <1>15 DEF Sound, Spare

\* ShortConnection::reset of a connection that works for no one.
LEMMA ResetKeeps ==
  ASSUME NEW s, NEW X, NEW Y, NEW Z, Sound(s, X, Y, Z), NEW c \in Conns, c \notin Spare(s),
         \A p \in Params \ Z : IsOpen(s, p) => s.param[p].conn # c
  PROVE  /\ Sound(Reset(s, c), X, Y \ {c}, Z) /\ Frame(X, s, Reset(s, c))
         /\ Up(s, X) => Up(Reset(s, c), X)
         /\ Reset(s, c).param = s.param
         /\ Reset(s, c).conns = [s.conns EXCEPT ![c] = IdleConn]
         /\ Spare(Reset(s, c)) = Spare(s) /\ Reset(s, c).ids = s.ids
         /\ Requests(Reset(s, c).wheel) = Requests(s.wheel)
<1>1. PICK t : t = Reset(s, c)
  OBVIOUS
<1>2. PICK id : id = s.conns[c].timer
  OBVIOUS
<1>3. PICK v : v = Cancel(s.wheel, id)
  OBVIOUS
<1>4. PICK cs : cs = [s.conns EXCEPT ![c] = IdleConn]
  OBVIOUS
<1>5. t = Client(s, v, cs, s.pool, s.ids, s.param)
  BY <1>1, <1>2, <1>3, <1>4 DEF Reset, Untimed, Sound, Typed, IsClient, Client
<1>6. /\ t.wheel = v /\ t.conns = cs /\ t.pool = s.pool /\ t.unmade = s.unmade
      /\ t.ids = s.ids /\ t.param = s.param /\ t.hup = s.hup /\ t.down = s.down
  BY <1>5 DEF Client
<1>7. IsClient(t)
  BY <1>5, <1>6 DEF IsClient, Client
<1>8. IdleConn \in Conn /\ IdleConn.timer = 0 /\ IdleConn.id = 0 /\ IdleConn.asked = 0
  BY DEF IdleConn, Conn
<1>9. cs \in [Conns -> Conn] /\ cs[c] = IdleConn /\ \A d \in Conns : d # c => cs[d] = s.conns[d]
  BY <1>4, <1>8 DEF Sound, Typed
<1>10. Drops(s.wheel, v, {id}) /\ WheelOK(v) /\ v.scan = s.wheel.scan
  BY <1>3, CancelIs DEF Sound, Typed, Drops
<1>11. id # 0 => id \in (LiveIds(s.wheel) \ Requests(s.wheel)) \ X /\ Owner(s.wheel, id) = c
  BY <1>2 DEF Sound, TimersMatch
<1>12. 0 \notin LiveIds(s.wheel) /\ Requests(s.wheel) \subseteq LiveIds(s.wheel)
  BY LiveIs DEF Sound, Typed
<1>13. /\ LiveIds(v) = LiveIds(s.wheel) \ {id} /\ Requests(v) = Requests(s.wheel)
       /\ \A i \in LiveIds(v) : Owner(v, i) = Owner(s.wheel, i)
  BY <1>10, <1>11, <1>12, DropsIs
<1>14. Requests(v) \subseteq LiveIds(v)
  BY DEF Requests
<1>15. Spare(t) = Spare(s)
  BY <1>6 DEF Spare
<1>16. Typed(t)
  BY <1>6, <1>7, <1>9, <1>10 DEF Sound, Typed
<1>17. Pooled(t)
  <2>1. \A d \in Spare(s) : d # c /\ d \in Conns /\ s.conns[d] = IdleConn
    BY DEF Sound, Typed, Pooled, Spare, ToSet
  <2>2. \A d \in Spare(t) : t.conns[d] = IdleConn
    BY <1>6, <1>9, <1>15, <2>1
  <2>3. IsInjective(t.pool) /\ ToSet(t.pool) \cap t.unmade = {}
    BY <1>6 DEF Sound, Pooled
  <2> QED
    BY <2>2, <2>3 DEF Pooled
<1>18. TimersMatch(t, X)
  <2>1. X \subseteq LiveIds(v)
    BY <1>11, <1>12, <1>13 DEF Sound, TimersMatch
  <2>2. ASSUME NEW i \in (LiveIds(v) \ Requests(v)) \ X
        PROVE  cs[Owner(v, i)].timer = i
    <3>1. i \in (LiveIds(s.wheel) \ Requests(s.wheel)) \ X /\ i # id /\ Owner(v, i) = Owner(s.wheel, i)
      BY <1>13, <2>2
    <3>2. s.conns[Owner(v, i)].timer = i
      BY <3>1 DEF Sound, TimersMatch
    <3>3. Owner(v, i) # c /\ Owner(v, i) \in Conns
      BY <1>2, <3>1, <3>2, LiveIs DEF Sound, Typed
    <3> QED
      BY <1>9, <3>2, <3>3
  <2>3. ASSUME NEW d \in Conns, cs[d].timer # 0
        PROVE  /\ cs[d].timer \in (LiveIds(v) \ Requests(v)) \ X
               /\ Owner(v, cs[d].timer) = d
    <3>1. d # c /\ cs[d] = s.conns[d]
      BY <1>8, <1>9, <2>3
    <3>2. /\ cs[d].timer \in (LiveIds(s.wheel) \ Requests(s.wheel)) \ X
          /\ Owner(s.wheel, cs[d].timer) = d
      BY <2>3, <3>1 DEF Sound, TimersMatch
    <3>3. cs[d].timer # id
      BY <1>11, <2>3, <3>1, <3>2
    <3> QED
      BY <1>13, <3>2, <3>3
  <2> QED
    BY <1>6, <2>1, <2>2, <2>3 DEF TimersMatch
<1>19. RequestsMatch(t, X, Z)
  BY <1>6, <1>13, <1>14 DEF Sound, RequestsMatch, IsOpen
<1>20. ConnsMatch(t, Y \ {c}, Z)
  <2>1. \A p \in Params \ Z : IsOpen(t, p) /\ t.param[p].conn # NoConn => t.conns[t.param[p].conn].id = t.param[p].exc
    <3> TAKE p \in Params \ Z
    <3> HAVE IsOpen(t, p) /\ t.param[p].conn # NoConn
    <3>1. IsOpen(s, p) /\ s.param[p].conn # c /\ s.param[p].conn \in Conns
      BY <1>6 DEF IsOpen, Sound, Typed, Param
    <3> QED
      BY <1>6, <1>9, <3>1 DEF Sound, ConnsMatch
  <2>2. \A d \in Conns \ (Y \ {c}) : t.conns[d].asked \in {0, t.conns[d].id}
    BY <1>6, <1>8, <1>9 DEF Sound, ConnsMatch
  <2>3. \A d \in Y \ {c} : d \in Conns /\ d \notin Spare(t) /\ t.conns[d].id = 0
    BY <1>6, <1>9, <1>15 DEF Sound, ConnsMatch
  <2> QED
    BY <2>1, <2>2, <2>3 DEF ConnsMatch
<1>21. Up(s, X) => Up(t, X)
  BY <1>6, <1>8, <1>9, <1>13 DEF Up, IsOpen
<1>22. Timing(X, s, t)
  BY <1>3, <1>6, <1>11, <1>12, DropTiming DEF Sound, Typed
<1>23. \A d \in Conns : t.conns[d].count \in {0, s.conns[d].count}
  BY <1>6, <1>9 DEF IdleConn
<1>24. Frame(X, s, t)
  BY <1>6, <1>10, <1>22, <1>23, StillGoes DEF Frame, Aside, Counts
<1> QED
  BY <1>1, <1>4, <1>6, <1>13, <1>15, <1>16, <1>17, <1>18, <1>19, <1>20, <1>21, <1>24 DEF Sound

-----------------------------------------------------------------------------
(* One connection changes                                                  *)

With(s, c, k) == [s EXCEPT !.conns[c] = k]

\* What stays when a connection in use becomes k.
Rewired(s, t, c, k) ==
  /\ Typed(t) /\ Pooled(t) /\ t.hup = s.hup /\ t.down = s.down
  /\ t.conns[c] = k /\ \A d \in Conns \ {c} : t.conns[d] = s.conns[d]
  /\ t.wheel = s.wheel /\ t.pool = s.pool /\ t.ids = s.ids /\ t.param = s.param
  /\ Spare(t) = Spare(s)

\* A connection takes another state.
LEMMA WithIs ==
  ASSUME NEW s, Typed(s), Pooled(s), NEW c \in Conns, c \notin Spare(s), NEW k \in Conn
  PROVE  Rewired(s, With(s, c, k), c, k)
<1>1. PICK t : t = With(s, c, k)
  OBVIOUS
<1>2. PICK cs : cs = [s.conns EXCEPT ![c] = k]
  OBVIOUS
<1>3. t = Client(s, s.wheel, cs, s.pool, s.ids, s.param)
  BY <1>1, <1>2 DEF With, Typed, IsClient, Client
<1>4. /\ t.wheel = s.wheel /\ t.conns = cs /\ t.pool = s.pool /\ t.unmade = s.unmade
      /\ t.ids = s.ids /\ t.param = s.param /\ t.hup = s.hup /\ t.down = s.down
  BY <1>3 DEF Client
<1>5. IsClient(t)
  BY <1>3, <1>4 DEF IsClient, Client
<1>6. cs \in [Conns -> Conn] /\ cs[c] = k /\ \A d \in Conns : d # c => cs[d] = s.conns[d]
  BY <1>2 DEF Typed
<1>7. Typed(t) /\ Spare(t) = Spare(s)
  BY <1>4, <1>5, <1>6 DEF Typed, Spare
<1>8. Pooled(t)
  <2>1. \A d \in Spare(s) : d # c /\ d \in Conns /\ s.conns[d] = IdleConn
    BY DEF Typed, Pooled, Spare, ToSet
  <2>2. \A d \in Spare(t) : t.conns[d] = IdleConn
    BY <1>4, <1>6, <1>7, <2>1
  <2> QED
    BY <1>4, <2>2 DEF Pooled
<1> QED
  BY <1>1, <1>4, <1>6, <1>7, <1>8 DEF Rewired

\* It counts on or from 0.
LEMMA RewiredGoes ==
  ASSUME NEW s, NEW t, NEW c \in Conns, NEW k, Rewired(s, t, c, k), k.count \in {0, s.conns[c].count}
  PROVE  \A V : Frame(V, s, t)
<1>1. \A d \in Conns : t.conns[d].count \in {0, s.conns[d].count}
  BY DEF Rewired
<1> QED
  BY <1>1, SameGoes DEF Rewired, Frame, Aside, Counts

\* Its state, socket and count.
LEMMA TouchKeeps ==
  ASSUME NEW s, NEW X, NEW Y, NEW Z, Sound(s, X, Y, Z), NEW c \in Conns, c \notin Spare(s), NEW k \in Conn,
         k.id = s.conns[c].id, k.timer = s.conns[c].timer, k.asked \in {0, k.id}
  PROVE  /\ Sound(With(s, c, k), X, Y \ {c}, Z) /\ Rewired(s, With(s, c, k), c, k)
         /\ \A V : Up(s, V) => Up(With(s, c, k), V)
<1>1. PICK t : t = With(s, c, k)
  OBVIOUS
<1>2. Rewired(s, t, c, k)
  BY <1>1, WithIs DEF Sound
<1>3. \A d \in Conns : t.conns[d].timer = s.conns[d].timer /\ t.conns[d].id = s.conns[d].id
  BY <1>2 DEF Rewired
<1>4. TimersMatch(t, X)
  <2>1. \A i \in LiveIds(s.wheel) \ Requests(s.wheel) : Owner(s.wheel, i) \in Conns
    BY LiveIs DEF Sound, Typed
  <2> QED
    BY <1>2, <1>3, <2>1 DEF Sound, TimersMatch, Rewired
<1>5. RequestsMatch(t, X, Z)
  BY <1>2 DEF Sound, RequestsMatch, IsOpen, Rewired
<1>6. ConnsMatch(t, Y \ {c}, Z)
  <2>1. \A p \in Params : s.param[p].conn \in Conns \cup {NoConn}
    BY DEF Sound, Typed, Param
  <2>2. \A p \in Params \ Z : IsOpen(t, p) /\ t.param[p].conn # NoConn => t.conns[t.param[p].conn].id = t.param[p].exc
    BY <1>2, <1>3, <2>1 DEF Sound, ConnsMatch, IsOpen, Rewired
  <2>3. \A d \in Conns \ (Y \ {c}) : t.conns[d].asked \in {0, t.conns[d].id}
    BY <1>2 DEF Sound, ConnsMatch, Rewired
  <2>4. \A d \in Y \ {c} : d \in Conns /\ d \notin Spare(t) /\ t.conns[d].id = 0
    BY <1>2 DEF Sound, ConnsMatch, Rewired
  <2> QED
    BY <2>2, <2>3, <2>4 DEF ConnsMatch
<1>7. \A V : Up(s, V) => Up(t, V)
  BY <1>2, <1>3 DEF Up, IsOpen, Rewired
<1> QED
  BY <1>1, <1>2, <1>4, <1>5, <1>6, <1>7 DEF Sound, Rewired

\* Its timer has come: the connection no longer counts on it.
LEMMA FireKeeps ==
  ASSUME NEW s, NEW X, NEW Y, NEW Z, Sound(s, X, Y, Z), NEW c \in Conns, s.conns[c].timer # 0, NEW k \in Conn,
         k.id = s.conns[c].id, k.timer = 0, k.asked = s.conns[c].asked
  PROVE  /\ Sound(With(s, c, k), X \cup {s.conns[c].timer}, Y, Z) /\ Rewired(s, With(s, c, k), c, k)
         /\ \A V : s.conns[c].timer \notin Requests(s.wheel) /\ Up(s, V) =>
              Up(With(s, c, k), V \cup {s.conns[c].timer})
<1>1. PICK t : t = With(s, c, k)
  OBVIOUS
<1>2. c \notin Spare(s)
  BY DEF Sound, Pooled, IdleConn
<1>3. Rewired(s, t, c, k)
  BY <1>1, <1>2, WithIs DEF Sound
<1>4. PICK id : id = s.conns[c].timer
  OBVIOUS
<1>5. id \in (LiveIds(s.wheel) \ Requests(s.wheel)) \ X /\ Owner(s.wheel, id) = c
  BY <1>4 DEF Sound, TimersMatch
<1>6. TimersMatch(t, X \cup {id})
  <2>1. \A i \in LiveIds(s.wheel) \ Requests(s.wheel) : Owner(s.wheel, i) \in Conns
    BY LiveIs DEF Sound, Typed
  <2>2. X \cup {id} \subseteq LiveIds(t.wheel)
    BY <1>3, <1>5 DEF Sound, TimersMatch, Rewired
  <2>3. ASSUME NEW i \in (LiveIds(t.wheel) \ Requests(t.wheel)) \ (X \cup {id})
        PROVE  t.conns[Owner(t.wheel, i)].timer = i
    <3>1. i \in (LiveIds(s.wheel) \ Requests(s.wheel)) \ X /\ i # id
      BY <1>3, <2>3 DEF Rewired
    <3>2. s.conns[Owner(s.wheel, i)].timer = i
      BY <3>1 DEF Sound, TimersMatch
    <3>3. Owner(s.wheel, i) \in Conns \ {c}
      BY <1>4, <2>1, <3>1, <3>2
    <3> QED
      BY <1>3, <3>2, <3>3 DEF Rewired
  <2>4. ASSUME NEW d \in Conns, t.conns[d].timer # 0
        PROVE  /\ t.conns[d].timer \in (LiveIds(t.wheel) \ Requests(t.wheel)) \ (X \cup {id})
               /\ Owner(t.wheel, t.conns[d].timer) = d
    <3>1. d # c /\ t.conns[d] = s.conns[d]
      BY <1>3, <2>4 DEF Rewired
    <3>2. /\ s.conns[d].timer \in (LiveIds(s.wheel) \ Requests(s.wheel)) \ X
          /\ Owner(s.wheel, s.conns[d].timer) = d
      BY <2>4, <3>1 DEF Sound, TimersMatch
    <3> QED
      BY <1>3, <1>5, <3>1, <3>2 DEF Rewired
  <2> QED
    BY <2>2, <2>3, <2>4 DEF TimersMatch
<1>7. RequestsMatch(t, X \cup {id}, Z)
  BY <1>3, <1>5 DEF Sound, RequestsMatch, IsOpen, Rewired
<1>8. ConnsMatch(t, Y, Z)
  <2>1. \A p \in Params : s.param[p].conn \in Conns \cup {NoConn}
    BY DEF Sound, Typed, Param
  <2>2. \A d \in Conns : t.conns[d].id = s.conns[d].id /\ t.conns[d].asked = s.conns[d].asked
    BY <1>3 DEF Rewired
  <2>3. Y \subseteq Conns
    BY DEF Sound, ConnsMatch
  <2> QED
    BY <1>3, <2>1, <2>2, <2>3 DEF Sound, ConnsMatch, IsOpen, Rewired
<1>9. \A V : Up(s, V) => Up(t, V \cup {id})
  <2>1. \A d \in Conns : t.conns[d].id = s.conns[d].id
    BY <1>3 DEF Rewired
  <2> QED
    BY <1>3, <1>5, <2>1 DEF Up, IsOpen, Rewired
<1> QED
  BY <1>1, <1>3, <1>4, <1>6, <1>7, <1>8, <1>9 DEF Sound, Rewired

\* It works for nobody any more.
Unneeded(s, c, Z) == \A p \in Params \ Z : IsOpen(s, p) => s.param[p].conn # c

Forgotten(s, c) == [s EXCEPT !.conns[c].id = 0]

\* A connection that no open request counts on forgets its number.
LEMMA ForgetKeeps ==
  ASSUME NEW s, NEW X, NEW Y, NEW Z, Sound(s, X, Y, Z), NEW c \in Conns, c \notin Spare(s), Unneeded(s, c, Z)
  PROVE  /\ Sound(Forgotten(s, c), X, Y \cup {c}, Z)
         /\ Rewired(s, Forgotten(s, c), c, [s.conns[c] EXCEPT !.id = 0])
         /\ \A V : Up(s, V) => Up(Forgotten(s, c), V)
         /\ \A V : Frame(V, s, Forgotten(s, c))
<1>1. PICK t : t = Forgotten(s, c)
  OBVIOUS
<1>2. PICK k : k = [s.conns[c] EXCEPT !.id = 0]
  OBVIOUS
<1>3. k \in Conn /\ k.id = 0 /\ k.timer = s.conns[c].timer /\ k.count = s.conns[c].count
  BY <1>2, ZenonT(90) DEF Sound, Typed, Conn
<1>4. t = With(s, c, k)
  BY <1>1, <1>2 DEF Forgotten, With
<1>5. Rewired(s, t, c, k)
  BY <1>3, <1>4, WithIs DEF Sound
<1>6. TimersMatch(t, X)
  <2>1. \A i \in LiveIds(s.wheel) \ Requests(s.wheel) : Owner(s.wheel, i) \in Conns
    BY LiveIs DEF Sound, Typed
  <2>2. \A d \in Conns : t.conns[d].timer = s.conns[d].timer
    BY <1>3, <1>5 DEF Rewired
  <2> QED
    BY <1>5, <2>1, <2>2 DEF Sound, TimersMatch, Rewired
<1>7. RequestsMatch(t, X, Z)
  BY <1>5 DEF Sound, RequestsMatch, IsOpen, Rewired
<1>8. ConnsMatch(t, Y \cup {c}, Z)
  <2>1. \A p \in Params : s.param[p].conn \in Conns \cup {NoConn}
    BY DEF Sound, Typed, Param
  <2>2. \A p \in Params \ Z : IsOpen(t, p) /\ t.param[p].conn # NoConn => t.conns[t.param[p].conn].id = t.param[p].exc
    BY <1>5, <2>1 DEF Sound, ConnsMatch, IsOpen, Rewired, Unneeded
  <2>3. \A d \in Conns \ (Y \cup {c}) : t.conns[d].asked \in {0, t.conns[d].id}
    BY <1>5 DEF Sound, ConnsMatch, Rewired
  <2>4. \A d \in Y \cup {c} : d \in Conns /\ d \notin Spare(t) /\ t.conns[d].id = 0
    BY <1>3, <1>5 DEF Sound, ConnsMatch, Rewired
  <2> QED
    BY <2>2, <2>3, <2>4 DEF ConnsMatch
<1>9. \A V : Up(s, V) => Up(t, V)
  BY <1>3, <1>5 DEF Up, IsOpen, Rewired
<1>10. \A V : Frame(V, s, t)
  BY <1>3, <1>5, RewiredGoes
<1> QED
  BY <1>1, <1>2, <1>5, <1>6, <1>7, <1>8, <1>9, <1>10 DEF Sound, Rewired

\* push_obj
LEMMA PushKeeps ==
  ASSUME NEW s, NEW X, NEW Y, NEW Z, Sound(s, X, Y, Z), NEW c \in Conns, c \notin Spare(s), c \notin Y,
         s.conns[c] = IdleConn
  PROVE  /\ Sound(Pushed(s, c), X, Y, Z) /\ \A V : Frame(V, s, Pushed(s, c))
         /\ \A V : Up(s, V) => Up(Pushed(s, c), V)
         /\ Pushed(s, c).param = s.param /\ Pushed(s, c).conns = s.conns /\ Pushed(s, c).wheel = s.wheel
         /\ Spare(Pushed(s, c)) = Spare(s) \cup {c} /\ Pushed(s, c).ids = s.ids
<1>1. PICK t : t = Pushed(s, c)
  OBVIOUS
<1>2. PICK q : q = Append(s.pool, c)
  OBVIOUS
<1>3. t = Client(s, s.wheel, s.conns, q, s.ids, s.param)
  BY <1>1, <1>2 DEF Pushed, Sound, Typed, IsClient, Client
<1>4. /\ t.wheel = s.wheel /\ t.conns = s.conns /\ t.pool = q /\ t.unmade = s.unmade
      /\ t.ids = s.ids /\ t.param = s.param /\ t.hup = s.hup /\ t.down = s.down
  BY <1>3 DEF Client
<1>5. IsClient(t)
  BY <1>3, <1>4 DEF IsClient, Client
<1>6. s.pool \in Seq(Conns) /\ c \notin ToSet(s.pool) /\ c \notin s.unmade
  BY DEF Sound, Typed, Spare
<1>7. q \in Seq(Conns) /\ ToSet(q) = ToSet(s.pool) \cup {c} /\ IsInjective(q)
  BY <1>2, <1>6, AppendIs DEF Sound, Pooled
<1>8. Typed(t)
  BY <1>4, <1>5, <1>7 DEF Sound, Typed
<1>9. Spare(t) = Spare(s) \cup {c}
  BY <1>4, <1>7 DEF Spare
<1>10. Pooled(t)
  BY <1>4, <1>6, <1>7, <1>9 DEF Sound, Pooled
<1>11. TimersMatch(t, X) /\ RequestsMatch(t, X, Z)
  BY <1>4 DEF Sound, TimersMatch, RequestsMatch, IsOpen
<1>12. ConnsMatch(t, Y, Z)
  BY <1>4, <1>9 DEF Sound, ConnsMatch, IsOpen
<1>13. \A V : Up(s, V) => Up(t, V)
  BY <1>4 DEF Up, IsOpen
<1>14. \A V : Frame(V, s, t)
  BY <1>4, SameGoes DEF Frame, Aside, Counts
<1> QED
  BY <1>1, <1>4, <1>8, <1>9, <1>10, <1>11, <1>12, <1>13, <1>14 DEF Sound

\* The close of a connection touches no other and no request.
Closed(X, s, t, c) ==
  /\ Frame(X, s, t) /\ t.param = s.param
  /\ \A d \in Conns \ {c} : t.conns[d] = s.conns[d]
  /\ t.conns[c].id \in {0, s.conns[c].id}
  /\ Spare(t) \subseteq Spare(s) \cup {c}
  /\ t.ids = s.ids /\ Requests(t.wheel) = Requests(s.wheel)

\* handle_close
LEMMA ShutKeeps ==
  ASSUME NEW s, NEW X, NEW Y, NEW Z, Sound(s, X, Y, Z), NEW c \in Conns, c \notin Spare(s),
         s.conns[c].state # "IDLE" => Unneeded(s, c, Z)
  PROVE  /\ Sound(Shut(s, c), X, Y \ {c}, Z) /\ Closed(X, s, Shut(s, c), c)
         /\ Up(s, X) => Up(Shut(s, c), X)
<1>1. CASE s.conns[c].state # "IDLE"
  <2>1. PICK u : u = Reset(s, c)
    OBVIOUS
  <2>2. \A p \in Params \ Z : IsOpen(s, p) => s.param[p].conn # c
    BY <1>1 DEF Unneeded
  <2>3. /\ Sound(u, X, Y \ {c}, Z) /\ Frame(X, s, u) /\ (Up(s, X) => Up(u, X)) /\ u.param = s.param
        /\ u.conns = [s.conns EXCEPT ![c] = IdleConn] /\ Spare(u) = Spare(s)
        /\ u.ids = s.ids /\ Requests(u.wheel) = Requests(s.wheel)
    BY <2>1, <2>2, ResetKeeps
  <2>4. u.conns[c] = IdleConn /\ \A d \in Conns \ {c} : u.conns[d] = s.conns[d]
    BY <2>3 DEF Sound, Typed
  <2>5. PICK t : t = Pushed(u, c)
    OBVIOUS
  <2>6. /\ Sound(t, X, Y \ {c}, Z) /\ Frame(X, u, t) /\ (Up(u, X) => Up(t, X)) /\ t.param = u.param
        /\ t.conns = u.conns /\ Spare(t) = Spare(u) \cup {c} /\ t.ids = u.ids /\ t.wheel = u.wheel
    <3>1. PICK W : W = Y \ {c}
      OBVIOUS
    <3>2. Sound(u, X, W, Z) /\ c \notin Spare(u) /\ c \notin W /\ u.conns[c] = IdleConn
      BY <2>3, <2>4, <3>1
    <3> QED
      BY <2>5, <3>1, <3>2, PushKeeps
  <2>7. Shut(s, c) = t
    BY <1>1, <2>1, <2>5 DEF Shut
  <2>8. Closed(X, s, t, c)
    <3>1. Frame(X, s, t)
      BY <2>3, <2>6, FrameTwice
    <3> QED
      BY <2>3, <2>4, <2>6, <3>1 DEF Closed, IdleConn
  <2> QED
    BY <2>3, <2>6, <2>7, <2>8
<1>2. CASE s.conns[c].state = "IDLE"
  <2>1. PICK k : k = [s.conns[c] EXCEPT !.sock = "none", !.asked = 0]
    OBVIOUS
  <2>2. k \in Conn /\ k.id = s.conns[c].id /\ k.timer = s.conns[c].timer /\ k.asked = 0
    BY <2>1, ZenonT(90) DEF Sound, Typed, Conn
  <2>3. PICK t : t = With(s, c, k)
    OBVIOUS
  <2>4. Shut(s, c) = t
    <3>1. c \in DOMAIN s.conns
      BY DEF Sound, Typed
    <3>2. [[s EXCEPT !.conns[c].sock = "none"] EXCEPT !.conns[c].asked = 0] = With(s, c, k)
      BY <2>1, <3>1 DEF With, Sound, Typed, IsClient, Client, Conn
    <3> QED
      BY <1>2, <2>3, <3>2 DEF Shut
  <2>5. /\ Sound(t, X, Y \ {c}, Z) /\ Rewired(s, t, c, k)
        /\ \A V : Up(s, V) => Up(t, V)
    BY <2>2, <2>3, TouchKeeps
  <2>6. Closed(X, s, t, c)
    <3>1. k.count = s.conns[c].count
      BY <2>1 DEF Sound, Typed, Conn
    <3>2. Frame(X, s, t)
      BY <2>5, <3>1, RewiredGoes
    <3> QED
      BY <2>2, <2>5, <3>2 DEF Closed, Rewired
  <2> QED
    BY <2>4, <2>5, <2>6
<1> QED
  BY <1>1, <1>2

-----------------------------------------------------------------------------
(* One request changes                                                     *)

\* What stays when a parameter becomes r.
Restated(s, t, p, r) ==
  /\ Typed(t) /\ Pooled(t) /\ t.hup = s.hup /\ t.down = s.down
  /\ t.param[p] = r /\ \A q \in Params \ {p} : t.param[q] = s.param[q]
  /\ t.wheel = s.wheel /\ t.pool = s.pool /\ t.ids = s.ids /\ t.conns = s.conns
  /\ Spare(t) = Spare(s)

\* A parameter takes another state.
LEMMA ParamIs ==
  ASSUME NEW s, Typed(s), Pooled(s), NEW p \in Params, NEW r \in Param
  PROVE  Restated(s, [s EXCEPT !.param[p] = r], p, r)
<1>1. PICK t : t = [s EXCEPT !.param[p] = r]
  OBVIOUS
<1>2. PICK ps : ps = [s.param EXCEPT ![p] = r]
  OBVIOUS
<1>3. t = Client(s, s.wheel, s.conns, s.pool, s.ids, ps)
  BY <1>1, <1>2 DEF Typed, IsClient, Client
<1>4. /\ t.wheel = s.wheel /\ t.conns = s.conns /\ t.pool = s.pool /\ t.unmade = s.unmade
      /\ t.ids = s.ids /\ t.param = ps /\ t.hup = s.hup /\ t.down = s.down
  BY <1>3 DEF Client
<1>5. IsClient(t)
  BY <1>3, <1>4 DEF IsClient, Client
<1>6. ps \in [Params -> Param] /\ ps[p] = r /\ \A q \in Params : q # p => ps[q] = s.param[q]
  BY <1>2 DEF Typed
<1>7. Typed(t) /\ Spare(t) = Spare(s) /\ Pooled(t)
  BY <1>4, <1>5, <1>6 DEF Typed, Spare, Pooled
<1> QED
  BY <1>1, <1>4, <1>6, <1>7 DEF Restated

\* Its connection is not what lasts.
LEMMA RestatedGoes ==
  ASSUME NEW s, NEW t, NEW p \in Params, NEW r, Restated(s, t, p, r),
         r.exc = s.param[p].exc, r.at = s.param[p].at, r.got = s.param[p].got
  PROVE  \A V : Frame(V, s, t)
<1>1. \A q \in Params : /\ t.param[q].exc = s.param[q].exc /\ t.param[q].at = s.param[q].at
                        /\ t.param[q].got = s.param[q].got
  BY DEF Restated
<1>2. \A q \in Params : Posted(t, q) <=> Posted(s, q)
  BY <1>1 DEF Posted
<1>3. \A c \in Conns : t.conns[c].count = s.conns[c].count
  BY DEF Restated
<1>4. Calm(s, t) /\ \A V : Lasts(V, s, t)
  BY <1>1, <1>2 DEF Calm, Lasts
<1>5. \A V : Timing(V, s, t)
  BY SameTiming DEF Restated
<1> QED
  BY <1>3, <1>4, <1>5 DEF Restated, Frame, Aside, Counts, Goes

\* An open request, its timer and its connection.
Open(s, X, p, id) ==
  /\ id = s.param[p].exc
  /\ id \in Requests(s.wheel) \ X /\ id # 0 /\ Owner(s.wheel, id) = p
  /\ s.param[p].conn # NoConn =>
       /\ s.param[p].conn \in Conns \ Spare(s) /\ s.conns[s.param[p].conn].id = id
       /\ Unneeded(s, s.param[p].conn, {p})

\* What the invariant says of an open request.
LEMMA OpenIs ==
  ASSUME NEW s, NEW X, NEW Y, Sound(s, X, Y, {}), NEW p \in Params, IsOpen(s, p), NEW id, id = s.param[p].exc
  PROVE  Open(s, X, p, id) /\ s.param[p].conn \notin Y
<1>1. id \in Requests(s.wheel) \ X /\ Owner(s.wheel, id) = p
  BY DEF Sound, RequestsMatch
<1>2. id # 0
  BY <1>1, LiveIs DEF Sound, Typed
<1>3. PICK c : c = s.param[p].conn
  OBVIOUS
<1>4. c \in Conns \cup {NoConn}
  BY <1>3 DEF Sound, Typed, Param
<1>5. c # NoConn => s.conns[c].id = id
  BY <1>3 DEF Sound, ConnsMatch
<1>6. c # NoConn => c \notin Spare(s)
  BY <1>2, <1>5 DEF Sound, Pooled, IdleConn
<1>7. c # NoConn => Unneeded(s, c, {p})
  <2>1. SUFFICES ASSUME c # NoConn, NEW q \in Params \ {p}, IsOpen(s, q), s.param[q].conn = c
                 PROVE  FALSE
    BY DEF Unneeded
  <2>2. s.param[q].exc = id
    BY <1>5, <2>1 DEF Sound, ConnsMatch
  <2>3. Owner(s.wheel, id) = q
    BY <2>1, <2>2 DEF Sound, RequestsMatch
  <2> QED
    BY <1>1, <2>1, <2>3
<1>8. c \notin Y
  BY <1>2, <1>4, <1>5, DCAssumption DEF Sound, ConnsMatch
<1> QED
  BY <1>1, <1>2, <1>3, <1>4, <1>5, <1>6, <1>7, <1>8 DEF Open

\* The request is about to end.
LEMMA LimboKeeps ==
  ASSUME NEW s, NEW X, NEW Y, Sound(s, X, Y, {}), NEW p \in Params, IsOpen(s, p), NEW id, id = s.param[p].exc
  PROVE  Sound(s, X \cup {id}, Y, {p})
<1>1. id \in Requests(s.wheel) \ X /\ Owner(s.wheel, id) = p
  BY DEF Sound, RequestsMatch
<1>2. TimersMatch(s, X \cup {id})
  BY <1>1 DEF Sound, TimersMatch, Requests
<1>3. RequestsMatch(s, X \cup {id}, {p})
  BY <1>1 DEF Sound, RequestsMatch, IsOpen
<1>4. ConnsMatch(s, Y, {p})
  BY DEF Sound, ConnsMatch
<1> QED
  BY <1>2, <1>3, <1>4 DEF Sound

\* timer_ids_
LEMMA NumbersKeep ==
  ASSUME NEW s, NEW X, NEW Y, NEW Z, Sound(s, X, Y, Z), NEW I \in SUBSET Nat, NEW t, t = [s EXCEPT !.ids = I]
  PROVE  /\ Sound(t, X, Y, Z) /\ \A V : Frame(V, s, t)
         /\ t.param = s.param /\ t.conns = s.conns /\ t.wheel = s.wheel /\ t.ids = I /\ Spare(t) = Spare(s) /\ t.down = s.down
<1>1. t = Client(s, s.wheel, s.conns, s.pool, I, s.param)
  BY DEF Sound, Typed, IsClient, Client
<1>2. /\ t.wheel = s.wheel /\ t.conns = s.conns /\ t.pool = s.pool /\ t.unmade = s.unmade
      /\ t.ids = I /\ t.param = s.param /\ t.hup = s.hup /\ t.down = s.down
  BY <1>1 DEF Client
<1>3. IsClient(t)
  BY <1>1, <1>2 DEF IsClient, Client
<1>4. Typed(t) /\ Pooled(t)
  BY <1>2, <1>3 DEF Sound, Typed, Pooled, Spare
<1>5. TimersMatch(t, X) /\ RequestsMatch(t, X, Z) /\ ConnsMatch(t, Y, Z)
  BY <1>2 DEF Sound, TimersMatch, RequestsMatch, ConnsMatch, IsOpen, Spare
<1>6. \A V : Frame(V, s, t)
  BY <1>2, SameGoes DEF Frame, Aside, Counts
<1> QED
  BY <1>2, <1>4, <1>5, <1>6 DEF Sound, Spare

\* ERASE_REQUEST
LEMMA EraseKeeps ==
  ASSUME NEW s, NEW X, NEW Y, NEW Z, Sound(s, X, Y, Z), NEW id
  PROVE  /\ Sound(Erased(s, id), X, Y, Z) /\ \A V : Frame(V, s, Erased(s, id))
         /\ \A V : Up(s, V) => Up(Erased(s, id), V \cup {id})
         /\ Erased(s, id).param = s.param /\ Erased(s, id).conns = s.conns
         /\ Erased(s, id).wheel = s.wheel /\ Spare(Erased(s, id)) = Spare(s)
<1>1. PICK I : I = s.ids \ {id}
  OBVIOUS
<1>2. PICK t : t = Erased(s, id)
  OBVIOUS
<1>3. I \in SUBSET Nat /\ t = [s EXCEPT !.ids = I]
  BY <1>1, <1>2 DEF Erased, Sound, Typed
<1>4. /\ Sound(t, X, Y, Z) /\ (\A V : Frame(V, s, t)) /\ t.down = s.down
      /\ t.param = s.param /\ t.conns = s.conns /\ t.wheel = s.wheel /\ t.ids = I /\ Spare(t) = Spare(s)
  BY <1>3, NumbersKeep, SMTT(90)
<1>5. \A V : Up(s, V) => Up(t, V \cup {id})
  BY <1>1, <1>4 DEF Up, IsOpen
<1> QED
  BY <1>2, <1>4, <1>5

\* A connection that no longer works for the request that is about to end.
Parting(s, p) == s.down \/ s.param[p].conn = NoConn \/ s.conns[s.param[p].conn].id = 0

\* conn_ = NULL
LEMMA UnlinkKeeps ==
  ASSUME NEW s, NEW X, NEW Y, NEW p \in Params, Sound(s, X, Y, {p}),
         NEW t, t = [s EXCEPT !.param[p].conn = NoConn]
  PROVE  /\ Sound(t, X, Y, {p}) /\ Restated(s, t, p, [s.param[p] EXCEPT !.conn = NoConn])
         /\ Parting(s, p) /\ Up(s, X) => Up(t, X)
         /\ \A V : Frame(V, s, t)
<1>1. PICK r : r = [s.param[p] EXCEPT !.conn = NoConn]
  OBVIOUS
<1>2. r \in Param /\ r.exc = s.param[p].exc /\ r.got = s.param[p].got /\ r.at = s.param[p].at /\ r.conn = NoConn
  BY <1>1 DEF Sound, Typed, Param
<1>3. t = [s EXCEPT !.param[p] = r]
  BY <1>1
<1>4. Restated(s, t, p, r)
  BY <1>2, <1>3, ParamIs DEF Sound
<1>5. \A q \in Params : IsOpen(t, q) <=> IsOpen(s, q)
  BY <1>2, <1>4 DEF Restated, IsOpen
<1>6. \A q \in Params : t.param[q].exc = s.param[q].exc
  BY <1>2, <1>4 DEF Restated
<1>7. TimersMatch(t, X)
  BY <1>4 DEF Restated, Sound, TimersMatch
<1>8. RequestsMatch(t, X, {p})
  BY <1>4, <1>5, <1>6 DEF Restated, Sound, RequestsMatch
<1>9. ConnsMatch(t, Y, {p})
  BY <1>4, <1>5, <1>6, SMTT(90) DEF Restated, Sound, ConnsMatch
<1>10. Parting(s, p) /\ Up(s, X) => Up(t, X)
  <2>1. \A q \in Params : q # p => t.param[q].conn = s.param[q].conn
    BY <1>4 DEF Restated
  <2>2. NoConn \notin Conns
    BY DCAssumption
  <2> QED
    BY <1>4, <1>5, <1>6, <2>1, <2>2 DEF Restated, Up, Parting
<1>11. \A V : Frame(V, s, t)
  BY <1>2, <1>4, RestatedGoes
<1> QED
  BY <1>1, <1>4, <1>7, <1>8, <1>9, <1>10, <1>11 DEF Sound, Restated

\* The parameter is handed back.
LEMMA HandKeeps ==
  ASSUME NEW s, NEW X, NEW Y, NEW p \in Params, Sound(s, X, Y, {p}), NEW how \in Hows,
         how = "timeout" => s.param[p].exc \in X
  PROVE  /\ Sound(HandedBack(s, p, how), X, Y, {}) /\ Frame(X, s, HandedBack(s, p, how))
         /\ Parting(s, p) /\ Up(s, X) => Up(HandedBack(s, p, how), X)
         /\ HandedBack(s, p, how).conns = s.conns /\ Spare(HandedBack(s, p, how)) = Spare(s)
         /\ HandedBack(s, p, how).wheel = s.wheel /\ HandedBack(s, p, how).ids = s.ids
         /\ HandedBack(s, p, how).param[p].got = <<how>>
<1>1. PICK t : t = HandedBack(s, p, how)
  OBVIOUS
<1>2. PICK g : g = Append(s.param[p].got, how)
  OBVIOUS
<1>3. PICK r : r = [s.param[p] EXCEPT !.got = g]
  OBVIOUS
<1>4. s.param[p] \in Param /\ s.param[p].got = <<>>
  BY DEF Sound, Typed, RequestsMatch, IsOpen
<1>5. g \in Gots /\ g # <<>> /\ g = <<how>>
  <2>1. g = <<how>>
    BY <1>2, <1>4
  <2> QED
    BY <2>1 DEF Gots
<1>6. r \in Param /\ r.got # <<>> /\ r.got = g /\ r.exc = s.param[p].exc /\ r.at = s.param[p].at
  BY <1>3, <1>4, <1>5 DEF Param
<1>7. t = [s EXCEPT !.param[p] = r]
  BY <1>1, <1>2, <1>3 DEF HandedBack
<1>8. Restated(s, t, p, r)
  BY <1>6, <1>7, ParamIs DEF Sound
<1>9. ~IsOpen(t, p) /\ \A q \in Params \ {p} : (IsOpen(t, q) <=> IsOpen(s, q)) /\ t.param[q] = s.param[q]
  BY <1>6, <1>8 DEF Restated, IsOpen
<1>10. TimersMatch(t, X)
  BY <1>8 DEF Restated, Sound, TimersMatch
<1>11. RequestsMatch(t, X, {})
  BY <1>8, <1>9 DEF Restated, Sound, RequestsMatch
<1>12. ConnsMatch(t, Y, {})
  BY <1>8, <1>9 DEF Restated, Sound, ConnsMatch
<1>13. Parting(s, p) /\ Up(s, X) => Up(t, X)
  <2>1. NoConn \notin Conns
    BY DCAssumption
  <2> QED
    BY <1>8, <1>9, <2>1 DEF Restated, Up, Parting
<1>14. Frame(X, s, t)
  <2>1. Posted(s, p) /\ Posted(t, p)
    BY <1>6, <1>8 DEF Sound, RequestsMatch, IsOpen, Posted, Restated
  <2>2. \A q \in Params \ {p} : t.param[q] = s.param[q] /\ (Posted(t, q) <=> Posted(s, q))
    BY <1>8 DEF Restated, Posted
  <2>3. t.param[p].exc = s.param[p].exc /\ t.param[p].at = s.param[p].at /\ t.param[p].got = <<how>>
    BY <1>5, <1>6, <1>8 DEF Restated
  <2>4. t.param[p].got = <<"timeout">> => t.param[p].exc \in X
    BY <2>3
  <2>5. \A d \in Conns : t.conns[d].count \in {0, s.conns[d].count}
    BY <1>8 DEF Restated
  <2>6. Lasts(X, s, t)
    BY <1>4, <2>1, <2>2, <2>3, <2>4 DEF Lasts
  <2>7. Calm(s, t)
    BY <2>1, <2>2 DEF Calm
  <2>8. Timing(X, s, t)
    BY <1>8, SameTiming DEF Restated
  <2> QED
    BY <1>8, <2>5, <2>6, <2>7, <2>8 DEF Restated, Frame, Aside, Counts, Goes
<1>15. t.param[p].got = <<how>>
  BY <1>5, <1>6, <1>8 DEF Restated
<1> QED
  BY <1>15, <1>1, <1>8, <1>10, <1>11, <1>12, <1>13, <1>14 DEF Sound, Restated

\* A parameter is parted from its connection, which is closed.
LEMMA PartKeeps ==
  ASSUME NEW s, NEW X, NEW Y, NEW p \in Params, Sound(s, X, Y, {p}),
         s.param[p].conn # NoConn =>
           /\ s.param[p].conn \in Conns \ Spare(s) /\ s.param[p].conn \notin Y
           /\ Unneeded(s, s.param[p].conn, {p})
  PROVE  /\ Sound(Parted(s, p), X, Y, {p}) /\ Frame(X, s, Parted(s, p)) /\ Parting(Parted(s, p), p)
         /\ Up(s, X) => Up(Parted(s, p), X)
         /\ s.param[p].conn = NoConn => Parted(s, p) = s
<1>1. PICK c : c = s.param[p].conn
  OBVIOUS
<1>2. CASE c = NoConn
  <2>1. Frame(X, s, s)
    BY SameGoes DEF Frame, Aside, Counts
  <2> QED
    BY <1>1, <1>2, <2>1 DEF Parted, Parting
<1>3. CASE c # NoConn
  <2>1. c \in Conns /\ c \notin Spare(s) /\ c \notin Y /\ Unneeded(s, c, {p})
    BY <1>1, <1>3
  <2>2. PICK f : f = Forgotten(s, c)
    OBVIOUS
  <2>3. /\ Sound(f, X, Y \cup {c}, {p}) /\ Rewired(s, f, c, [s.conns[c] EXCEPT !.id = 0])
        /\ (Up(s, X) => Up(f, X)) /\ Frame(X, s, f)
    BY <2>1, <2>2, ForgetKeeps
  <2>4. PICK W : W = Y \cup {c}
    OBVIOUS
  <2>5. Sound(f, X, W, {p}) /\ c \notin Spare(f) /\ Unneeded(f, c, {p})
    BY <2>1, <2>3, <2>4 DEF Rewired, Unneeded, IsOpen
  <2>6. PICK u : u = Shut(f, c)
    OBVIOUS
  <2>7. Sound(u, X, W \ {c}, {p}) /\ Closed(X, f, u, c) /\ (Up(f, X) => Up(u, X))
    BY <2>1, <2>5, <2>6, ShutKeeps
  <2>8. W \ {c} = Y
    BY <2>1, <2>4
  <2>9. f.conns[c].id = 0
    BY <2>3 DEF Rewired, Sound, Typed, Conn
  <2>10. u.param = s.param /\ u.conns[c].id = 0 /\ Frame(X, s, u)
    <3>1. Frame(X, s, u)
      BY <2>3, <2>7, FrameTwice DEF Closed
    <3> QED
      BY <2>3, <2>7, <2>9, <3>1 DEF Closed, Rewired
  <2>11. Parting(u, p) /\ Sound(u, X, Y, {p})
    BY <1>1, <2>7, <2>8, <2>10 DEF Parting
  <2>12. PICK t : t = [u EXCEPT !.param[p].conn = NoConn]
    OBVIOUS
  <2>13. /\ Sound(t, X, Y, {p}) /\ Restated(u, t, p, [u.param[p] EXCEPT !.conn = NoConn])
         /\ (Up(u, X) => Up(t, X)) /\ Frame(X, u, t)
    BY <2>11, <2>12, UnlinkKeeps, SMTT(90)
  <2>14. t = Parted(s, p)
    BY <1>1, <1>3, <2>2, <2>6, <2>12 DEF Parted, Forgotten
  <2>15. t.param[p].conn = NoConn
    BY <2>13 DEF Restated, Sound, Typed, Param
  <2>16. Parting(t, p) /\ Frame(X, s, t)
    <3>1. Frame(X, s, t)
      BY <2>10, <2>13, FrameTwice
    <3> QED
      BY <2>15, <3>1 DEF Parting
  <2> QED
    BY <1>1, <1>3, <2>3, <2>7, <2>13, <2>14, <2>16
<1> QED
  BY <1>2, <1>3

\* CCoreDCClient::cancel_timer of an open request.
LEMMA CancelKeeps ==
  ASSUME NEW s, NEW X, NEW Y, Sound(s, X, Y, {}), NEW p \in Params, IsOpen(s, p), NEW id, id = s.param[p].exc
  PROVE  /\ Sound(CancelRequest(s, id), X, Y, {p}) /\ Frame(X, s, CancelRequest(s, id))
         /\ Parting(CancelRequest(s, id), p)
         /\ Up(s, X) => Up(CancelRequest(s, id), X)
         /\ s.param[p].conn = NoConn =>
              CancelRequest(s, id).conns = s.conns /\ Spare(CancelRequest(s, id)) = Spare(s)
<1>1. Open(s, X, p, id) /\ s.param[p].conn \notin Y
  BY OpenIs
<1>2. Sound(s, X \cup {id}, Y, {p})
  BY LimboKeeps
<1>3. PICK e : e = Erased(s, id)
  OBVIOUS
<1>4. PICK V : V = X \cup {id}
  OBVIOUS
<1>5. /\ Sound(e, V, Y, {p}) /\ Frame(X, s, e) /\ (Up(s, X) => Up(e, V))
      /\ e.param = s.param /\ e.conns = s.conns /\ e.wheel = s.wheel /\ Spare(e) = Spare(s)
  BY <1>2, <1>3, <1>4, EraseKeeps
<1>6. PICK u : u = Untimed(e, id)
  OBVIOUS
<1>7. id \notin X
  BY <1>1 DEF Open
<1>8. /\ Sound(u, X, Y, {p}) /\ Frame(X, e, u) /\ (Up(e, V) => Up(u, X))
      /\ u.param = e.param /\ u.conns = e.conns /\ Spare(u) = Spare(e)
  <2>1. Sound(e, X \cup {id}, Y, {p})
    BY <1>4, <1>5
  <2>2. /\ Sound(Untimed(e, id), X, Y, {p}) /\ Frame(X, e, Untimed(e, id))
        /\ Up(e, X \cup {id}) => Up(Untimed(e, id), X)
        /\ Untimed(e, id).param = e.param /\ Untimed(e, id).conns = e.conns
        /\ Spare(Untimed(e, id)) = Spare(e)
    BY <1>7, <2>1, UntimeKeeps
  <2> QED
    BY <1>4, <1>6, <2>2
<1>9. u.param[p].conn # NoConn =>
        /\ u.param[p].conn \in Conns \ Spare(u) /\ u.param[p].conn \notin Y
        /\ Unneeded(u, u.param[p].conn, {p})
  BY <1>1, <1>5, <1>8 DEF Open, Unneeded, IsOpen
<1>10. PICK t : t = Parted(u, p)
  OBVIOUS
<1>11. /\ Sound(t, X, Y, {p}) /\ Frame(X, u, t) /\ Parting(t, p) /\ (Up(u, X) => Up(t, X))
       /\ (u.param[p].conn = NoConn => t = u)
  BY <1>8, <1>9, <1>10, PartKeeps
<1>12. CancelRequest(s, id) = t
  <2>1. s.wheel.heap[id].act[2] = p
    BY <1>1 DEF Open, Owner
  <2> QED
    BY <1>3, <1>6, <1>10, <2>1 DEF CancelRequest
<1>13. Frame(X, s, t)
  <2>1. Frame(X, s, u)
    BY <1>5, <1>8, FrameTwice
  <2> QED
    BY <1>11, <2>1, FrameTwice
<1> QED
  BY <1>5, <1>8, <1>11, <1>12, <1>13

\* The application cancels a request.
LEMMA WithdrawKeeps ==
  ASSUME NEW s, NEW X, NEW Y, Sound(s, X, Y, {}), NEW p \in Params, IsOpen(s, p)
  PROVE  /\ Sound(Withdraw(s, p), X, Y, {}) /\ Frame(X, s, Withdraw(s, p))
         /\ Up(s, X) => Up(Withdraw(s, p), X)
<1>1. PICK id : id = s.param[p].exc
  OBVIOUS
<1>2. PICK u : u = CancelRequest(s, id)
  OBVIOUS
<1>3. Sound(u, X, Y, {p}) /\ Frame(X, s, u) /\ Parting(u, p) /\ (Up(s, X) => Up(u, X))
  BY <1>1, <1>2, CancelKeeps
<1>4. "cancelled" \in Hows /\ Withdraw(s, p) = HandedBack(u, p, "cancelled")
  BY <1>1, <1>2 DEF Hows, Withdraw
<1>5. /\ Sound(HandedBack(u, p, "cancelled"), X, Y, {}) /\ Frame(X, u, HandedBack(u, p, "cancelled"))
      /\ (Up(u, X) => Up(HandedBack(u, p, "cancelled"), X))
  BY <1>3, <1>4, HandKeeps
<1>6. Frame(X, s, HandedBack(u, p, "cancelled"))
  BY <1>3, <1>5, FrameTwice
<1> QED
  BY <1>3, <1>4, <1>5, <1>6

\* The answer to a request that is about to end.
LEMMA AnswerKeeps ==
  ASSUME NEW s, NEW X, NEW Y, NEW p \in Params, Sound(s, X, Y, {p}), Parting(s, p), NEW how \in Hows,
         how = "timeout" => s.param[p].exc \in X
  PROVE  /\ Sound(Answered(s, p, how), X, Y, {}) /\ Frame(X, s, Answered(s, p, how))
         /\ Up(s, X) => Up(Answered(s, p, how), X)
         /\ Answered(s, p, how).wheel = s.wheel /\ Spare(Answered(s, p, how)) = Spare(s)
<1>1. PICK h \in Hows : Answered(s, p, how) = HandedBack(s, p, h) /\ (h = how \/ h = "released")
  BY DEF Answered, Hows
<1>2. h = "timeout" => s.param[p].exc \in X
  BY <1>1
<1>4. /\ Sound(HandedBack(s, p, h), X, Y, {}) /\ Frame(X, s, HandedBack(s, p, h))
      /\ (Up(s, X) => Up(HandedBack(s, p, h), X))
      /\ HandedBack(s, p, h).wheel = s.wheel /\ Spare(HandedBack(s, p, h)) = Spare(s)
  BY <1>1, <1>2, HandKeeps, ZenonT(90)
<1> QED
  BY <1>1, <1>4

\* on_short_disconnected
LEMMA ToldKeeps ==
  ASSUME NEW s, NEW X, NEW Y, Sound(s, X, Y, {}), Up(s, X), NEW c \in Conns, c \notin Spare(s)
  PROVE  /\ Sound(Told(s, c), X, Y \cup {c}, {}) /\ Frame(X, s, Told(s, c))
         /\ Up(Told(s, c), X) /\ Spare(Told(s, c)) = Spare(s)
<1>1. PICK f : f = Forgotten(s, c)
  OBVIOUS
<1>2. PICK id : id = s.conns[c].id
  OBVIOUS
<1>3. s.ids = Requests(s.wheel) \ X
  BY DEF Up
<1>4. CASE HasRequest(s, c)
  <2>1. PICK p : p = Owner(s.wheel, id)
    OBVIOUS
  <2>2. id \in Requests(s.wheel) \ X
    BY <1>2, <1>3, <1>4 DEF HasRequest
  <2>3. p \in Params /\ IsOpen(s, p) /\ s.param[p].exc = id
    BY <2>1, <2>2 DEF Sound, RequestsMatch
  <2>4. Sound(s, X \cup {id}, Y, {p}) /\ id \notin X
    BY <2>2, <2>3, LimboKeeps
  <2>5. Unneeded(s, c, {p})
    <3>1. SUFFICES ASSUME NEW q \in Params \ {p}, IsOpen(s, q), s.param[q].conn = c
                   PROVE  FALSE
      BY DEF Unneeded
    <3>2. c # NoConn
      BY DCAssumption
    <3>3. s.param[q].exc = id
      BY <1>2, <3>1, <3>2 DEF Sound, ConnsMatch
    <3>4. Owner(s.wheel, id) = q
      BY <3>1, <3>3 DEF Sound, RequestsMatch
    <3> QED
      BY <2>1, <3>1, <3>4
  <2>6. PICK V : V = X \cup {id}
    OBVIOUS
  <2>7. PICK W : W = Y \cup {c}
    OBVIOUS
  <2>8. /\ Sound(f, V, W, {p}) /\ Rewired(s, f, c, [s.conns[c] EXCEPT !.id = 0]) /\ Up(f, X) /\ Frame(X, s, f)
    BY <1>1, <2>4, <2>5, <2>6, <2>7, ForgetKeeps
  <2>9. f.conns[c].id = 0 /\ f.param = s.param
    BY <2>8 DEF Rewired, Sound, Typed, Conn
  <2>10. Parting(s, p) \/ s.param[p].conn = c
    <3>1. PICK d : d = s.param[p].conn
      OBVIOUS
    <3>2. CASE ~s.down
      <4>1. id # 0
        BY <2>2, LiveIs DEF Sound, Typed
      <4>2. PICK q \in Params : IsOpen(s, q) /\ s.param[q].exc = id /\ s.param[q].conn = c
        BY <1>2, <3>2, <4>1 DEF Up
      <4>3. Owner(s.wheel, id) = q
        BY <4>2 DEF Sound, RequestsMatch
      <4> QED
        BY <2>1, <4>2, <4>3
    <3> QED
      BY <3>2 DEF Parting
  <2>11. Parting(f, p)
    <3>1. s.param[p].conn \in Conns \cup {NoConn} /\ NoConn \notin Conns
      BY <2>3, DCAssumption DEF Sound, Typed, Param
    <3>2. PICK d : d = s.param[p].conn
      OBVIOUS
    <3>3. f.down = s.down /\ f.param[p].conn = d /\ (d \in Conns /\ d # c => f.conns[d] = s.conns[d])
      BY <2>8, <2>9, <3>2 DEF Rewired
    <3>4. s.down \/ d = NoConn \/ s.conns[d].id = 0 \/ d = c
      BY <2>10, <3>2 DEF Parting
    <3>5. f.down \/ d = NoConn \/ f.conns[d].id = 0
      BY <2>9, <3>1, <3>2, <3>3, <3>4
    <3> QED
      BY <3>3, <3>5 DEF Parting
  <2>12. PICK e : e = Erased(f, id)
    OBVIOUS
  <2>13. /\ Sound(e, V, W, {p}) /\ Frame(X, f, e) /\ Up(e, V)
         /\ e.param = f.param /\ e.conns = f.conns /\ e.wheel = f.wheel /\ Spare(e) = Spare(f)
    BY <2>6, <2>8, <2>12, EraseKeeps
  <2>14. PICK u : u = Untimed(e, id)
    OBVIOUS
  <2>15. /\ Sound(u, X, W, {p}) /\ Frame(X, e, u) /\ Up(u, X)
         /\ u.param = e.param /\ u.conns = e.conns /\ Spare(u) = Spare(e)
    BY <2>4, <2>6, <2>13, <2>14, UntimeKeeps
  <2>16. Parting(u, p)
    BY <2>11, <2>13, <2>15 DEF Parting, Frame, Aside
  <2>17. PICK t : t = Answered(u, p, "exception")
    OBVIOUS
  <2>18. Sound(t, X, W, {}) /\ Frame(X, u, t) /\ Up(t, X) /\ Spare(t) = Spare(u)
    <3>1. "exception" \in Hows
      BY DEF Hows
    <3> QED
      BY <2>3, <2>15, <2>16, <2>17, <3>1, AnswerKeeps, ZenonT(90)
  <2>19. Told(s, c) = t
    <3>1. RequestOf(s, c) = p
      BY <1>2, <2>1 DEF RequestOf, Owner
    <3> QED
      BY <1>1, <1>2, <1>4, <2>12, <2>14, <2>17, <3>1 DEF Told, Forgotten
  <2>20. Frame(X, s, t)
    <3>1. Frame(X, s, e)
      BY <2>8, <2>13, FrameTwice
    <3>2. Frame(X, s, u)
      BY <2>15, <3>1, FrameTwice
    <3> QED
      BY <2>18, <3>2, FrameTwice
  <2>21. Spare(t) = Spare(s)
    BY <2>8, <2>13, <2>15, <2>18 DEF Rewired
  <2> QED
    BY <2>7, <2>18, <2>19, <2>20, <2>21
<1>5. CASE ~HasRequest(s, c)
  <2>1. Unneeded(s, c, {})
    <3>1. SUFFICES ASSUME NEW q \in Params, IsOpen(s, q), s.param[q].conn = c
                   PROVE  FALSE
      BY DEF Unneeded
    <3>2. c # NoConn
      BY DCAssumption
    <3>3. s.param[q].exc = id
      BY <1>2, <3>1, <3>2 DEF Sound, ConnsMatch
    <3>4. id \in Requests(s.wheel) \ X
      BY <3>1, <3>3 DEF Sound, RequestsMatch
    <3> QED
      BY <1>2, <1>3, <1>5, <3>4 DEF HasRequest
  <2>2. /\ Sound(f, X, Y \cup {c}, {}) /\ Rewired(s, f, c, [s.conns[c] EXCEPT !.id = 0]) /\ Up(f, X) /\ Frame(X, s, f)
    BY <1>1, <2>1, ForgetKeeps
  <2>3. Told(s, c) = f
    BY <1>1, <1>5 DEF Told, Forgotten
  <2> QED
    BY <2>2, <2>3 DEF Rewired
<1> QED
  BY <1>4, <1>5

-----------------------------------------------------------------------------
(* A connection from the pool, and its timer                               *)

\* Objects made for an empty pool.
LEMMA MadeIs ==
  ASSUME NEW S, IsFiniteSet(S), S # {}, NEW n, n = Min({PoolStep, Cardinality(S)})
  PROVE  n \in Nat \ {0} /\ \E h \in [1 .. n -> S] : IsInjective(h)
<1>1. PICK m \in Nat : m = Cardinality(S) /\ ExistsBijection(1..m, S) /\ m # 0
  BY FS_CardinalityType, FS_EmptySet
<1>2. PICK b \in [1..m -> S] : IsInjective(b)
  BY <1>1 DEF ExistsBijection, Bijection, Injection
<1>3. PoolStep \in Nat \ {0}
  BY DCAssumption
<1>4. n \in Nat \ {0} /\ n <= m
  <2>1. n = CHOOSE x \in {PoolStep, m} : \A y \in {PoolStep, m} : x <= y
    BY <1>1 DEF Min
  <2>2. \E x \in {PoolStep, m} : \A y \in {PoolStep, m} : x <= y
    BY <1>1, <1>3
  <2>3. n \in {PoolStep, m} /\ n <= m
    BY <2>1, <2>2
  <2> QED
    BY <1>1, <1>3, <2>3
<1>5. PICK h : h = [i \in 1..n |-> b[i]]
  OBVIOUS
<1>6. \A i \in 1..n : i \in 1..m
  BY <1>1, <1>4
<1>7. h \in [1..n -> S] /\ IsInjective(h)
  <2>1. DOMAIN h = 1..n /\ \A i \in 1..n : h[i] = b[i] /\ b[i] \in S
    BY <1>2, <1>5, <1>6
  <2>2. h \in [1..n -> S]
    BY <1>5, <2>1
  <2>3. \A i, j \in 1..m : b[i] = b[j] => i = j
    BY <1>2 DEF IsInjective
  <2>4. \A i, j \in DOMAIN h : h[i] = h[j] => i = j
    BY <1>6, <2>1, <2>3
  <2> QED
    BY <2>2, <2>4 DEF IsInjective
<1> QED
  BY <1>4, <1>7

\* A function on 1..n is a sequence.
LEMMA FiniteIs ==
  ASSUME NEW S, NEW n \in Nat \ {0}, NEW f \in [1..n -> S]
  PROVE  f \in Seq(S) /\ f # <<>>
<1>1. DOMAIN f = 1..n /\ 1 \in 1..n
  OBVIOUS
<1>2. f \in Seq(S)
  OBVIOUS
<1>3. DOMAIN <<>> = {}
  OBVIOUS
<1> QED
  BY <1>1, <1>2, <1>3

\* pop_obj takes a connection that was spare, and only that.
Refills(s, t) ==
  /\ Typed(t) /\ Pooled(t) /\ t.hup = s.hup /\ t.down = s.down /\ t.pool # <<>>
  /\ t.wheel = s.wheel /\ t.conns = s.conns /\ t.ids = s.ids /\ t.param = s.param
  /\ Spare(t) = Spare(s)

\* pop_obj, first half: an empty pool makes new connections.
LEMMA RefilledIs ==
  ASSUME NEW s, Typed(s), Pooled(s), CanPop(s)
  PROVE  Refills(s, Refilled(s))
<1>1. CASE s.pool # <<>>
  BY <1>1 DEF Refilled, Refills
<1>2. CASE s.pool = <<>>
  <2>1. PICK n : n = Min({PoolStep, Cardinality(s.unmade)})
    OBVIOUS
  <2>2. PICK made : made = CHOOSE f \in {g \in [1 .. n -> s.unmade] : IsInjective(g)} : TRUE
    OBVIOUS
  <2>3. IsFiniteSet(s.unmade) /\ s.unmade # {} /\ s.unmade \in SUBSET Conns
    <3>1. s.unmade \in SUBSET Conns /\ IsFiniteSet(Conns)
      BY DCAssumption DEF Typed
    <3>2. IsFiniteSet(s.unmade)
      BY <3>1, FS_Subset
    <3> QED
      BY <1>2, <3>1, <3>2 DEF CanPop
  <2>4. made \in Seq(s.unmade) /\ IsInjective(made) /\ made # <<>>
    <3>1. n \in Nat \ {0} /\ \E h : h \in {g \in [1 .. n -> s.unmade] : IsInjective(g)}
      BY <2>1, <2>3, MadeIs
    <3>2. made \in [1 .. n -> s.unmade] /\ IsInjective(made)
      BY <2>2, <3>1
    <3> QED
      BY <3>1, <3>2, FiniteIs
  <2>5. made \in Seq(Conns) /\ ToSet(made) \subseteq s.unmade
    BY <2>3, <2>4 DEF ToSet
  <2>6. PICK r : r = s.unmade \ ToSet(made)
    OBVIOUS
  <2>7. PICK t : t = Refilled(s)
    OBVIOUS
  <2>8. t = [s EXCEPT !.pool = made, !.unmade = r]
    BY <1>2, <2>1, <2>2, <2>6, <2>7 DEF Refilled
  <2>9. t = [wheel |-> s.wheel, conns |-> s.conns, pool |-> made, unmade |-> r, ids |-> s.ids,
             param |-> s.param, hup |-> s.hup, down |-> s.down]
    BY <2>8 DEF Typed, IsClient, Client
  <2>10. /\ t.wheel = s.wheel /\ t.conns = s.conns /\ t.pool = made /\ t.unmade = r
         /\ t.ids = s.ids /\ t.param = s.param /\ t.hup = s.hup /\ t.down = s.down
    BY <2>9
  <2>11. IsClient(t)
    BY <2>9, <2>10 DEF IsClient, Client
  <2>12. ToSet(s.pool) = {}
    BY <1>2 DEF ToSet
  <2>13. Spare(t) = Spare(s) /\ ToSet(t.pool) \cap t.unmade = {}
    BY <2>5, <2>6, <2>10, <2>12 DEF Spare
  <2>14. Typed(t)
    BY <2>3, <2>5, <2>6, <2>10, <2>11 DEF Typed
  <2>15. Pooled(t)
    BY <2>4, <2>10, <2>13 DEF Pooled
  <2> QED
    BY <2>4, <2>7, <2>10, <2>13, <2>14, <2>15 DEF Refills
<1> QED
  BY <1>1, <1>2

\* The tail of a sequence without repetitions.
LEMMA TailIs ==
  ASSUME NEW S, NEW q \in Seq(S), q # <<>>, IsInjective(q)
  PROVE  /\ Head(q) \in S /\ Tail(q) \in Seq(S) /\ IsInjective(Tail(q))
         /\ Head(q) \in ToSet(q) /\ ToSet(Tail(q)) = ToSet(q) \ {Head(q)}
<1>1. PICK m \in Nat : m = Len(q) /\ DOMAIN q = 1..m /\ m # 0
  OBVIOUS
<1>2. PICK f : f = Tail(q)
  OBVIOUS
<1>3. f \in Seq(S) /\ DOMAIN f = 1..m - 1 /\ \A i \in 1..m - 1 : f[i] = q[i + 1]
  BY <1>1, <1>2
<1>4. Head(q) = q[1] /\ 1 \in 1..m
  BY <1>1
<1>5. \A i, j \in 1..m : q[i] = q[j] => i = j
  BY <1>1 DEF IsInjective
<1>6. IsInjective(f)
  BY <1>1, <1>3, <1>5 DEF IsInjective
<1>7. ToSet(f) = ToSet(q) \ {q[1]}
  <2>1. \A i \in 1..m - 1 : i + 1 \in 1..m /\ i + 1 # 1
    BY <1>1
  <2>2. \A i \in 1..m : i # 1 => i - 1 \in 1..m - 1 /\ (i - 1) + 1 = i
    BY <1>1
  <2>3. ToSet(f) = {q[i + 1] : i \in 1..m - 1} /\ ToSet(q) = {q[i] : i \in 1..m}
    BY <1>1, <1>3 DEF ToSet
  <2>4. ASSUME NEW x \in ToSet(f) PROVE x \in ToSet(q) \ {q[1]}
    BY <1>4, <1>5, <2>1, <2>3, <2>4
  <2>5. ASSUME NEW x \in ToSet(q) \ {q[1]} PROVE x \in ToSet(f)
    BY <2>2, <2>3, <2>5
  <2> QED
    BY <2>4, <2>5
<1>8. Head(q) \in S /\ Head(q) \in ToSet(q)
  BY <1>1, <1>4 DEF ToSet
<1> QED
  BY <1>2, <1>3, <1>4, <1>6, <1>7, <1>8

\* pop_obj: a clean connection leaves the pool.
LEMMA PopKeeps ==
  ASSUME NEW s, NEW X, NEW Y, Sound(s, X, Y, {}), CanPop(s), NEW c, c = NextConn(s)
  PROVE  /\ Sound(Popped(s), X, Y, {}) /\ \A V : Frame(V, s, Popped(s))
         /\ \A V : Up(s, V) => Up(Popped(s), V)
         /\ Popped(s).param = s.param /\ Popped(s).conns = s.conns /\ Popped(s).wheel = s.wheel
         /\ c \in Conns /\ c \in Spare(s) /\ s.conns[c] = IdleConn
         /\ c \notin Spare(Popped(s)) /\ c \notin Y
<1>1. PICK u : u = Refilled(s)
  OBVIOUS
<1>2. Refills(s, u)
  BY <1>1, RefilledIs DEF Sound
<1>3. u.pool \in Seq(Conns) /\ u.pool # <<>> /\ IsInjective(u.pool)
  BY <1>2 DEF Refills, Typed, Pooled
<1>4. PICK q : q = Tail(u.pool)
  OBVIOUS
<1>5. c = Head(u.pool)
  BY <1>1 DEF NextConn
<1>6. /\ c \in Conns /\ q \in Seq(Conns) /\ IsInjective(q) /\ c \in ToSet(u.pool)
      /\ ToSet(q) = ToSet(u.pool) \ {c}
  BY <1>3, <1>4, <1>5, TailIs
<1>7. PICK t : t = Popped(s)
  OBVIOUS
<1>8. t = Client(u, u.wheel, u.conns, q, u.ids, u.param)
  BY <1>1, <1>2, <1>4, <1>7 DEF Popped, Refills, Typed, IsClient, Client
<1>9. /\ t.wheel = s.wheel /\ t.conns = s.conns /\ t.pool = q /\ t.unmade = u.unmade
      /\ t.ids = s.ids /\ t.param = s.param /\ t.hup = s.hup /\ t.down = s.down
  BY <1>2, <1>8 DEF Client, Refills
<1>10. IsClient(t)
  BY <1>8, <1>9, <1>2 DEF IsClient, Client, Refills
<1>11. u.unmade \in SUBSET Conns /\ ToSet(u.pool) \cap u.unmade = {}
  BY <1>2 DEF Refills, Typed, Pooled
<1>12. c \in Spare(s) /\ Spare(t) = Spare(s) \ {c}
  BY <1>2, <1>6, <1>9, <1>11 DEF Spare, Refills
<1>13. Typed(t)
  BY <1>6, <1>9, <1>10, <1>11 DEF Sound, Typed
<1>14. Pooled(t)
  BY <1>6, <1>9, <1>11, <1>12 DEF Sound, Pooled
<1>15. TimersMatch(t, X) /\ RequestsMatch(t, X, {})
  BY <1>9 DEF Sound, TimersMatch, RequestsMatch, IsOpen
<1>16. ConnsMatch(t, Y, {})
  BY <1>9, <1>12 DEF Sound, ConnsMatch, IsOpen
<1>17. \A V : Up(s, V) => Up(t, V)
  BY <1>9 DEF Up, IsOpen
<1>18. s.conns[c] = IdleConn /\ c \notin Y
  BY <1>12 DEF Sound, Pooled, ConnsMatch
<1>19. \A V : Frame(V, s, t)
  BY <1>9, SameGoes DEF Frame, Aside, Counts
<1> QED
  BY <1>6, <1>7, <1>9, <1>12, <1>13, <1>14, <1>15, <1>16, <1>17, <1>18, <1>19 DEF Sound

\* A request gets its timer.
Clocked(s, v, id, p, r) == [s EXCEPT !.wheel = v, !.ids = @ \cup {id}, !.param[p] = r]

\* A timer is set, a request's for a parameter that is posted now.
LEMMA SetTiming ==
  ASSUME NEW X, NEW s, WheelOK(s.wheel), NEW t, NEW kind, NEW o, <<kind, o>> \in Acts, NEW delay, Fits(delay), now \in Nat,
         NEW id, id = NextId(s.wheel), t.wheel = Schedule(s.wheel, <<kind, o>>, delay, now),
         kind = "request" => o \in Params /\ Posted(t, o) /\ t.param[o].at = now /\ delay = Delay[o]
  PROVE  Timing(X, s, t)
<1>1. PICK v : v = t.wheel
  OBVIOUS
<1>5. PICK at : at = now + delay
  OBVIOUS
<1>2. Takes(s.wheel, v, id, <<kind, o>>)
  BY <1>1, ScheduleIs DEF Fits
<1>3. /\ LiveIds(v) = LiveIds(s.wheel) \cup {id} /\ v.heap[id].act[1] = kind /\ Owner(v, id) = o
      /\ \A i \in LiveIds(s.wheel) : v.heap[i] = s.wheel.heap[i]
  BY <1>2 DEF Takes, Owner
<1>4. ASSUME NEW P, Ready(s.wheel, P)
      PROVE  /\ Ready(v, P) /\ SameRings(s.wheel, v)
             /\ \A i \in Requests(v) : Carried(s, t, i) \/ JustSet(t, P, i)
  <2>1. Good(s.wheel, now, P) /\ Calls(s.wheel)
    BY <1>4 DEF Ready
  <2>2. /\ Good(v, now, P) /\ SameRings(s.wheel, v)
        /\ InTime(Due(v, P, id), at, StampOf(v, id))
    BY <1>1, <1>5, <2>1, ScheduleGood
  <2>3. Ready(v, P)
    BY <2>1, <2>2 DEF Ready, Calls, SameRings
  <2>4. kind = "request" => JustSet(t, P, id)
    <3>1. Prompt(v, P, id, at)
      BY <2>2, Zenon DEF Prompt
    <3> QED
      BY <1>1, <1>3, <1>5, <3>1 DEF JustSet
  <2>5. \A i \in LiveIds(s.wheel) : Carried(s, t, i)
    BY <1>1, <1>3 DEF Carried
  <2> QED
    BY <1>3, <2>2, <2>3, <2>4, <2>5 DEF Requests
<1> QED
  BY <1>1, <1>3, <1>4 DEF Timing

\* post_dc_request sets the timer, enters the number and restates the parameter.
LEMMA TimedKeeps ==
  ASSUME NEW s, NEW X, NEW Y, Sound(s, X, Y, {}), NEW p \in Params, ~Posted(s, p), NEW v, NEW id,
         Takes(s.wheel, v, id, <<"request", p>>), NEW r, r = [exc |-> id, at |-> now, conn |-> NoConn, got |-> <<>>], now \in Nat,
         NEW t, t = Clocked(s, v, id, p, r), id = NextId(s.wheel),
         v = Schedule(s.wheel, <<"request", p>>, Delay[p], now), Fits(Delay[p])
  PROVE  /\ Sound(t, X, Y, {}) /\ Wide(X, s, t)
         /\ Up(s, X) => Up(t, X)
         /\ IsOpen(t, p) /\ t.param[p].exc = id /\ t.param[p].conn = NoConn
         /\ t.conns = s.conns /\ t.pool = s.pool /\ t.unmade = s.unmade
         /\ t.param[p].at = now /\ \A q \in Params : q # p => t.param[q] = s.param[q]
<1>1. PICK ps : ps = [s.param EXCEPT ![p] = r]
  OBVIOUS
<1>2. PICK I : I = s.ids \cup {id}
  OBVIOUS
<1>3. t = Client(s, v, s.conns, s.pool, I, ps)
  BY <1>1, <1>2 DEF Clocked, Sound, Typed, IsClient, Client
<1>4. /\ t.wheel = v /\ t.conns = s.conns /\ t.pool = s.pool /\ t.unmade = s.unmade
      /\ t.ids = I /\ t.param = ps /\ t.hup = s.hup /\ t.down = s.down
  BY <1>3 DEF Client
<1>5. IsClient(t)
  BY <1>3, <1>4 DEF IsClient, Client
<1>6. WheelOK(v) /\ id \in Nat \ {0} /\ id \notin LiveIds(s.wheel) /\ v.scan = s.wheel.scan
  BY DEF Takes
<1>7. r \in Param /\ r.exc = id /\ r.conn = NoConn /\ r.got = <<>> /\ r.at = now
  <2>2. <<>> \in Gots
    BY DEF Gots
  <2>3. r.exc = id /\ r.conn = NoConn /\ r.got = <<>> /\ id \in Nat
    BY <1>6
  <2>4. r \in Param
    BY <2>2, <2>3 DEF Param
  <2> QED
    BY <2>3, <2>4
<1>8. ps \in [Params -> Param] /\ ps[p] = r /\ \A q \in Params : q # p => ps[q] = s.param[q]
  BY <1>1, <1>7 DEF Sound, Typed
<1>9. I \in SUBSET Nat
  BY <1>2, <1>6 DEF Sound, Typed
<1>10. Typed(t) /\ Pooled(t)
  <2>1. Typed(t)
    BY <1>4, <1>5, <1>6, <1>8, <1>9 DEF Sound, Typed
  <2> QED
    BY <1>4, <2>1 DEF Sound, Pooled, Spare
<1>11. ~IsOpen(s, p)
  BY DEF Posted, IsOpen
<1>12. IsOpen(t, p) /\ \A q \in Params \ {p} : IsOpen(t, q) <=> IsOpen(s, q)
  BY <1>4, <1>6, <1>7, <1>8 DEF IsOpen
<1>13. /\ LiveIds(v) = LiveIds(s.wheel) \cup {id} /\ Requests(v) = Requests(s.wheel) \cup {id}
       /\ Owner(v, id) = p /\ \A i \in LiveIds(s.wheel) : Owner(v, i) = Owner(s.wheel, i)
  BY TakesIs
<1>14. Requests(s.wheel) \subseteq LiveIds(s.wheel) /\ X \subseteq LiveIds(s.wheel)
  BY DEF Requests, Sound, TimersMatch
<1>20. TimersMatch(s, X) /\ RequestsMatch(s, X, {}) /\ ConnsMatch(s, Y, {})
  BY DEF Sound
<1>15. TimersMatch(t, X)
  <2>1. LiveIds(v) \ Requests(v) = LiveIds(s.wheel) \ Requests(s.wheel)
    BY <1>6, <1>13, <1>14
  <2>2. X \subseteq LiveIds(v)
    BY <1>13, <1>14
  <2>3. \A i \in (LiveIds(v) \ Requests(v)) \ X : s.conns[Owner(v, i)].timer = i
    BY <1>13, <1>20, <2>1 DEF TimersMatch
  <2>4. \A c \in Conns : s.conns[c].timer # 0 =>
          /\ s.conns[c].timer \in (LiveIds(v) \ Requests(v)) \ X
          /\ Owner(v, s.conns[c].timer) = c
    BY <1>13, <1>20, <2>1 DEF TimersMatch
  <2>5. t.wheel = v /\ t.conns = s.conns
    BY <1>4
  <2> QED
    BY ONLY <2>2, <2>3, <2>4, <2>5 DEF TimersMatch
<1>16. RequestsMatch(t, X, {})
  <2>1. ASSUME NEW i \in Requests(v) \ X
        PROVE  Owner(v, i) \in Params /\ IsOpen(t, Owner(v, i)) /\ ps[Owner(v, i)].exc = i
    <3>1. CASE i = id
      BY <1>7, <1>8, <1>12, <1>13, <3>1
    <3>2. CASE i # id
      <4>1. i \in Requests(s.wheel) \ X /\ Owner(v, i) = Owner(s.wheel, i)
        BY <1>13, <1>14, <2>1, <3>2
      <4>2. PICK q : q = Owner(s.wheel, i)
        OBVIOUS
      <4>3. q \in Params /\ IsOpen(s, q) /\ s.param[q].exc = i
        BY <4>1, <4>2 DEF Sound, RequestsMatch
      <4> QED
        BY <1>8, <1>11, <1>12, <4>1, <4>2, <4>3
    <3> QED
      BY <3>1, <3>2
  <2>2. ASSUME NEW q \in Params, IsOpen(t, q)
        PROVE  ps[q].exc \in Requests(v) \ X /\ Owner(v, ps[q].exc) = q
    <3>1. CASE q = p
      BY <1>6, <1>7, <1>8, <1>13, <1>14, <3>1
    <3>2. CASE q # p
      <4>1. IsOpen(s, q) /\ ps[q] = s.param[q]
        BY <1>8, <1>12, <2>2, <3>2
      <4>2. s.param[q].exc \in Requests(s.wheel) \ X /\ Owner(s.wheel, s.param[q].exc) = q
        BY <4>1 DEF Sound, RequestsMatch
      <4> QED
        BY <1>13, <1>14, <4>1, <4>2
    <3> QED
      BY <3>1, <3>2
  <2>3. \A i \in Requests(t.wheel) \ X :
          LET q == Owner(t.wheel, i)
          IN  q \in Params \ {} /\ IsOpen(t, q) /\ t.param[q].exc = i
    BY <1>4, <2>1
  <2>4. \A q \in Params \ {} : IsOpen(t, q) =>
          t.param[q].exc \in Requests(t.wheel) \ X /\ Owner(t.wheel, t.param[q].exc) = q
    BY <1>4, <2>2
  <2> QED
    BY <2>3, <2>4, Zenon DEF RequestsMatch
<1>17. ConnsMatch(t, Y, {})
  <2>1. \A q \in Params : q # p /\ IsOpen(t, q) => IsOpen(s, q) /\ t.param[q] = s.param[q]
    BY <1>4, <1>8, <1>12
  <2>2. Spare(t) = Spare(s)
    BY <1>4, Zenon DEF Spare
  <2>3. ASSUME NEW q \in Params, IsOpen(t, q), t.param[q].conn # NoConn
        PROVE  t.conns[t.param[q].conn].id = t.param[q].exc
    <3>1. q # p
      BY <1>4, <1>7, <1>8, <2>3
    <3>2. IsOpen(s, q) /\ t.param[q] = s.param[q]
      BY <2>1, <2>3, <3>1
    <3> QED
      BY <1>4, <1>20, <2>3, <3>2 DEF ConnsMatch
  <2>4. \A c \in Conns \ Y : t.conns[c].asked \in {0, t.conns[c].id}
    BY <1>4, <1>20 DEF ConnsMatch
  <2>5. \A c \in Y : c \in Conns /\ c \notin Spare(t) /\ t.conns[c].id = 0
    BY <1>4, <1>20, <2>2 DEF ConnsMatch
  <2> QED
    BY <2>3, <2>4, <2>5 DEF ConnsMatch
<1>18. Up(s, X) => Up(t, X)
  <2>1. \A q \in Params : IsOpen(s, q) => q # p /\ IsOpen(t, q) /\ t.param[q] = s.param[q]
    BY <1>4, <1>8, <1>11, <1>12
  <2>2. I = (s.ids \cup {id}) /\ id \notin X
    BY <1>2, <1>6, <1>14
  <2>3. Requests(v) \ X = (Requests(s.wheel) \ X) \cup {id}
    BY <1>13, <2>2
  <2>4. SUFFICES ASSUME Up(s, X) PROVE Up(t, X)
    OBVIOUS
  <2>5. t.ids = Requests(t.wheel) \ X
    BY <1>4, <2>2, <2>3, <2>4 DEF Up
  <2>6. \/ t.down
        \/ \A c \in Conns : t.conns[c].id # 0 =>
             \E q \in Params : IsOpen(t, q) /\ t.param[q].exc = t.conns[c].id /\ t.param[q].conn = c
    <3>1. CASE s.down
      BY <1>4, <3>1
    <3>2. CASE ~s.down
      <4>1. ASSUME NEW c \in Conns, t.conns[c].id # 0
            PROVE  \E q \in Params : IsOpen(t, q) /\ t.param[q].exc = t.conns[c].id /\ t.param[q].conn = c
        <5>1. PICK q \in Params : IsOpen(s, q) /\ s.param[q].exc = s.conns[c].id /\ s.param[q].conn = c
          BY <1>4, <2>4, <3>2, <4>1 DEF Up
        <5> QED
          BY <1>4, <2>1, <5>1
      <4> QED
        BY <4>1
    <3> QED
      BY <3>1, <3>2
  <2> QED
    BY <2>5, <2>6 DEF Up
<1>19. Wide(X, s, t)
  <2>1. \A q \in Params : q # p => t.param[q] = s.param[q] /\ (Posted(t, q) <=> Posted(s, q))
    BY <1>4, <1>8 DEF Posted
  <2>2. Posted(t, p) /\ t.param[p].at = now /\ t.param[p].got = <<>>
    BY <1>4, <1>6, <1>7, <1>8 DEF Posted
  <2>3. s.param[p].got = <<>>
    BY DEF Posted
  <2>4. Lasts(X, s, t)
    <3>1. \A q \in Params : Posted(s, q) =>
            Posted(t, q) /\ t.param[q].at = s.param[q].at /\ t.param[q].exc = s.param[q].exc
      BY <2>1
    <3>2. \A q \in Params : s.param[q].got # <<>> => t.param[q].got = s.param[q].got
      BY <2>1, <2>3
    <3>3. \A q \in Params : t.param[q].got = <<"timeout">> => s.param[q].got = <<"timeout">>
      <4>1. <<>> # <<"timeout">>
        OBVIOUS
      <4>2. t.param[p].got # <<"timeout">>
        BY <2>2, <4>1
      <4> QED
        BY <2>1, <4>2
    <3> QED
      BY <3>1, <3>2, <3>3 DEF Lasts
  <2>5. Bold(s, t)
    BY <2>1, <2>2 DEF Bold
  <2>6. <<"request", p>> \in Acts
    BY DEF Acts
  <2>7. Timing(X, s, t)
    BY <1>4, <2>2, <2>6, SetTiming DEF Sound, Typed
  <2> QED
    BY <1>4, <1>6, <2>4, <2>5, <2>7 DEF Wide, Aside, Counts, Roams
<1> QED
  BY <1>4, <1>7, <1>8, <1>10, <1>12, <1>15, <1>16, <1>17, <1>18, <1>19 DEF Sound

\* set_timer of a connection that has none.
Retimed(s, c, id) == [s.conns EXCEPT ![c].timer = id]

\* ShortConnection::set_timer.
LEMMA ConnTimerKeeps ==
  ASSUME NEW s, NEW X, NEW Y, NEW Z, Sound(s, X, Y, Z), NEW c \in Conns, c \notin Spare(s), s.conns[c].timer = 0,
         NEW kind \in {"connect", "heartbeat"}, NEW delay, Fits(delay), now \in Nat
  PROVE  /\ Sound(ConnTimer(s, c, kind, delay), X, Y, Z) /\ Frame(X, s, ConnTimer(s, c, kind, delay))
         /\ \A V \in SUBSET LiveIds(s.wheel) : Up(s, V) => Up(ConnTimer(s, c, kind, delay), V)
         /\ ConnTimer(s, c, kind, delay).param = s.param
         /\ Spare(ConnTimer(s, c, kind, delay)) = Spare(s)
         /\ \E id \in Nat : ConnTimer(s, c, kind, delay).conns = Retimed(s, c, id)
<1>1. PICK v : v = Schedule(s.wheel, <<kind, c>>, delay, now)
  OBVIOUS
<1>2. PICK id : id = NextId(s.wheel)
  OBVIOUS
<1>3. PICK k : k = [s.conns[c] EXCEPT !.timer = id]
  OBVIOUS
<1>4. PICK cs : cs = [s.conns EXCEPT ![c] = k]
  OBVIOUS
<1>5. PICK t : t = ConnTimer(s, c, kind, delay)
  OBVIOUS
<1>6. <<kind, c>> \in Acts
  BY DEF Acts
<1>7. Takes(s.wheel, v, id, <<kind, c>>)
  BY <1>1, <1>2, <1>6, ScheduleIs DEF Sound, Typed, Fits
<1>8. t = Client(s, v, cs, s.pool, s.ids, s.param)
  BY <1>1, <1>2, <1>3, <1>4, <1>5 DEF ConnTimer, Sound, Typed, IsClient, Client
<1>9. /\ t.wheel = v /\ t.conns = cs /\ t.pool = s.pool /\ t.unmade = s.unmade
      /\ t.ids = s.ids /\ t.param = s.param /\ t.hup = s.hup /\ t.down = s.down
  BY <1>8 DEF Client
<1>10. IsClient(t)
  BY <1>8, <1>9 DEF IsClient, Client
<1>11. WheelOK(v) /\ id \in Nat \ {0} /\ id \notin LiveIds(s.wheel) /\ v.scan = s.wheel.scan
  BY <1>7 DEF Takes
<1>12. k \in Conn /\ k.timer = id /\ k.count = s.conns[c].count /\ k.id = s.conns[c].id /\ k.asked = s.conns[c].asked
  <2>1. s.conns[c] \in Conn
    BY DEF Sound, Typed
  <2> QED
    BY <1>3, <1>11, <2>1 DEF Conn
<1>13. cs \in [Conns -> Conn] /\ cs[c] = k /\ \A d \in Conns : d # c => cs[d] = s.conns[d]
  BY <1>4, <1>12 DEF Sound, Typed
<1>14. Spare(t) = Spare(s)
  BY <1>9 DEF Spare
<1>15. Typed(t)
  BY <1>9, <1>10, <1>11, <1>13 DEF Sound, Typed
<1>16. Pooled(t)
  <2>1. \A d \in Spare(s) : d # c /\ d \in Conns /\ s.conns[d] = IdleConn
    BY DEF Sound, Typed, Pooled, Spare, ToSet
  <2>2. \A d \in Spare(t) : t.conns[d] = IdleConn
    BY <1>9, <1>13, <1>14, <2>1
  <2> QED
    BY <1>9, <2>2 DEF Sound, Pooled
<1>17. kind # "request"
  OBVIOUS
<1>18. /\ LiveIds(v) = LiveIds(s.wheel) \cup {id} /\ Requests(v) = Requests(s.wheel)
       /\ Owner(v, id) = c /\ \A i \in LiveIds(s.wheel) : Owner(v, i) = Owner(s.wheel, i)
  BY <1>7, <1>17, TakesIs
<1>19. Requests(s.wheel) \subseteq LiveIds(s.wheel) /\ X \subseteq LiveIds(s.wheel)
  BY DEF Requests, Sound, TimersMatch
<1>20. TimersMatch(t, X)
  <2>1. ASSUME NEW i \in (LiveIds(v) \ Requests(v)) \ X
        PROVE  cs[Owner(v, i)].timer = i
    <3>1. CASE i = id
      BY <1>12, <1>13, <1>18, <3>1
    <3>2. CASE i # id
      <4>1. i \in (LiveIds(s.wheel) \ Requests(s.wheel)) \ X /\ Owner(v, i) = Owner(s.wheel, i)
        BY <1>18, <2>1, <3>2
      <4>2. s.conns[Owner(s.wheel, i)].timer = i /\ i # 0 /\ Owner(s.wheel, i) \in Conns
        BY <4>1, LiveIs DEF Sound, TimersMatch, Typed
      <4>3. Owner(s.wheel, i) # c
        BY <4>2
      <4> QED
        BY <1>13, <4>1, <4>2, <4>3
    <3> QED
      BY <3>1, <3>2
  <2>2. ASSUME NEW d \in Conns, cs[d].timer # 0
        PROVE  cs[d].timer \in (LiveIds(v) \ Requests(v)) \ X /\ Owner(v, cs[d].timer) = d
    <3>1. CASE d = c
      BY <1>11, <1>12, <1>13, <1>18, <1>19, <3>1
    <3>2. CASE d # c
      <4>1. cs[d] = s.conns[d]
        BY <1>13, <3>2
      <4>2. cs[d].timer \in (LiveIds(s.wheel) \ Requests(s.wheel)) \ X /\ Owner(s.wheel, cs[d].timer) = d
        BY <2>2, <4>1 DEF Sound, TimersMatch
      <4> QED
        BY <1>18, <4>2
    <3> QED
      BY <3>1, <3>2
  <2>3. X \subseteq LiveIds(v)
    BY <1>18, <1>19
  <2> QED
    BY <1>9, <2>1, <2>2, <2>3 DEF TimersMatch
<1>21. RequestsMatch(t, X, Z)
  BY <1>9, <1>18, <1>19 DEF Sound, RequestsMatch, IsOpen
<1>22. \A d \in Conns : cs[d].id = s.conns[d].id /\ cs[d].asked = s.conns[d].asked
  BY <1>12, <1>13
<1>23. ConnsMatch(t, Y, Z)
  <2>1. \A q \in Params : s.param[q].conn \in Conns \cup {NoConn}
    BY DEF Sound, Typed, Param
  <2>2. Y \subseteq Conns
    BY DEF Sound, ConnsMatch
  <2> QED
    BY <1>9, <1>14, <1>22, <2>1, <2>2 DEF Sound, ConnsMatch, IsOpen
<1>24. \A V \in SUBSET LiveIds(s.wheel) : Up(s, V) => Up(t, V)
  BY <1>9, <1>18, <1>22 DEF Up, IsOpen
<1>25. t.conns = Retimed(s, c, id) /\ id \in Nat
  BY <1>3, <1>4, <1>9, <1>11 DEF Retimed
<1>26. Timing(X, s, t)
  BY <1>1, <1>2, <1>6, <1>9, <1>17, SetTiming DEF Sound, Typed
<1>27. Frame(X, s, t)
  <2>1. \A d \in Conns : t.conns[d].count \in {0, s.conns[d].count}
    BY <1>9, <1>12, <1>13
  <2> QED
    BY <1>9, <1>11, <1>26, <2>1, StillGoes DEF Frame, Aside, Counts
<1> QED
  BY <1>5, <1>9, <1>14, <1>15, <1>16, <1>20, <1>21, <1>23, <1>24, <1>25, <1>27 DEF Sound

\* A connection starts to work for a request.
Linked(s, c, id, p) == [s EXCEPT !.conns[c].id = id, !.param[p].conn = c]

\* post_dc_request: connection and parameter learn of each other.
LEMMA LinkKeeps ==
  ASSUME NEW s, NEW X, NEW Y, Sound(s, X, Y, {}), NEW p \in Params, IsOpen(s, p), s.param[p].conn = NoConn,
         NEW id, id = s.param[p].exc, NEW c \in Conns, c \notin Spare(s), c \notin Y, s.conns[c].id = 0
  PROVE  /\ Sound(Linked(s, c, id, p), X, Y, {}) /\ \A V : Frame(V, s, Linked(s, c, id, p))
         /\ Up(s, X) => Up(Linked(s, c, id, p), X)
         /\ \A q \in Params : IsOpen(Linked(s, c, id, p), q) <=> IsOpen(s, q)
<1>1. PICK k : k = [s.conns[c] EXCEPT !.id = id]
  OBVIOUS
<1>2. PICK r : r = [s.param[p] EXCEPT !.conn = c]
  OBVIOUS
<1>3. PICK cs : cs = [s.conns EXCEPT ![c] = k]
  OBVIOUS
<1>4. PICK ps : ps = [s.param EXCEPT ![p] = r]
  OBVIOUS
<1>5. PICK t : t = Linked(s, c, id, p)
  OBVIOUS
<1>6. t = Client(s, s.wheel, cs, s.pool, s.ids, ps)
  BY <1>1, <1>2, <1>3, <1>4, <1>5 DEF Linked, Sound, Typed, IsClient, Client
<1>7. /\ t.wheel = s.wheel /\ t.conns = cs /\ t.pool = s.pool /\ t.unmade = s.unmade
      /\ t.ids = s.ids /\ t.param = ps /\ t.hup = s.hup /\ t.down = s.down
  BY <1>6 DEF Client
<1>8. IsClient(t)
  BY <1>6, <1>7 DEF IsClient, Client
<1>9. s.param[p] \in Param /\ id \in Nat /\ s.conns[c] \in Conn
  BY DEF Sound, Typed, Param
<1>10. k \in Conn /\ k.id = id /\ k.timer = s.conns[c].timer /\ k.asked = s.conns[c].asked /\ k.count = s.conns[c].count
  BY <1>1, <1>9 DEF Conn
<1>11. r \in Param /\ r.conn = c /\ r.exc = s.param[p].exc /\ r.got = s.param[p].got /\ r.at = s.param[p].at
  BY <1>2, <1>9 DEF Param
<1>12. cs \in [Conns -> Conn] /\ cs[c] = k /\ \A d \in Conns : d # c => cs[d] = s.conns[d]
  BY <1>3, <1>10 DEF Sound, Typed
<1>13. ps \in [Params -> Param] /\ ps[p] = r /\ \A q \in Params : q # p => ps[q] = s.param[q]
  BY <1>4, <1>11 DEF Sound, Typed
<1>14. Typed(t) /\ Spare(t) = Spare(s)
  BY <1>7, <1>8, <1>12, <1>13 DEF Sound, Typed, Spare
<1>15. Pooled(t)
  <2>1. \A d \in Spare(s) : d # c /\ d \in Conns /\ s.conns[d] = IdleConn
    BY DEF Sound, Typed, Pooled, Spare, ToSet
  <2>2. \A d \in Spare(t) : t.conns[d] = IdleConn
    BY <1>7, <1>12, <1>14, <2>1
  <2> QED
    BY <1>7, <2>2 DEF Sound, Pooled
<1>16. \A q \in Params : (IsOpen(t, q) <=> IsOpen(s, q)) /\ ps[q].exc = s.param[q].exc
  BY <1>7, <1>11, <1>13 DEF IsOpen
<1>17. TimersMatch(t, X)
  <2>1. \A i \in LiveIds(s.wheel) \ Requests(s.wheel) : Owner(s.wheel, i) \in Conns
    BY LiveIs DEF Sound, Typed
  <2>2. \A d \in Conns : cs[d].timer = s.conns[d].timer
    BY <1>10, <1>12
  <2> QED
    BY <1>7, <2>1, <2>2 DEF Sound, TimersMatch
<1>18. RequestsMatch(t, X, {})
  BY <1>7, <1>16 DEF Sound, RequestsMatch
<1>19. \A q \in Params : IsOpen(s, q) => s.param[q].exc # 0 /\ s.param[q].conn \in Conns \cup {NoConn}
  BY DEF IsOpen, Sound, Typed, Param
<1>20. ConnsMatch(t, Y, {})
  <2>1. ASSUME NEW q \in Params, IsOpen(t, q), ps[q].conn # NoConn
        PROVE  cs[ps[q].conn].id = ps[q].exc
    <3>1. CASE q = p
      BY <1>10, <1>11, <1>12, <1>13, <3>1
    <3>2. CASE q # p
      <4>1. ps[q] = s.param[q] /\ IsOpen(s, q)
        BY <1>13, <1>16, <2>1, <3>2
      <4>2. s.conns[s.param[q].conn].id = s.param[q].exc /\ s.param[q].conn \in Conns /\ s.param[q].exc # 0
        BY <1>19, <2>1, <4>1 DEF Sound, ConnsMatch
      <4>3. s.param[q].conn # c
        BY <4>2
      <4> QED
        BY <1>12, <4>1, <4>2, <4>3
    <3> QED
      BY <3>1, <3>2
  <2>2. \A d \in Conns \ Y : cs[d].asked \in {0, cs[d].id}
    BY <1>10, <1>12 DEF Sound, ConnsMatch
  <2>3. \A d \in Y : d \in Conns /\ d \notin Spare(t) /\ cs[d].id = 0
    BY <1>12, <1>14 DEF Sound, ConnsMatch
  <2> QED
    BY <1>7, <2>1, <2>2, <2>3 DEF ConnsMatch
<1>21. Up(s, X) => Up(t, X)
  <2>1. SUFFICES ASSUME Up(s, X), ~s.down, NEW d \in Conns, cs[d].id # 0
                 PROVE  \E q \in Params : IsOpen(t, q) /\ ps[q].exc = cs[d].id /\ ps[q].conn = d
    BY <1>7 DEF Up
  <2>2. CASE d = c
    BY <1>10, <1>11, <1>12, <1>13, <1>16, <2>2
  <2>3. CASE d # c
    <3>1. cs[d] = s.conns[d]
      BY <1>12, <2>3
    <3>2. PICK q \in Params : IsOpen(s, q) /\ s.param[q].exc = cs[d].id /\ s.param[q].conn = d
      BY <2>1, <3>1 DEF Up
    <3>3. q # p /\ ps[q] = s.param[q]
      BY <1>13, <3>2, DCAssumption
    <3> QED
      BY <1>16, <3>2, <3>3
  <2> QED
    BY <2>2, <2>3
<1>22. \A V : Frame(V, s, t)
  <2>1. \A q \in Params : /\ t.param[q].exc = s.param[q].exc /\ t.param[q].at = s.param[q].at
                          /\ t.param[q].got = s.param[q].got
    BY <1>7, <1>11, <1>13
  <2>2. \A q \in Params : Posted(t, q) <=> Posted(s, q)
    BY <2>1 DEF Posted
  <2>3. \A d \in Conns : t.conns[d].count = s.conns[d].count
    BY <1>7, <1>10, <1>12
  <2>4. Calm(s, t) /\ \A V : Lasts(V, s, t)
    BY <2>1, <2>2 DEF Calm, Lasts
  <2>5. \A V : Timing(V, s, t)
    BY <1>7, SameTiming
  <2> QED
    BY <1>7, <2>3, <2>4, <2>5 DEF Frame, Aside, Counts, Goes
<1> QED
  BY <1>5, <1>7, <1>14, <1>15, <1>16, <1>17, <1>18, <1>20, <1>21, <1>22 DEF Sound

\* The delays fit the rings.
LEMMA DelayIs ==
  /\ \A p \in Params : Fits(Delay[p]) /\ Delay[p] \in Nat
  /\ Fits(ConnectDelay) /\ Fits(HeartbeatDelay) /\ ConnectDelay \in Nat /\ HeartbeatDelay \in Nat
<1>1. \A d \in {ReadDelay, WriteDelay, ConnectDelay, HeartbeatDelay} : Fits(d) /\ d \in Nat
  BY DCAssumption DEF Fits, Pow
<1>2. \A p \in Params : Delay[p] \in {ReadDelay, WriteDelay}
  BY DEF Delay
<1> QED
  BY <1>1, <1>2

\* post_dc_request
LEMMA PostKeeps ==
  ASSUME NEW s, NEW X, NEW Y, Sound(s, X, Y, {}), now \in Nat,
         NEW p \in Params, NEW route \in Routes, CanPost(s, p, route)
  PROVE  /\ Sound(Post(s, p, route), X, Y, {}) /\ Wide(X, s, Post(s, p, route))
         /\ Up(s, X) => Up(Post(s, p, route), X)
<1>1. PICK id : id = NextId(s.wheel)
  OBVIOUS
<1>2. PICK v : v = Schedule(s.wheel, <<"request", p>>, Delay[p], now)
  OBVIOUS
<1>3. Takes(s.wheel, v, id, <<"request", p>>)
  <2>1. <<"request", p>> \in Acts
    BY DEF Acts
  <2> QED
    BY <1>1, <1>2, <2>1, ScheduleIs, DelayIs DEF Sound, Typed
<1>4. PICK r : r = [exc |-> id, at |-> now, conn |-> NoConn, got |-> <<>>]
  OBVIOUS
<1>5. PICK t : t = Clocked(s, v, id, p, r)
  OBVIOUS
<1>6. ~Posted(s, p)
  BY DEF CanPost
<1>7. /\ Sound(t, X, Y, {}) /\ Wide(X, s, t) /\ (Up(s, X) => Up(t, X))
      /\ IsOpen(t, p) /\ t.param[p].exc = id /\ t.param[p].conn = NoConn
      /\ t.conns = s.conns /\ t.pool = s.pool /\ t.unmade = s.unmade
      /\ t.param[p].at = now /\ \A q \in Params : q # p => t.param[q] = s.param[q]
  BY <1>1, <1>2, <1>3, <1>4, <1>5, <1>6, TimedKeeps, DelayIs, SMTT(90)
<1>13. Posted(t, p)
  BY <1>7 DEF IsOpen, Posted
<1>8. [s EXCEPT !.wheel = Schedule(@, <<"request", p>>, Delay[p], now), !.ids = @ \cup {id},
                !.param[p] = [NewParam EXCEPT !.exc = id, !.at = now]] = t
  <2>1. [NewParam EXCEPT !.exc = id, !.at = now] = r
    <3>1. PICK n : n = NewParam
      OBVIOUS
    <3>2. n = [exc |-> 0, at |-> 0, conn |-> NoConn, got |-> <<>>]
      BY <3>1 DEF NewParam
    <3>3. PICK m : m = [n EXCEPT !.exc = id]
      OBVIOUS
    <3>4. m = [exc |-> id, at |-> 0, conn |-> NoConn, got |-> <<>>]
      BY <3>2, <3>3
    <3>5. [m EXCEPT !.at = now] = [exc |-> id, at |-> now, conn |-> NoConn, got |-> <<>>]
      BY <3>4
    <3> QED
      BY <1>4, <3>1, <3>3, <3>5
  <2> QED
    BY <1>2, <1>5, <2>1 DEF Clocked
<1>9. PICK c : c = NextConn(s)
  OBVIOUS
<1>10. /\ Post(s, p, "unknown") = t
       /\ Post(s, p, "failing") = HandedBack(Pushed(Reset(CancelRequest(Popped(t), id), c), c), p, "refused")
       /\ Post(s, p, "connecting") = Linked(
              ConnTimer([Popped(t) EXCEPT !.conns[c].state = "CONNECTING", !.conns[c].sock = "opening"],
                        c, "connect", ConnectDelay), c, id, p)
  BY <1>1, <1>8, <1>9 DEF Post, Linked
<1>11. CASE route = "unknown"
  BY <1>7, <1>10, <1>11
<1>12. CASE route # "unknown"
  <2>1. CanPop(t) /\ c = NextConn(t)
    <3>1. CanPop(t)
      BY <1>7, <1>12 DEF CanPost, CanPop
    <3>2. Refilled(t).pool = Refilled(s).pool
      <4>1. CASE s.pool # <<>>
        BY <1>7, <4>1 DEF Refilled
      <4>2. CASE s.pool = <<>>
        <5>1. PICK n : n = Min({PoolStep, Cardinality(s.unmade)})
          OBVIOUS
        <5>2. PICK made : made = CHOOSE f \in {g \in [1 .. n -> s.unmade] : IsInjective(g)} : TRUE
          OBVIOUS
        <5>3. PICK rest : rest = s.unmade \ ToSet(made)
          OBVIOUS
        <5>4. /\ Refilled(s) = [s EXCEPT !.pool = made, !.unmade = rest]
              /\ Refilled(t) = [t EXCEPT !.pool = made, !.unmade = rest]
          BY <1>7, <4>2, <5>1, <5>2, <5>3 DEF Refilled
        <5> QED
          BY <1>7, <5>4 DEF Sound, Typed, IsClient, Client
      <4> QED
        BY <4>1, <4>2
    <3> QED
      BY <1>9, <3>1, <3>2 DEF NextConn
  <2>2. PICK u : u = Popped(t)
    OBVIOUS
  <2>3. /\ Sound(u, X, Y, {}) /\ (\A V : Frame(V, t, u)) /\ (Up(t, X) => Up(u, X))
        /\ u.param = t.param /\ u.conns = t.conns /\ u.wheel = t.wheel
        /\ c \in Conns /\ u.conns[c] = IdleConn /\ c \notin Spare(u) /\ c \notin Y
    BY <1>7, <2>1, <2>2, PopKeeps
  <2>4. IsOpen(u, p) /\ u.param[p].exc = id /\ u.param[p].conn = NoConn
    BY <1>7, <2>3 DEF IsOpen
  <2>5. CASE route = "failing"
    <3>1. PICK x : x = CancelRequest(u, id)
      OBVIOUS
    <3>2. /\ Sound(x, X, Y, {p}) /\ Frame(X, u, x) /\ Parting(x, p) /\ (Up(u, X) => Up(x, X))
          /\ x.conns = u.conns /\ Spare(x) = Spare(u)
      BY <2>3, <2>4, <3>1, CancelKeeps
    <3>3. \A q \in Params \ {p} : IsOpen(x, q) => x.param[q].conn # c
      <4>1. x.conns[c].id = 0 /\ c # NoConn
        BY <2>3, <3>2, DCAssumption, SMTT(90) DEF IdleConn
      <4> QED
        BY <3>2, <4>1 DEF Sound, ConnsMatch, IsOpen
    <3>4. PICK y : y = Reset(x, c)
      OBVIOUS
    <3>5. /\ Sound(y, X, Y \ {c}, {p}) /\ Frame(X, x, y) /\ (Up(x, X) => Up(y, X))
          /\ y.param = x.param /\ y.conns = [x.conns EXCEPT ![c] = IdleConn] /\ Spare(y) = Spare(x)
      BY <2>3, <3>2, <3>3, <3>4, ResetKeeps, SMTT(90)
    <3>6. Y \ {c} = Y
      BY <2>3
    <3>7. Sound(y, X, Y, {p}) /\ c \notin Spare(y) /\ y.conns[c] = IdleConn /\ y.conns = x.conns
      <4>1. x.conns \in [Conns -> Conn] /\ x.conns[c] = IdleConn
        BY <2>3, <3>2 DEF Sound, Typed
      <4>2. [x.conns EXCEPT ![c] = IdleConn] = x.conns
        BY <4>1
      <4> QED
        BY <2>3, <3>2, <3>5, <3>6, <4>1, <4>2
    <3>8. PICK z : z = Pushed(y, c)
      OBVIOUS
    <3>9. /\ Sound(z, X, Y, {p}) /\ Frame(X, y, z) /\ (Up(y, X) => Up(z, X))
          /\ z.param = y.param /\ z.conns = y.conns
      BY <2>3, <3>7, <3>8, PushKeeps
    <3>10. Parting(z, p)
      BY <3>2, <3>5, <3>7, <3>9 DEF Parting, Frame, Aside
    <3>11. PICK e : e = HandedBack(z, p, "refused")
      OBVIOUS
    <3>12. Sound(e, X, Y, {}) /\ Frame(X, z, e) /\ (Up(z, X) => Up(e, X)) /\ e.param[p].got = <<"refused">>
      <4>1. "refused" \in Hows
        BY DEF Hows
      <4> QED
        BY <3>9, <3>10, <3>11, <4>1, HandKeeps, ZenonT(40)
    <3>13. Post(s, p, route) = e
      BY <1>10, <2>2, <2>5, <3>1, <3>4, <3>8, <3>11
    <3>14. Wide(X, s, e)
      <4>1. Frame(X, t, x)
        BY <2>3, <3>2, FrameTwice
      <4>2. Frame(X, t, y)
        BY <4>1, <3>5, FrameTwice
      <4>3. Frame(X, t, z)
        BY <4>2, <3>9, FrameTwice
      <4>4. Frame(X, t, e)
        BY <4>3, <3>12, FrameTwice
      <4> QED
        BY <1>7, <1>13, <3>12, <4>4, WideOne
    <3> QED
      BY <1>7, <2>3, <3>2, <3>5, <3>9, <3>12, <3>13, <3>14
  <2>6. CASE route = "connecting"
    <3>1. PICK k : k = [IdleConn EXCEPT !.state = "CONNECTING", !.sock = "opening"]
      OBVIOUS
    <3>2. k \in Conn /\ k.id = 0 /\ k.timer = 0 /\ k.asked = 0
      BY <3>1 DEF IdleConn, Conn
    <3>3. PICK x : x = With(u, c, k)
      OBVIOUS
    <3>4. [u EXCEPT !.conns[c].state = "CONNECTING", !.conns[c].sock = "opening"] = x
      <4>1. c \in DOMAIN u.conns
        BY <2>3 DEF Sound, Typed
      <4> QED
        BY <2>3, <3>1, <3>3, <4>1, ZenonT(90) DEF With, Sound, Typed, IsClient, Client, Conn, IdleConn
    <3>5. u.conns[c].id = 0 /\ u.conns[c].timer = 0
      BY <2>3 DEF IdleConn
    <3>6. /\ Sound(x, X, Y \ {c}, {}) /\ Rewired(u, x, c, k)
          /\ (Up(u, X) => Up(x, X))
      BY <2>3, <3>2, <3>3, <3>5, TouchKeeps
    <3>7. /\ Sound(x, X, Y, {}) /\ c \notin Spare(x) /\ x.conns[c] = k /\ x.param = u.param
          /\ X \in SUBSET LiveIds(x.wheel)
      <4>1. Y \ {c} = Y
        BY <2>3
      <4> QED
        BY <2>3, <3>6, <4>1 DEF Rewired, Sound, TimersMatch
    <3>8. PICK y : y = ConnTimer(x, c, "connect", ConnectDelay)
      OBVIOUS
    <3>9. /\ Sound(y, X, Y, {}) /\ Frame(X, x, y) /\ (Up(x, X) => Up(y, X))
          /\ y.param = x.param /\ Spare(y) = Spare(x)
          /\ \E i \in Nat : y.conns = Retimed(x, c, i)
      <4>1. "connect" \in {"connect", "heartbeat"} /\ Fits(ConnectDelay) /\ x.conns[c].timer = 0
        BY <3>2, <3>7, DelayIs
      <4>2. PICK kind \in {"connect", "heartbeat"} : kind = "connect"
        OBVIOUS
      <4>3. y = ConnTimer(x, c, kind, ConnectDelay)
        BY <3>8, <4>2
      <4> QED
        BY <2>3, <3>7, <4>1, <4>3, ConnTimerKeeps
    <3>10. y.conns[c].id = 0
      <4>1. PICK i \in Nat : y.conns = [x.conns EXCEPT ![c].timer = i]
        BY <3>9 DEF Retimed
      <4>2. c \in DOMAIN x.conns /\ x.conns[c] \in Conn /\ x.conns[c].id = 0
        BY <2>3, <3>2, <3>7 DEF Sound, Typed
      <4> QED
        BY <4>1, <4>2 DEF Conn
    <3>11. IsOpen(y, p) /\ y.param[p].conn = NoConn /\ id = y.param[p].exc /\ c \notin Spare(y)
      BY <2>4, <3>7, <3>9 DEF IsOpen
    <3>12. PICK z : z = Linked(y, c, id, p)
      OBVIOUS
    <3>13. Sound(z, X, Y, {}) /\ Frame(X, y, z) /\ (Up(y, X) => Up(z, X)) /\ IsOpen(z, p)
      <4>1. Sound(y, X, Y, {}) /\ c \in Conns /\ c \notin Y
        BY <2>3, <3>9
      <4>2. /\ Sound(z, X, Y, {}) /\ (\A V : Frame(V, y, z)) /\ (Up(y, X) => Up(z, X))
            /\ \A q \in Params : IsOpen(z, q) <=> IsOpen(y, q)
        BY <4>1, <3>10, <3>11, <3>12, LinkKeeps
      <4> QED
        BY <4>2, <3>11
    <3>14. Post(s, p, route) = z
      BY <1>10, <2>2, <2>6, <3>4, <3>8, <3>12
    <3>15. Wide(X, s, z)
      <4>1. k.count = 0
        BY <3>1 DEF IdleConn
      <4>2. Frame(X, u, x)
        BY <2>3, <3>6, <4>1, RewiredGoes
      <4>3. Frame(X, t, x)
        BY <2>3, <4>2, FrameTwice
      <4>4. Frame(X, t, y)
        BY <4>3, <3>9, FrameTwice
      <4>5. Frame(X, t, z)
        BY <4>4, <3>13, FrameTwice
      <4>6. z.param[p].got = <<>>
        BY <3>13 DEF IsOpen
      <4> QED
        BY <1>7, <1>13, <4>5, <4>6, WideOne
    <3> QED
      BY <1>7, <2>3, <3>6, <3>9, <3>13, <3>14, <3>15
  <2> QED
    BY <1>12, <2>5, <2>6 DEF Routes
<1> QED
  BY <1>11, <1>12

-----------------------------------------------------------------------------
(* Callbacks                                                               *)

Reacting(r) ==
  \/ r.do = "nothing"
  \/ r.do = "post" /\ r.p \in Params /\ r.route \in Routes
  \/ r.do = "cancel" /\ r.p \in Params

\* A reaction is nothing, a request or a cancellation.
LEMMA ReactionsAre ==
  ASSUME NEW r \in Reactions
  PROVE  Reacting(r)
<1>1. CASE r \in [do : {"nothing"}]
  BY <1>1 DEF Reacting
<1>2. CASE r \in [do : {"post"}, p : {p \in Params : ~Posted(dc, p)}, route : Routes]
  BY <1>2 DEF Reacting
<1>3. CASE r \in [do : {"cancel"}, p : {p \in Params : IsOpen(dc, p)}]
  BY <1>3 DEF Reacting
<1> QED
  BY <1>1, <1>2, <1>3 DEF Reactions

\* What the application does in a callback.
LEMMA ReactKeeps ==
  ASSUME NEW s, NEW X, NEW Y, Sound(s, X, Y, {}), now \in Nat, NEW r, Reacting(r), CanReact(s, r)
  PROVE  /\ Sound(React(s, r), X, Y, {}) /\ Wide(X, s, React(s, r))
         /\ Up(s, X) => Up(React(s, r), X)
<1>1. CASE r.do = "nothing"
  <2>1. Frame(X, s, s)
    BY SameGoes DEF Frame, Aside, Counts
  <2> QED
    BY <1>1, <2>1, WideIs DEF React
<1>2. CASE r.do = "post"
  <2>1. r.p \in Params /\ r.route \in Routes /\ CanPost(s, r.p, r.route) /\ React(s, r) = Post(s, r.p, r.route)
    BY <1>2 DEF Reacting, CanReact, React
  <2> QED
    BY <2>1, PostKeeps
<1>3. CASE r.do = "cancel"
  <2>1. r.p \in Params /\ IsOpen(s, r.p) /\ React(s, r) = Withdraw(s, r.p)
    BY <1>3 DEF Reacting, CanReact, React
  <2> QED
    BY <2>1, WithdrawKeeps, WideIs
<1> QED
  BY <1>1, <1>2, <1>3 DEF Reacting

\* A connection in use that works for nobody goes back to the pool.
LEMMA PutBackKeeps ==
  ASSUME NEW s, NEW X, NEW c \in Conns, Sound(s, X, {c}, {})
  PROVE  /\ Sound(Pushed(Reset(s, c), c), X, {}, {}) /\ Frame(X, s, Pushed(Reset(s, c), c))
         /\ Up(s, X) => Up(Pushed(Reset(s, c), c), X)
         /\ Spare(Pushed(Reset(s, c), c)) = Spare(s) \cup {c}
         /\ Pushed(Reset(s, c), c).param = s.param
<1>1. c \notin Spare(s) /\ s.conns[c].id = 0 /\ c # NoConn
  BY DCAssumption DEF Sound, ConnsMatch
<1>2. \A p \in Params \ {} : IsOpen(s, p) => s.param[p].conn # c
  BY <1>1 DEF Sound, ConnsMatch, IsOpen
<1>3. PICK u : u = Reset(s, c)
  OBVIOUS
<1>4. /\ Sound(u, X, {c} \ {c}, {}) /\ Frame(X, s, u) /\ (Up(s, X) => Up(u, X))
      /\ u.conns = [s.conns EXCEPT ![c] = IdleConn] /\ Spare(u) = Spare(s) /\ u.param = s.param
  BY <1>1, <1>2, <1>3, ResetKeeps
<1>5. Sound(u, X, {}, {}) /\ u.conns[c] = IdleConn
  <2>1. {c} \ {c} = {}
    OBVIOUS
  <2>2. c \in DOMAIN s.conns
    BY DEF Sound, Typed
  <2> QED
    BY <1>4, <2>1, <2>2
<1>6. PICK t : t = Pushed(u, c)
  OBVIOUS
<1>7. /\ Sound(t, X, {}, {}) /\ Frame(X, u, t) /\ (Up(u, X) => Up(t, X))
      /\ Spare(t) = Spare(u) \cup {c} /\ t.param = u.param
  <2>1. PICK W : W = {}
    OBVIOUS
  <2>2. Sound(u, X, W, {}) /\ c \notin Spare(u) /\ c \notin W /\ u.conns[c] = IdleConn
    BY <1>1, <1>4, <1>5, <2>1
  <2> QED
    BY <1>6, <2>1, <2>2, PushKeeps
<1>8. Frame(X, s, t)
  BY <1>4, <1>7, FrameTwice
<1> QED
  BY <1>3, <1>4, <1>6, <1>7, <1>8

\* handle_close of a connection in use.
LEMMA AfterLossKeeps ==
  ASSUME NEW s, NEW X, Sound(s, X, {}, {}), Up(s, X), now \in Nat, NEW c \in Conns, c \notin Spare(s),
         NEW r, Reacting(r), CanReact(Told(s, c), r)
  PROVE  /\ Sound(AfterLoss(s, c, r), X, {}, {}) /\ Wide(X, s, AfterLoss(s, c, r))
         /\ Up(AfterLoss(s, c, r), X)
         /\ c \in Spare(AfterLoss(s, c, r))
         /\ r.do = "nothing" => Spare(AfterLoss(s, c, r)) = Spare(s) \cup {c} /\ Frame(X, s, AfterLoss(s, c, r))
<1>1. PICK t : t = Told(s, c)
  OBVIOUS
<1>2. Sound(t, X, {c}, {}) /\ Frame(X, s, t) /\ Up(t, X) /\ Spare(t) = Spare(s)
  <2>1. Sound(t, X, {} \cup {c}, {}) /\ Frame(X, s, t) /\ Up(t, X) /\ Spare(t) = Spare(s)
    BY <1>1, ToldKeeps
  <2>2. {} \cup {c} = {c}
    OBVIOUS
  <2> QED
    BY <2>1, <2>2
<1>3. PICK u : u = React(t, r)
  OBVIOUS
<1>4. Sound(u, X, {c}, {}) /\ Wide(X, t, u) /\ Up(u, X)
  BY <1>1, <1>2, <1>3, ReactKeeps
<1>5. PICK v : v = Pushed(Reset(u, c), c)
  OBVIOUS
<1>6. Sound(v, X, {}, {}) /\ Frame(X, u, v) /\ Up(v, X) /\ Spare(v) = Spare(u) \cup {c} /\ v.param = u.param
  BY <1>4, <1>5, PutBackKeeps
<1>7. AfterLoss(s, c, r) = v
  BY <1>1, <1>3, <1>5 DEF AfterLoss
<1>8. Wide(X, s, v)
  <2>1. Wide(X, s, u)
    BY <1>2, <1>4, WideAfter
  <2> QED
    BY <1>6, <2>1, WideStill
<1>9. ASSUME r.do = "nothing"
      PROVE  Spare(v) = Spare(s) \cup {c} /\ Frame(X, s, v)
  <2>1. u = t
    BY <1>3, <1>9 DEF React
  <2> QED
    BY <1>2, <1>6, <2>1, FrameTwice
<1> QED
  BY <1>6, <1>7, <1>8, <1>9

\* A reaction to a loss is a reaction of the application.
LEMMA MayLoseIs ==
  ASSUME NEW s, NEW c, NEW r, MayLose(s, c, r)
  PROVE  CanReact(Told(s, c), r)
BY DEF MayLose, MayReact, CanReact

\* The queue loses the timers nobody counts on.
LEMMA DropKeeps ==
  ASSUME NEW s, NEW D, Sound(s, D, {}, {}), NEW v, Drops(s.wheel, v, D), NEW t, t = [s EXCEPT !.wheel = v]
  PROVE  /\ Sound(t, {}, {}, {})
         /\ Up(s, D) => Up(t, {})
         /\ t.conns = s.conns /\ t.hup = s.hup /\ t.down = s.down /\ t.param = s.param /\ t.wheel = v
<1>1. t = Client(s, v, s.conns, s.pool, s.ids, s.param)
  BY DEF Sound, Typed, IsClient, Client
<1>2. /\ t.wheel = v /\ t.conns = s.conns /\ t.pool = s.pool /\ t.unmade = s.unmade
      /\ t.ids = s.ids /\ t.param = s.param /\ t.hup = s.hup /\ t.down = s.down
  BY <1>1 DEF Client
<1>3. IsClient(t)
  BY <1>1, <1>2 DEF IsClient, Client
<1>4. WheelOK(v)
  BY DEF Drops
<1>5. /\ LiveIds(v) = LiveIds(s.wheel) \ D /\ Requests(v) = Requests(s.wheel) \ D
      /\ \A i \in LiveIds(v) : Owner(v, i) = Owner(s.wheel, i)
  BY DropsIs
<1>6. Requests(v) \subseteq LiveIds(v)
  BY DEF Requests
<1>7. Typed(t) /\ Pooled(t)
  BY <1>2, <1>3, <1>4 DEF Sound, Typed, Pooled, Spare
<1>8. TimersMatch(t, {})
  BY <1>2, <1>5 DEF Sound, TimersMatch
<1>9. RequestsMatch(t, {}, {})
  BY <1>2, <1>5, <1>6 DEF Sound, RequestsMatch, IsOpen
<1>10. ConnsMatch(t, {}, {})
  BY <1>2 DEF Sound, ConnsMatch, IsOpen, Spare
<1>11. ASSUME Up(s, D)
       PROVE  Up(t, {})
  <2>1. t.ids = Requests(t.wheel) \ {}
    BY <1>2, <1>5, <1>11 DEF Up
  <2>2. \/ t.down
        \/ \A c \in Conns : t.conns[c].id # 0 =>
             \E p \in Params : IsOpen(t, p) /\ t.param[p].exc = t.conns[c].id /\ t.param[p].conn = c
    BY <1>2, <1>11 DEF Up, IsOpen
  <2> QED
    BY <2>1, <2>2 DEF Up
<1> QED
  BY <1>2, <1>7, <1>8, <1>9, <1>10, <1>11 DEF Sound

\* After the callback of a timer.
LEMMA ReturnedKeeps ==
  ASSUME NEW s, NEW id, Sound(s, {id}, {}, {}), Up(s, {id}), now \in Nat
  PROVE  /\ Sound(Returned(s, id), {}, {}, {}) /\ Up(Returned(s, id), {})
         /\ Returned(s, id).conns = s.conns /\ Returned(s, id).hup = s.hup /\ Returned(s, id).down = s.down
         /\ Returned(s, id).param = s.param /\ Returned(s, id).wheel = Fired(s.wheel, id, now)
<1>1. PICK v : v = Fired(s.wheel, id, now)
  OBVIOUS
<1>2. WheelOK(s.wheel) /\ id \in LiveIds(s.wheel)
  BY DEF Sound, Typed, TimersMatch
<1>3. Drops(s.wheel, v, {id})
  BY <1>1, <1>2, FiredIs
<1>4. PICK t : t = [s EXCEPT !.wheel = v]
  OBVIOUS
<1>5. Returned(s, id) = t
  BY <1>1, <1>4 DEF Returned
<1> QED
  BY <1>1, <1>3, <1>4, <1>5, DropKeeps

-----------------------------------------------------------------------------
(* The invariant                                                           *)

Kept(s) == Sound(s, {}, {}, {}) /\ Up(s, {})

\* No other event comes between the answer on a connection and a hang-up of
\* the same event, which finds a connection in use.
HangupNext(s) ==
  s.hup # NoConn => s.hup \in Conns /\ s.conns[s.hup].state # "IDLE" /\ ~s.wheel.scan.on

ClientInv == now \in Nat /\ Kept(dc) /\ HangupNext(dc)

\* hup is nothing that the rest depends on.
LEMMA HupKeeps ==
  ASSUME NEW s, Kept(s), NEW h, NEW t, t = [s EXCEPT !.hup = h]
  PROVE  /\ Kept(t) /\ t.hup = h /\ t.conns = s.conns /\ t.wheel = s.wheel
         /\ t.param = s.param /\ t.down = s.down
<1>1. t = [wheel |-> s.wheel, conns |-> s.conns, pool |-> s.pool, unmade |-> s.unmade, ids |-> s.ids,
           param |-> s.param, hup |-> h, down |-> s.down]
  BY DEF Kept, Sound, Typed, IsClient, Client
<1>2. /\ t.wheel = s.wheel /\ t.conns = s.conns /\ t.pool = s.pool /\ t.unmade = s.unmade
      /\ t.ids = s.ids /\ t.param = s.param /\ t.hup = h /\ t.down = s.down
  BY <1>1
<1>3. IsClient(t)
  BY <1>1, <1>2 DEF IsClient, Client
<1>4. Typed(t) /\ Pooled(t)
  BY <1>2, <1>3 DEF Kept, Sound, Typed, Pooled, Spare
<1>5. TimersMatch(t, {}) /\ RequestsMatch(t, {}, {}) /\ ConnsMatch(t, {}, {})
  BY <1>2 DEF Kept, Sound, TimersMatch, RequestsMatch, ConnsMatch, IsOpen, Spare
<1>6. Up(t, {})
  BY <1>2 DEF Kept, Up, IsOpen
<1> QED
  BY <1>2, <1>4, <1>5, <1>6 DEF Kept, Sound

\* No connection has missed four heartbeats.
Beats(s) == \A c \in Conns : s.conns[c].count \in 0..3

\* What an event does to client and timers between two scans.
Acted(s, t) == ~s.wheel.scan.on /\ Roams({}, s, t) /\ Counts(s, t) /\ t.down \in {s.down, TRUE}

\* What a timer's owner does, before the timer is deleted.
Ran(s, t) ==
  \E x : /\ Firing(s.wheel) /\ Roams({FiringId(s.wheel)}, s, x)
         /\ WheelOK(x.wheel) /\ x.wheel.scan = s.wheel.scan
         /\ t.wheel = Fired(x.wheel, FiringId(s.wheel), now) /\ t.param = x.param
         /\ t.down = s.down /\ (Beats(s) => Beats(t))

\* A call is an event, also when only a flag of the client changes after it.
LEMMA ActedIs ==
  ASSUME NEW s, ~s.wheel.scan.on, NEW u, Wide({}, s, u), NEW t, t.wheel = u.wheel, t.param = u.param,
         t.conns = u.conns, t.down \in {u.down, TRUE}
  PROVE  Acted(s, t)
<1>1. Roams({}, s, t)
  BY SameGoes, RoamsStill DEF Wide
<1>2. Counts(s, t) /\ t.down \in {s.down, TRUE}
  BY DEF Wide, Aside, Counts
<1> QED
  BY <1>1, <1>2 DEF Acted

\* A count that goes on or from 0 is as small.
LEMMA CountsKeep ==
  ASSUME NEW s, NEW t, Counts(s, t), Beats(s)
  PROVE  Beats(t)
<1>1. \A c \in Conns : t.conns[c].count \in 0..3
  BY DEF Counts, Beats
<1> QED
  BY <1>1 DEF Beats

\* A timer's owner has run, and the timer is deleted.
LEMMA RanIs ==
  ASSUME NEW s, Firing(s.wheel), NEW id, id = FiringId(s.wheel), NEW x, Roams({id}, s, x), WheelOK(x.wheel),
         x.wheel.scan = s.wheel.scan, Beats(s) => Beats(x), x.down = s.down,
         NEW t, t.wheel = Fired(x.wheel, id, now), t.param = x.param, t.conns = x.conns, t.down = x.down
  PROVE  Ran(s, t)
<1>1. Beats(s) => Beats(t)
  BY DEF Beats
<1> QED
  BY <1>1 DEF Ran

\* The timer a scan serves is live.
LEMMA FiringIs ==
  ASSUME ClientInv, Firing(dc.wheel), NEW id, id = FiringId(dc.wheel)
  PROVE  id \in LiveIds(dc.wheel) /\ dc.hup = NoConn /\ FiringAct[1] = dc.wheel.heap[id].act[1]
         /\ FiringAct[2] = Owner(dc.wheel, id)
BY DEF ClientInv, HangupNext, Firing, FiringId, Live, LiveIds, FiringAct, Owner

\* One lemma for each action.
LEMMA AppPostKeeps ==
  ASSUME ClientInv, NEW p \in Params, NEW route \in Routes, AppPost(p, route)
  PROVE  Kept(dc') /\ HangupNext(dc') /\ Acted(dc, dc')
<1>1. dc' = Post(dc, p, route) /\ CanPost(dc, p, route) /\ dc.hup = NoConn /\ ~dc.wheel.scan.on
  BY DEF AppPost, Rest
<1>2. Sound(dc', {}, {}, {}) /\ Wide({}, dc, dc') /\ Up(dc', {})
  BY <1>1, PostKeeps DEF ClientInv, Kept
<1>3. Acted(dc, dc')
  BY <1>1, <1>2, ActedIs
<1> QED
  BY <1>1, <1>2, <1>3 DEF Kept, HangupNext, Wide, Aside

\* cancel_dc_request
LEMMA AppCancelKeeps ==
  ASSUME ClientInv, NEW p \in Params, AppCancel(p)
  PROVE  Kept(dc') /\ HangupNext(dc') /\ Acted(dc, dc')
<1>1. dc' = Withdraw(dc, p) /\ IsOpen(dc, p) /\ dc.hup = NoConn /\ ~dc.wheel.scan.on
  BY DEF AppCancel, Rest
<1>2. Sound(dc', {}, {}, {}) /\ Frame({}, dc, dc') /\ Up(dc', {})
  BY <1>1, WithdrawKeeps DEF ClientInv, Kept
<1>3. Acted(dc, dc')
  BY <1>1, <1>2, ActedIs, WideIs
<1> QED
  BY <1>1, <1>2, <1>3 DEF Kept, HangupNext, Frame, Aside

\* expire
LEMMA ScanKeeps ==
  ASSUME ClientInv, Scan
  PROVE  /\ Kept(dc') /\ HangupNext(dc')
         /\ dc'.wheel = Expire(dc.wheel, now) /\ dc'.param = dc.param
         /\ dc'.conns = dc.conns /\ dc'.down = dc.down
<1>1. PICK v : v = Expire(dc.wheel, now)
  OBVIOUS
<1>2. dc' = [dc EXCEPT !.wheel = v] /\ dc.hup = NoConn
  BY <1>1 DEF Scan, Rest
<1>3. Drops(dc.wheel, v, {})
  BY <1>1, ExpireIs DEF ClientInv, Kept, Sound, Typed
<1>4. /\ Sound(dc', {}, {}, {}) /\ Up(dc', {}) /\ dc'.hup = dc.hup /\ dc'.wheel = v
      /\ dc'.param = dc.param /\ dc'.conns = dc.conns /\ dc'.down = dc.down
  BY <1>2, <1>3, DropKeeps DEF ClientInv, Kept
<1> QED
  BY <1>1, <1>2, <1>4 DEF Kept, HangupNext

\* CCoreDCClient::handle_timeout
LEMMA RequestTimeoutKeeps ==
  ASSUME ClientInv, NEW r \in Reactions, RequestTimeout(r)
  PROVE  Kept(dc') /\ HangupNext(dc') /\ Ran(dc, dc')
<1>1. PICK id : id = FiringId(dc.wheel)
  OBVIOUS
<1>2. PICK p : p = Owner(dc.wheel, id)
  OBVIOUS
<1>3. PICK e : e = Erased(dc, id)
  OBVIOUS
<1>4. PICK u : u = Parted(e, p)
  OBVIOUS
<1>5. PICK t : t = Answered(u, p, "timeout")
  OBVIOUS
<1>6. PICK x : x = React(t, r)
  OBVIOUS
<1>7. id \in Requests(dc.wheel) /\ dc.hup = NoConn /\ p = FiringAct[2]
  BY <1>1, <1>2, FiringIs DEF RequestTimeout, Requests
<1>8. MayReact(t, p, r) /\ dc' = Returned(x, id)
  BY <1>1, <1>3, <1>4, <1>5, <1>6, <1>7 DEF RequestTimeout
<1>9. Sound(dc, {}, {}, {}) /\ Up(dc, {}) /\ now \in Nat
  BY DEF ClientInv, Kept
<1>10. p \in Params /\ IsOpen(dc, p) /\ id = dc.param[p].exc
  BY <1>2, <1>7, <1>9 DEF Sound, RequestsMatch
<1>11. Open(dc, {}, p, id)
  BY <1>9, <1>10, OpenIs
<1>12. Sound(dc, {id}, {}, {p})
  <2>1. Sound(dc, {} \cup {id}, {}, {p})
    BY <1>9, <1>10, LimboKeeps
  <2> QED
    BY <2>1
<1>13. Up(e, {id})
  <2>1. Up(e, {} \cup {id})
    BY <1>3, <1>9, <1>12, EraseKeeps
  <2> QED
    BY <2>1
<1>14. Sound(e, {id}, {}, {p}) /\ Frame({id}, dc, e) /\ e.param = dc.param /\ e.conns = dc.conns /\ Spare(e) = Spare(dc)
  BY <1>3, <1>12, EraseKeeps
<1>15. e.param[p].conn # NoConn =>
         /\ e.param[p].conn \in Conns \ Spare(e) /\ e.param[p].conn \notin {}
         /\ Unneeded(e, e.param[p].conn, {p})
  BY <1>11, <1>14 DEF Open, Unneeded, IsOpen
<1>16. Sound(u, {id}, {}, {p}) /\ Frame({id}, e, u) /\ Parting(u, p) /\ Up(u, {id})
  BY <1>4, <1>10, <1>13, <1>14, <1>15, PartKeeps
<1>17. Sound(t, {id}, {}, {}) /\ Frame({id}, u, t) /\ Up(t, {id})
  <2>1. Posted(e, p) /\ e.param[p].exc = id
    BY <1>10, <1>14 DEF Posted, IsOpen
  <2>2. u.param[p].exc \in {id}
    BY <1>10, <1>16, <2>1 DEF Frame, Goes, Lasts
  <2> QED
    BY <1>5, <1>10, <1>16, <2>2, AnswerKeeps DEF Hows
<1>18. Sound(x, {id}, {}, {}) /\ Wide({id}, t, x) /\ Up(x, {id})
  BY <1>6, <1>8, <1>9, <1>17, ReactKeeps, ReactionsAre DEF MayReact
<1>19. /\ Sound(dc', {}, {}, {}) /\ Up(dc', {}) /\ dc'.hup = x.hup
       /\ dc'.wheel = Fired(x.wheel, id, now) /\ dc'.param = x.param
       /\ dc'.conns = x.conns /\ dc'.down = x.down
  BY <1>8, <1>9, <1>18, ReturnedKeeps
<1>20. Wide({id}, dc, x)
  <2>1. Frame({id}, dc, u)
    BY <1>14, <1>16, FrameTwice
  <2>2. Frame({id}, dc, t)
    BY <1>17, <2>1, FrameTwice
  <2> QED
    BY <1>18, <2>2, WideAfter
<1>21. x.hup = dc.hup /\ x.down = dc.down /\ x.wheel.scan = dc.wheel.scan /\ Counts(dc, x) /\ Roams({id}, dc, x)
  BY <1>20 DEF Wide, Aside
<1>22. Ran(dc, dc')
  <2>1. Firing(dc.wheel) /\ WheelOK(x.wheel)
    BY <1>18 DEF RequestTimeout, Sound, Typed
  <2> QED
    BY <1>1, <1>19, <1>21, <2>1, CountsKeep, RanIs
<1> QED
  BY <1>7, <1>19, <1>21, <1>22 DEF Kept, HangupNext

\* The timer of a connection is served.
LEMMA ConnFiringIs ==
  ASSUME ClientInv, Firing(dc.wheel), FiringAct[1] # "request", NEW id, id = FiringId(dc.wheel),
         NEW c, c = FiringAct[2], NEW k, k.id = dc.conns[c].id, k.timer = 0, k.asked = dc.conns[c].asked,
         k \in Conn, NEW u, u = With(dc, c, k)
  PROVE  /\ c \in Conns /\ c \notin Spare(u) /\ dc.hup = NoConn /\ dc.conns[c] \in Conn
         /\ Sound(u, {id}, {}, {}) /\ Up(u, {id}) /\ u.hup = NoConn
         /\ u.conns[c] = k /\ {id} \in SUBSET LiveIds(u.wheel)
         /\ Rewired(dc, u, c, k) /\ Goes({id}, dc, u)
<1>1. Sound(dc, {}, {}, {}) /\ Up(dc, {})
  BY DEF ClientInv, Kept
<1>2. id \in LiveIds(dc.wheel) \ Requests(dc.wheel) /\ dc.hup = NoConn /\ c = Owner(dc.wheel, id)
  BY FiringIs DEF Requests
<1>3. c \in Conns /\ id # 0
  BY <1>1, <1>2, LiveIs DEF Sound, Typed
<1>4. dc.conns[c].timer = id
  BY <1>1, <1>2 DEF Sound, TimersMatch
<1>5. Sound(u, {} \cup {id}, {}, {}) /\ Rewired(dc, u, c, k) /\ Up(u, {} \cup {id})
  BY <1>1, <1>2, <1>3, <1>4, FireKeeps
<1>6. {} \cup {id} = {id}
  OBVIOUS
<1>7. Sound(u, {id}, {}, {}) /\ Up(u, {id})
  BY <1>5, <1>6
<1>8. c \notin Spare(dc)
  BY <1>1, <1>3, <1>4 DEF Sound, Pooled, IdleConn
<1>9. Goes({id}, dc, u)
  BY <1>5, SameGoes DEF Rewired
<1> QED
  BY <1>1, <1>2, <1>3, <1>5, <1>7, <1>8, <1>9 DEF Rewired, Sound, TimersMatch, Typed

\* ShortConnection::handle_timeout, of the connect timer
LEMMA ConnectTimeoutKeeps ==
  ASSUME ClientInv, ConnectTimeout
  PROVE  Kept(dc') /\ HangupNext(dc') /\ Ran(dc, dc')
<1>1. PICK id : id = FiringId(dc.wheel)
  OBVIOUS
<1>2. PICK c : c = FiringAct[2]
  OBVIOUS
<1>3. PICK k : k = [dc.conns[c] EXCEPT !.timer = 0]
  OBVIOUS
<1>4. PICK u : u = With(dc, c, k)
  OBVIOUS
<1>5. Firing(dc.wheel) /\ FiringAct[1] # "request"
  BY DEF ConnectTimeout
<1>6. c \in Conns /\ dc.conns[c] \in Conn
  <2>1. FiringAct[2] \in Conns
    BY <1>1, <1>5, FiringIs, LiveIs DEF ClientInv, Kept, Sound, Typed, Requests
  <2> QED
    BY <1>2, <2>1 DEF ClientInv, Kept, Sound, Typed
<1>7. /\ k \in Conn /\ k.id = dc.conns[c].id /\ k.timer = 0 /\ k.asked = dc.conns[c].asked /\ k.state = dc.conns[c].state
      /\ k.count = dc.conns[c].count
  BY <1>3, <1>6 DEF Conn
<1>8. /\ c \notin Spare(u) /\ Sound(u, {id}, {}, {}) /\ Up(u, {id}) /\ u.hup = NoConn /\ u.conns[c] = k
      /\ Rewired(dc, u, c, k) /\ Goes({id}, dc, u)
  BY <1>1, <1>2, <1>4, <1>5, <1>7, ConnFiringIs
<1>9. u = [dc EXCEPT !.conns[c].timer = 0]
  BY <1>3, <1>4 DEF With
<1>10. PICK j : j = [k EXCEPT !.state = "IDLE"]
  OBVIOUS
<1>11. PICK x : x = With(u, c, j)
  OBVIOUS
<1>12. dc' = Returned(IF dc.conns[c].state = "CONNECTING" THEN Shut(x, c) ELSE u, id)
  <2>1. x = [u EXCEPT !.conns[c].state = "IDLE"]
    BY <1>8, <1>10, <1>11 DEF With
  <2> QED
    BY <1>1, <1>2, <1>9, <2>1 DEF ConnectTimeout
<1>13. now \in Nat
  BY DEF ClientInv
<1>16. Frame({id}, dc, u)
  BY <1>6, <1>7, <1>8, RewiredGoes
<1>17. Firing(dc.wheel) /\ dc.hup = NoConn
  BY <1>1, <1>5, FiringIs
<1>14. CASE dc.conns[c].state = "CONNECTING"
  <2>1. j \in Conn /\ j.id = k.id /\ j.timer = k.timer /\ j.asked = k.asked /\ j.state = "IDLE" /\ j.count = k.count
    BY <1>7, <1>10 DEF Conn
  <2>2. j.asked \in {0, j.id}
    BY <1>6, <1>7, <2>1 DEF ClientInv, Kept, Sound, ConnsMatch
  <2>3. Sound(x, {id}, {} \ {c}, {}) /\ Rewired(u, x, c, j) /\ Up(x, {id})
    BY <1>6, <1>8, <1>11, <2>1, <2>2, TouchKeeps
  <2>4. {} \ {c} = {}
    OBVIOUS
  <2>5. Sound(x, {id}, {}, {}) /\ c \notin Spare(x) /\ x.conns[c].state = "IDLE" /\ x.hup = NoConn
    BY <1>8, <2>1, <2>3, <2>4 DEF Rewired
  <2>6. PICK y : y = Shut(x, c)
    OBVIOUS
  <2>7. Sound(y, {id}, {} \ {c}, {}) /\ Closed({id}, x, y, c) /\ Up(y, {id})
    BY <1>6, <2>3, <2>5, <2>6, ShutKeeps
  <2>8. Sound(y, {id}, {}, {}) /\ y.hup = NoConn
    BY <2>4, <2>5, <2>7 DEF Closed, Frame, Aside
  <2>9. /\ Sound(dc', {}, {}, {}) /\ Up(dc', {}) /\ dc'.hup = y.hup
        /\ dc'.wheel = Fired(y.wheel, id, now) /\ dc'.param = y.param
        /\ dc'.conns = y.conns /\ dc'.down = y.down
    BY <1>12, <1>13, <1>14, <2>6, <2>7, <2>8, ReturnedKeeps
  <2>10. Frame({id}, dc, y)
    <3>1. Frame({id}, u, x)
      BY <1>6, <1>8, <2>1, <2>3, RewiredGoes
    <3>2. Frame({id}, dc, x)
      BY <1>16, <3>1, FrameTwice
    <3> QED
      BY <2>7, <3>2, FrameTwice DEF Closed
  <2>11. y.down = dc.down /\ y.wheel.scan = dc.wheel.scan /\ Counts(dc, y) /\ Roams({id}, dc, y) /\ WheelOK(y.wheel)
    BY <2>8, <2>10, RoamsIs DEF Frame, Aside, Sound, Typed
  <2>12. Ran(dc, dc')
    BY <1>1, <1>17, <2>9, <2>11, CountsKeep, RanIs
  <2> QED
    BY <2>8, <2>9, <2>12 DEF Kept, HangupNext
<1>15. CASE dc.conns[c].state # "CONNECTING"
  <2>1. /\ Sound(dc', {}, {}, {}) /\ Up(dc', {}) /\ dc'.hup = u.hup
        /\ dc'.wheel = Fired(u.wheel, id, now) /\ dc'.param = u.param
        /\ dc'.conns = u.conns /\ dc'.down = u.down
    BY <1>8, <1>12, <1>13, <1>15, ReturnedKeeps
  <2>2. u.down = dc.down /\ u.wheel.scan = dc.wheel.scan /\ Counts(dc, u) /\ Roams({id}, dc, u) /\ WheelOK(u.wheel)
    BY <1>8, <1>16, RoamsIs DEF Frame, Aside, Sound, Typed
  <2>3. Ran(dc, dc')
    BY <1>1, <1>17, <2>1, <2>2, CountsKeep, RanIs
  <2> QED
    BY <1>8, <2>1, <2>3 DEF Kept, HangupNext
<1> QED
  BY <1>14, <1>15

\* ShortConnection::handle_timeout, of the heartbeat
LEMMA HeartbeatKeeps ==
  ASSUME ClientInv, NEW r \in Reactions, Heartbeat(r)
  PROVE  Kept(dc') /\ HangupNext(dc') /\ Ran(dc, dc')
<1>1. PICK id : id = FiringId(dc.wheel)
  OBVIOUS
<1>2. PICK c : c = FiringAct[2]
  OBVIOUS
<1>3. PICK j : j = [dc.conns[c] EXCEPT !.timer = 0]
  OBVIOUS
<1>4. PICK k : k = [j EXCEPT !.count = @ + 1]
  OBVIOUS
<1>5. PICK u : u = With(dc, c, k)
  OBVIOUS
<1>6. Firing(dc.wheel) /\ FiringAct[1] # "request"
  BY DEF Heartbeat
<1>7. c \in Conns /\ dc.conns[c] \in Conn /\ c \in DOMAIN dc.conns
  <2>1. FiringAct[2] \in Conns
    BY <1>1, <1>6, FiringIs, LiveIs DEF ClientInv, Kept, Sound, Typed, Requests
  <2> QED
    BY <1>2, <2>1 DEF ClientInv, Kept, Sound, Typed
<1>8. j \in Conn /\ j.id = dc.conns[c].id /\ j.timer = 0 /\ j.asked = dc.conns[c].asked
  BY <1>3, <1>7 DEF Conn
<1>9. k \in Conn /\ k.id = dc.conns[c].id /\ k.timer = 0 /\ k.asked = dc.conns[c].asked
  BY <1>4, <1>8 DEF Conn
<1>16. Firing(dc.wheel) /\ dc.hup = NoConn
  BY <1>1, <1>6, FiringIs
<1>10. /\ c \notin Spare(u) /\ Sound(u, {id}, {}, {}) /\ Up(u, {id}) /\ u.hup = NoConn /\ u.conns[c] = k
       /\ {id} \in SUBSET LiveIds(u.wheel) /\ Rewired(dc, u, c, k) /\ Goes({id}, dc, u)
  BY <1>1, <1>2, <1>5, <1>6, <1>9, ConnFiringIs
<1>17. u.down = dc.down /\ u.wheel = dc.wheel /\ \A d \in Conns \ {c} : u.conns[d] = dc.conns[d]
  BY <1>10 DEF Rewired
<1>11. u = [dc EXCEPT !.conns[c].timer = 0, !.conns[c].count = @ + 1]
  BY <1>3, <1>4, <1>5, <1>7, ZenonT(90) DEF With, ClientInv, Kept, Sound, Typed, IsClient, Client, Conn
<1>12. /\ u.conns[c].count > 3 => MayLose(u, c, r) /\ dc' = Returned(AfterLoss(u, c, r), id)
       /\ ~(u.conns[c].count > 3) => dc' = Returned(ConnTimer(u, c, "heartbeat", HeartbeatDelay), id)
  BY <1>1, <1>2, <1>11 DEF Heartbeat
<1>13. now \in Nat
  BY DEF ClientInv
<1>14. CASE u.conns[c].count > 3
  <2>1. PICK y : y = AfterLoss(u, c, r)
    OBVIOUS
  <2>2. Sound(y, {id}, {}, {}) /\ Wide({id}, u, y) /\ Up(y, {id}) /\ c \in Spare(y)
    BY <1>7, <1>10, <1>12, <1>13, <1>14, <2>1, AfterLossKeeps, MayLoseIs, ReactionsAre
  <2>3. /\ Sound(dc', {}, {}, {}) /\ Up(dc', {}) /\ dc'.hup = y.hup
        /\ dc'.wheel = Fired(y.wheel, id, now) /\ dc'.param = y.param
        /\ dc'.conns = y.conns /\ dc'.down = y.down
    BY <1>12, <1>13, <1>14, <2>1, <2>2, ReturnedKeeps
  <2>4. /\ y.down = dc.down /\ y.wheel.scan = dc.wheel.scan /\ Roams({id}, dc, y) /\ WheelOK(y.wheel)
        /\ y.hup = NoConn
    BY <1>10, <1>17, <2>2, RoamsAfter DEF Wide, Aside, Sound, Typed
  <2>5. ASSUME Beats(dc)
        PROVE  Beats(y)
    <3>1. y.conns[c].count = 0
      BY <2>2 DEF Sound, Pooled, IdleConn
    <3>2. ASSUME NEW d \in Conns \ {c}
          PROVE  y.conns[d].count \in 0..3
      BY <1>17, <2>2, <2>5 DEF Wide, Aside, Counts, Beats
    <3> QED
      BY <3>1, <3>2 DEF Beats
  <2>6. Ran(dc, dc')
    BY <1>1, <1>16, <2>3, <2>4, <2>5, RanIs
  <2> QED
    BY <2>3, <2>4, <2>6 DEF Kept, HangupNext
<1>15. CASE ~(u.conns[c].count > 3)
  <2>1. PICK kind \in {"connect", "heartbeat"} : kind = "heartbeat"
    OBVIOUS
  <2>2. PICK y : y = ConnTimer(u, c, kind, HeartbeatDelay)
    OBVIOUS
  <2>3. Fits(HeartbeatDelay) /\ u.conns[c].timer = 0
    BY <1>9, <1>10, DelayIs
  <2>4. Sound(y, {id}, {}, {}) /\ Frame({id}, u, y) /\ \A V \in SUBSET LiveIds(u.wheel) : Up(u, V) => Up(y, V)
    BY <1>7, <1>10, <1>13, <2>2, <2>3, ConnTimerKeeps
  <2>5. Up(y, {id})
    BY <1>10, <2>4
  <2>6. /\ Sound(dc', {}, {}, {}) /\ Up(dc', {}) /\ dc'.hup = y.hup
        /\ dc'.wheel = Fired(y.wheel, id, now) /\ dc'.param = y.param
        /\ dc'.conns = y.conns /\ dc'.down = y.down
    BY <1>12, <1>13, <1>15, <2>1, <2>2, <2>4, <2>5, ReturnedKeeps
  <2>7. /\ y.down = dc.down /\ y.wheel.scan = dc.wheel.scan /\ Roams({id}, dc, y) /\ WheelOK(y.wheel)
        /\ y.hup = NoConn
    <3>1. Goes({id}, dc, y)
      BY <1>10, <2>4, GoesTwice DEF Frame
    <3> QED
      BY <1>10, <1>17, <2>4, <3>1, RoamsIs DEF Frame, Aside, Sound, Typed
  <2>8. ASSUME Beats(dc)
        PROVE  Beats(y)
    <3>1. u.conns[c].count \in 0..3
      <4>1. u.conns[c] \in Conn
        BY <1>9, <1>10
      <4> QED
        BY <1>15, <4>1 DEF Conn
    <3>2. ASSUME NEW d \in Conns
          PROVE  u.conns[d].count \in 0..3
      BY <1>17, <2>8, <3>1 DEF Beats
    <3>3. Beats(u)
      BY <3>2 DEF Beats
    <3> QED
      BY <2>4, <3>3, CountsKeep DEF Frame, Aside
  <2>9. Ran(dc, dc')
    BY <1>1, <1>16, <2>6, <2>7, <2>8, RanIs
  <2> QED
    BY <2>6, <2>7, <2>9 DEF Kept, HangupNext
<1> QED
  BY <1>14, <1>15

\* handle_close
LEMMA LostKeeps ==
  ASSUME ClientInv, NEW c \in Conns, NEW r \in Reactions, Lost(c, r)
  PROVE  Kept(dc') /\ HangupNext(dc') /\ Acted(dc, dc')
<1>1. Sound(dc, {}, {}, {}) /\ Up(dc, {}) /\ now \in Nat
  BY DEF ClientInv, Kept
<1>2. c \notin Spare(dc) /\ dc.hup = NoConn /\ ~dc.wheel.scan.on
  BY <1>1 DEF Lost, Rest, Sound, Pooled, IdleConn
<1>3. dc' = AfterLoss(dc, c, r) /\ CanReact(Told(dc, c), r) /\ Reacting(r)
  BY MayLoseIs, ReactionsAre DEF Lost
<1>4. Sound(dc', {}, {}, {}) /\ Wide({}, dc, dc') /\ Up(dc', {})
  BY <1>1, <1>2, <1>3, AfterLossKeeps
<1>5. Acted(dc, dc')
  BY <1>2, <1>4, ActedIs
<1> QED
  BY <1>2, <1>4, <1>5 DEF Kept, HangupNext, Wide, Aside

\* The hang-up of an event whose input was handled before.
LEMMA StaleHangupKeeps ==
  ASSUME ClientInv, NEW r \in Reactions, StaleHangup(r)
  PROVE  Kept(dc') /\ HangupNext(dc') /\ Acted(dc, dc')
<1>1. Sound(dc, {}, {}, {}) /\ Up(dc, {}) /\ now \in Nat
  BY DEF ClientInv, Kept
<1>2. PICK c : c = dc.hup
  OBVIOUS
<1>3. c \in Conns /\ c \notin Spare(dc) /\ ~dc.wheel.scan.on
  BY <1>1, <1>2 DEF StaleHangup, ClientInv, HangupNext, Sound, Pooled, IdleConn
<1>4. PICK t : t = AfterLoss(dc, c, r)
  OBVIOUS
<1>5. dc' = [t EXCEPT !.hup = NoConn] /\ CanReact(Told(dc, c), r) /\ Reacting(r)
  BY <1>2, <1>4, MayLoseIs, ReactionsAre DEF StaleHangup
<1>6. Kept(t) /\ Wide({}, dc, t)
  BY <1>1, <1>3, <1>4, <1>5, AfterLossKeeps DEF Kept
<1>7. /\ Kept(dc') /\ dc'.hup = NoConn /\ dc'.wheel = t.wheel /\ dc'.param = t.param
      /\ dc'.conns = t.conns /\ dc'.down = t.down
  BY <1>5, <1>6, HupKeeps
<1>8. Acted(dc, dc')
  BY <1>3, <1>6, <1>7, ActedIs
<1> QED
  BY <1>7, <1>8 DEF HangupNext

\* on_php_response
LEMMA ResponseKeeps ==
  ASSUME ClientInv, NEW c \in Conns, NEW r \in Reactions, NEW hup \in BOOLEAN, Response(c, r, hup)
  PROVE  Kept(dc') /\ HangupNext(dc') /\ Acted(dc, dc')
<1>1. Sound(dc, {}, {}, {}) /\ Up(dc, {}) /\ now \in Nat
  BY DEF ClientInv, Kept
<1>2. PICK id : id = dc.conns[c].asked
  OBVIOUS
<1>3. PICK p : p = Owner(dc.wheel, id)
  OBVIOUS
<1>4. id \in Requests(dc.wheel)
  BY <1>1, <1>2 DEF Response, Up
<1>5. p \in Params /\ IsOpen(dc, p) /\ id = dc.param[p].exc
  BY <1>1, <1>3, <1>4 DEF Sound, RequestsMatch
<1>6. PICK u : u = CancelRequest(dc, id)
  OBVIOUS
<1>7. Sound(u, {}, {}, {p}) /\ Frame({}, dc, u) /\ Parting(u, p) /\ Up(u, {})
  BY <1>1, <1>5, <1>6, CancelKeeps
<1>8. PICK t : t = HandedBack(u, p, "response")
  OBVIOUS
<1>9. Sound(t, {}, {}, {}) /\ Frame({}, u, t) /\ Up(t, {})
  BY <1>5, <1>7, <1>8, HandKeeps DEF Hows
<1>10. PICK x : x = React(t, r)
  OBVIOUS
<1>11. PICK h : h = IF hup THEN c ELSE NoConn
  OBVIOUS
<1>12. /\ Rest /\ MayReact(t, p, r) /\ (hup => x.conns[c].state # "IDLE")
       /\ dc' = [x EXCEPT !.hup = h]
  BY <1>2, <1>3, <1>6, <1>8, <1>10, <1>11 DEF Response, Owner
<1>13. Sound(x, {}, {}, {}) /\ Wide({}, t, x) /\ Up(x, {})
  BY <1>1, <1>9, <1>10, <1>12, ReactKeeps, ReactionsAre DEF MayReact
<1>14. /\ Kept(dc') /\ dc'.hup = h /\ dc'.conns = x.conns /\ dc'.wheel = x.wheel
       /\ dc'.param = x.param /\ dc'.down = x.down
  BY <1>12, <1>13, HupKeeps DEF Kept
<1>15. Wide({}, dc, x)
  <2>1. Frame({}, dc, t)
    BY <1>7, <1>9, FrameTwice
  <2> QED
    BY <1>13, <2>1, WideAfter
<1>16. ~dc'.wheel.scan.on /\ ~dc.wheel.scan.on
  BY <1>12, <1>14, <1>15 DEF Wide, Aside, Rest
<1>17. Acted(dc, dc')
  BY <1>14, <1>15, <1>16, ActedIs
<1> QED
  BY <1>11, <1>12, <1>14, <1>16, <1>17 DEF HangupNext

\* What set_timer does to the record.
LEMMA ConnTimerIs ==
  ASSUME NEW s, Typed(s), NEW c \in Conns, NEW kind, NEW delay, NEW v, v = Schedule(s.wheel, <<kind, c>>, delay, now),
         NEW cs, cs = Retimed(s, c, NextId(s.wheel))
  PROVE  ConnTimer(s, c, kind, delay) = Client(s, v, cs, s.pool, s.ids, s.param)
<1>1. PICK n : n = NextId(s.wheel)
  OBVIOUS
<1>2. PICK k : k = [s.conns[c] EXCEPT !.timer = n]
  OBVIOUS
<1>3. cs = [s.conns EXCEPT ![c] = k]
  BY <1>1, <1>2 DEF Retimed
<1>4. PICK t : t = ConnTimer(s, c, kind, delay)
  OBVIOUS
<1>5. t = [s EXCEPT !.wheel = v, !.conns[c].timer = n]
  BY <1>1, <1>4 DEF ConnTimer
<1>6. PICK x : x = [s EXCEPT !.wheel = v]
  OBVIOUS
<1>7. x = Client(s, v, s.conns, s.pool, s.ids, s.param)
  BY <1>6 DEF Typed, IsClient, Client
<1>8. x.conns = s.conns
  BY <1>7 DEF Client
<1>9. [x EXCEPT !.conns[c].timer = n] = [x EXCEPT !.conns = cs]
  BY <1>2, <1>3, <1>8
<1>10. [x EXCEPT !.conns = cs] = Client(s, v, cs, s.pool, s.ids, s.param)
  BY <1>7 DEF Client
<1> QED
  BY <1>4, <1>5, <1>6, <1>9, <1>10

\* One change of a connection after another.
LEMMA WithTwice ==
  ASSUME NEW s, Typed(s), NEW c \in Conns, NEW k \in Conn, NEW j
  PROVE  /\ With(s, c, k).conns[c] = k
         /\ With(With(s, c, k), c, j) = With(s, c, j)
<1>1. PICK t : t = With(s, c, k)
  OBVIOUS
<1>2. PICK cs : cs = [s.conns EXCEPT ![c] = k]
  OBVIOUS
<1>3. t = Client(s, s.wheel, cs, s.pool, s.ids, s.param)
  BY <1>1, <1>2 DEF With, Typed, IsClient, Client
<1>4. c \in DOMAIN s.conns
  BY DEF Typed
<1>5. t.conns = cs /\ cs[c] = k
  BY <1>2, <1>3, <1>4 DEF Client
<1>6. PICK ds : ds = [s.conns EXCEPT ![c] = j]
  OBVIOUS
<1>7. [cs EXCEPT ![c] = j] = ds
  BY <1>2, <1>6
<1>8. With(t, c, j) = Client(s, s.wheel, ds, s.pool, s.ids, s.param)
  BY <1>3, <1>5, <1>7 DEF With, Client
<1>9. With(s, c, j) = Client(s, s.wheel, ds, s.pool, s.ids, s.param)
  BY <1>6, SMTT(90) DEF With, Typed, IsClient, Client
<1> QED
  BY <1>1, <1>5, <1>8, <1>9

\* A timer instead of the one a connection has.
LEMMA RenewKeeps ==
  ASSUME NEW s, Kept(s), now \in Nat, NEW c \in Conns, c \notin Spare(s), NEW kind \in {"connect", "heartbeat"},
         NEW delay, Fits(delay), NEW u, u = ConnTimer(Untimed(s, s.conns[c].timer), c, kind, delay)
  PROVE  /\ Kept(u) /\ Frame({}, s, u) /\ c \notin Spare(u) /\ u.conns[c].id = s.conns[c].id
         /\ u.ids = s.ids
<1>1. PICK tm : tm = s.conns[c].timer
  OBVIOUS
<1>2. Sound(s, {}, {}, {}) /\ Up(s, {}) /\ Typed(s)
  BY DEF Kept, Sound
<1>3. PICK y : /\ Kept(y) /\ y.conns[c].timer = 0 /\ y.conns[c].id = s.conns[c].id /\ Frame({}, s, y)
               /\ Spare(y) = Spare(s) /\ u = ConnTimer(y, c, kind, delay)
  <2>1. CASE tm = 0
    <3>1. ~Live(s.wheel, tm)
      BY <1>2, <2>1, LiveIs DEF Live, LiveIds, Typed
    <3>2. Cancel(s.wheel, tm) = s.wheel
      BY <3>1 DEF Cancel
    <3>3. Untimed(s, tm) = s
      BY <1>2, <3>2 DEF Untimed, Typed, IsClient, Client
    <3>4. Frame({}, s, s)
      BY SameGoes DEF Frame, Aside, Counts
    <3> QED
      BY <1>1, <2>1, <3>3, <3>4
  <2>2. CASE tm # 0
    <3>1. PICK k : k = [s.conns[c] EXCEPT !.timer = 0]
      OBVIOUS
    <3>2. s.conns[c] \in Conn /\ c \in DOMAIN s.conns
      BY <1>2 DEF Typed
    <3>3. k \in Conn /\ k.id = s.conns[c].id /\ k.timer = 0 /\ k.asked = s.conns[c].asked /\ k.count = s.conns[c].count
      BY <3>1, <3>2 DEF Conn
    <3>4. PICK x : x = With(s, c, k)
      OBVIOUS
    <3>5. tm \notin Requests(s.wheel)
      BY <1>1, <1>2, <2>2 DEF Sound, TimersMatch
    <3>6. Sound(x, {} \cup {tm}, {}, {}) /\ Rewired(s, x, c, k) /\ Up(x, {} \cup {tm})
      BY <1>1, <1>2, <2>2, <3>3, <3>4, <3>5, FireKeeps
    <3>7. PICK y : y = Untimed(x, tm)
      OBVIOUS
    <3>8. /\ Sound(y, {}, {}, {}) /\ Frame({}, x, y) /\ Up(y, {}) /\ y.param = x.param /\ y.conns = x.conns
          /\ Spare(y) = Spare(x)
      BY <3>6, <3>7, UntimeKeeps
    <3>9. u = ConnTimer(y, c, kind, delay)
      <4>1. PICK v : v = Cancel(s.wheel, tm)
        OBVIOUS
      <4>2. PICK cs : cs = [s.conns EXCEPT ![c] = k]
        OBVIOUS
      <4>3. x = Client(s, s.wheel, cs, s.pool, s.ids, s.param)
        BY <1>2, <3>4, <4>2 DEF With, Typed, IsClient, Client
      <4>4. y = Client(s, v, cs, s.pool, s.ids, s.param)
        BY <3>7, <4>1, <4>3 DEF Untimed, Client
      <4>5. PICK z : z = Untimed(s, tm)
        OBVIOUS
      <4>6. z = Client(s, v, s.conns, s.pool, s.ids, s.param)
        BY <1>2, <4>1, <4>5 DEF Untimed, Typed, IsClient, Client
      <4>7. PICK n : n = NextId(v)
        OBVIOUS
      <4>8. PICK w : w = Schedule(v, <<kind, c>>, delay, now)
        OBVIOUS
      <4>9. ConnTimer(z, c, kind, delay) = Client(s, w, Retimed(s, c, n), s.pool, s.ids, s.param)
        <5>1. Typed(z)
          BY <1>2, <4>1, <4>6, CancelIs DEF Typed, IsClient, Client, Drops
        <5>2. ConnTimer(z, c, kind, delay) = Client(z, w, Retimed(z, c, n), z.pool, z.ids, z.param)
          BY <4>6, <4>7, <4>8, <5>1, ConnTimerIs DEF Client
        <5> QED
          BY <4>6, <5>2 DEF Client, Retimed
      <4>10. ConnTimer(y, c, kind, delay) = Client(s, w, Retimed(y, c, n), s.pool, s.ids, s.param)
        <5>1. Typed(y)
          BY <3>8 DEF Sound
        <5>2. ConnTimer(y, c, kind, delay) = Client(y, w, Retimed(y, c, n), y.pool, y.ids, y.param)
          BY <4>4, <4>7, <4>8, <5>1, ConnTimerIs DEF Client
        <5> QED
          BY <4>4, <5>2 DEF Client
      <4>11. [cs EXCEPT ![c].timer = n] = [s.conns EXCEPT ![c].timer = n]
        <5>1. PICK g : g = s.conns[c]
          OBVIOUS
        <5>2. [k EXCEPT !.timer = n] = [g EXCEPT !.timer = n]
          BY <3>1, <3>2, <5>1 DEF Conn
        <5>3. PICK h : h = [g EXCEPT !.timer = n]
          OBVIOUS
        <5>4. cs[c] = k /\ c \in DOMAIN cs
          BY <3>2, <4>2
        <5>5. [cs EXCEPT ![c].timer = n] = [cs EXCEPT ![c] = h] /\ [s.conns EXCEPT ![c].timer = n] = [s.conns EXCEPT ![c] = h]
          BY <5>1, <5>2, <5>3, <5>4
        <5>6. [cs EXCEPT ![c] = h] = [s.conns EXCEPT ![c] = h]
          BY <4>2
        <5> QED
          BY <5>5, <5>6
      <4>12. Retimed(y, c, n) = Retimed(s, c, n)
        BY <4>4, <4>11 DEF Retimed, Client
      <4> QED
        BY <1>1, <4>5, <4>9, <4>10, <4>12
    <3>10. y.conns[c].timer = 0 /\ y.conns[c].id = s.conns[c].id /\ Frame({}, s, y) /\ Spare(y) = Spare(s)
      <4>1. Frame({}, s, x)
        BY <3>3, <3>6, RewiredGoes
      <4>2. Frame({}, s, y)
        BY <3>8, <4>1, FrameTwice
      <4> QED
        BY <3>3, <3>6, <3>8, <4>2 DEF Rewired
    <3> QED
      BY <3>8, <3>9, <3>10 DEF Kept
  <2> QED
    BY <2>1, <2>2
<1>4. /\ Sound(u, {}, {}, {}) /\ Frame({}, y, u) /\ \A V \in SUBSET LiveIds(y.wheel) : Up(y, V) => Up(u, V)
  BY <1>3, ConnTimerKeeps DEF Kept
<1>5. Spare(u) = Spare(y) /\ \E i \in Nat : u.conns = Retimed(y, c, i)
  BY <1>3, ConnTimerKeeps DEF Kept
<1>6. Up(u, {})
  BY <1>3, <1>4 DEF Kept
<1>7. u.conns[c].id = y.conns[c].id
  <2>1. PICK i \in Nat : u.conns = [y.conns EXCEPT ![c].timer = i]
    BY <1>5 DEF Retimed
  <2>2. c \in DOMAIN y.conns /\ y.conns[c] \in Conn
    BY <1>3 DEF Kept, Sound, Typed
  <2> QED
    BY <2>1, <2>2 DEF Conn
<1>8. u.ids = s.ids
  BY DEF ConnTimer, Untimed, Kept, Sound, Typed, IsClient, Client
<1>9. Frame({}, s, u)
  BY <1>3, <1>4, FrameTwice
<1> QED
  BY <1>3, <1>4, <1>5, <1>6, <1>7, <1>8, <1>9 DEF Kept

\* on_short_connected
LEMMA OpenedKeeps ==
  ASSUME ClientInv, NEW c \in Conns, Opened(c)
  PROVE  Kept(dc') /\ HangupNext(dc') /\ Acted(dc, dc')
<1>1. Kept(dc) /\ now \in Nat
  BY DEF ClientInv
<1>2. c \notin Spare(dc) /\ dc.hup = NoConn /\ ~dc.wheel.scan.on
  BY DEF Opened, Rest, ClientInv, Kept, Sound, Pooled, IdleConn
<1>3. PICK u : u = ConnTimer(Untimed(dc, dc.conns[c].timer), c, "heartbeat", HeartbeatDelay)
  OBVIOUS
<1>4. /\ Kept(u) /\ Frame({}, dc, u) /\ c \notin Spare(u) /\ u.conns[c].id = dc.conns[c].id
      /\ u.ids = dc.ids
  <2>1. PICK kind \in {"connect", "heartbeat"} : kind = "heartbeat"
    OBVIOUS
  <2>2. Fits(HeartbeatDelay) /\ u = ConnTimer(Untimed(dc, dc.conns[c].timer), c, kind, HeartbeatDelay)
    BY <1>3, <2>1, DelayIs
  <2> QED
    BY <1>1, <1>2, <2>2, RenewKeeps
<1>5. PICK g : g = u.conns[c]
  OBVIOUS
<1>6. g \in Conn /\ c \in DOMAIN u.conns
  BY <1>4, <1>5 DEF Kept, Sound, Typed
<1>7. PICK a : a = IF g.id \in dc.ids THEN g.id ELSE 0
  OBVIOUS
<1>8. PICK k : k = [state |-> "CONNECTED", id |-> g.id, timer |-> g.timer, count |-> 0, sock |-> "open", asked |-> a]
  OBVIOUS
<1>9. k \in Conn /\ k.id = g.id /\ k.timer = g.timer /\ k.asked \in {0, k.id} /\ k.count = 0
  BY <1>6, <1>7, <1>8 DEF Conn
<1>10. dc' = With(u, c, k)
  <2>1. dc' = [u EXCEPT !.conns[c].state = "CONNECTED", !.conns[c].count = 0,
                        !.conns[c].sock = "open", !.conns[c].asked = a]
    BY <1>3, <1>4, <1>5, <1>7 DEF Opened
  <2>2. PICK g1 : g1 = [g EXCEPT !.state = "CONNECTED"]
    OBVIOUS
  <2>3. PICK g2 : g2 = [g1 EXCEPT !.count = 0]
    OBVIOUS
  <2>4. PICK g3 : g3 = [g2 EXCEPT !.sock = "open"]
    OBVIOUS
  <2>5. g1 \in Conn /\ g2 \in Conn /\ g3 \in Conn /\ k = [g3 EXCEPT !.asked = a]
    <3>1. g1 \in Conn
      BY <1>6, <2>2 DEF Conn
    <3>2. g2 \in Conn
      BY <2>3, <3>1 DEF Conn
    <3>3. g3 \in Conn
      BY <2>4, <3>2 DEF Conn
    <3>4. g1.id = g.id /\ g1.timer = g.timer /\ g1.state = "CONNECTED"
      BY <1>6, <2>2 DEF Conn
    <3>5. g2.id = g.id /\ g2.timer = g.timer /\ g2.state = "CONNECTED" /\ g2.count = 0
      BY <2>3, <3>1, <3>4 DEF Conn
    <3>6. g3.id = g.id /\ g3.timer = g.timer /\ g3.state = "CONNECTED" /\ g3.count = 0 /\ g3.sock = "open"
      BY <2>4, <3>2, <3>5 DEF Conn
    <3>7. k = [g3 EXCEPT !.asked = a]
      BY <1>8, <3>3, <3>6 DEF Conn
    <3> QED
      BY <3>1, <3>2, <3>3, <3>7
  <2>6. Typed(u)
    BY <1>4 DEF Kept, Sound
  <2>7. [u EXCEPT !.conns[c].state = "CONNECTED"] = With(u, c, g1)
    BY <1>5, <2>2 DEF With
  <2>8. [With(u, c, g1) EXCEPT !.conns[c].count = 0] = With(u, c, g2)
    <3>1. PICK x : x = With(u, c, g1)
      OBVIOUS
    <3>2. x.conns[c] = g1 /\ With(x, c, g2) = With(u, c, g2)
      BY <2>5, <2>6, <3>1, WithTwice
    <3>3. [x EXCEPT !.conns[c].count = 0] = With(x, c, g2)
      BY <2>3, <3>2 DEF With
    <3> QED
      BY <3>1, <3>2, <3>3
  <2>9. [With(u, c, g2) EXCEPT !.conns[c].sock = "open"] = With(u, c, g3)
    <3>1. PICK x : x = With(u, c, g2)
      OBVIOUS
    <3>2. x.conns[c] = g2 /\ With(x, c, g3) = With(u, c, g3)
      BY <2>5, <2>6, <3>1, WithTwice
    <3>3. [x EXCEPT !.conns[c].sock = "open"] = With(x, c, g3)
      BY <2>4, <3>2 DEF With
    <3> QED
      BY <3>1, <3>2, <3>3
  <2>10. [With(u, c, g3) EXCEPT !.conns[c].asked = a] = With(u, c, k)
    <3>1. PICK x : x = With(u, c, g3)
      OBVIOUS
    <3>2. x.conns[c] = g3 /\ With(x, c, k) = With(u, c, k)
      BY <2>5, <2>6, <3>1, WithTwice
    <3>3. [x EXCEPT !.conns[c].asked = a] = With(x, c, k)
      BY <2>5, <3>2 DEF With
    <3> QED
      BY <3>1, <3>2, <3>3
  <2>11. PICK x1 : x1 = [u EXCEPT !.conns[c].state = "CONNECTED"]
    OBVIOUS
  <2>12. PICK x2 : x2 = [x1 EXCEPT !.conns[c].count = 0]
    OBVIOUS
  <2>13. PICK x3 : x3 = [x2 EXCEPT !.conns[c].sock = "open"]
    OBVIOUS
  <2>14. dc' = [x3 EXCEPT !.conns[c].asked = a]
    BY <2>1, <2>11, <2>12, <2>13
  <2> QED
    BY <2>7, <2>8, <2>9, <2>10, <2>11, <2>12, <2>13, <2>14, ZenonT(120)
<1>11. Sound(dc', {}, {} \ {c}, {}) /\ Rewired(u, dc', c, k) /\ Up(dc', {})
  BY <1>4, <1>5, <1>9, <1>10, TouchKeeps DEF Kept
<1>12. {} \ {c} = {}
  OBVIOUS
<1>13. Kept(dc')
  BY <1>11, <1>12 DEF Kept
<1>14. Wide({}, dc, dc')
  <2>1. Frame({}, u, dc')
    BY <1>9, <1>11, RewiredGoes
  <2> QED
    BY <1>4, <2>1, FrameTwice, WideIs
<1>15. dc'.hup = NoConn /\ Acted(dc, dc')
  BY <1>2, <1>14, ActedIs DEF Wide, Aside
<1> QED
  BY <1>13, <1>15 DEF HangupNext

-----------------------------------------------------------------------------
(* The end of the program                                                  *)

Handlers(s) == SetToSeq({c \in Conns : s.conns[c].sock # "none"})

\* Steps of Stopped and of TimersReleased.
LossStep(f, s, k) == AfterLoss(f[k - 1], Handlers(s)[k], [do |-> "nothing"])
ReleaseStep(f, s, k) == IF k \in Requests(s.wheel) THEN TimerReleased(f[k - 1], k) ELSE f[k - 1]

\* Every connection with a socket is among the handlers, once.
LEMMA HandlersIs ==
  ASSUME NEW s
  PROVE  /\ Len(Handlers(s)) \in Nat /\ IsInjective(Handlers(s)) /\ DOMAIN Handlers(s) = 1..Len(Handlers(s))
         /\ \A k \in 1..Len(Handlers(s)) : Handlers(s)[k] \in Conns /\ s.conns[Handlers(s)[k]].sock # "none"
<1>1. PICK S : S = {c \in Conns : s.conns[c].sock # "none"}
  OBVIOUS
<1>2. IsFiniteSet(S)
  BY <1>1, FS_Subset, DCAssumption
<1>3. PICK m \in Nat : m = Cardinality(S) /\ ExistsBijection(1..m, S)
  BY <1>2, FS_CardinalityType
<1>4. PICK q : q = Handlers(s)
  OBVIOUS
<1>5. q = CHOOSE f \in [1..m -> S] : IsInjective(f)
  BY <1>1, <1>3, <1>4 DEF Handlers, SetToSeq
<1>6. \E f \in [1..m -> S] : IsInjective(f)
  BY <1>3 DEF ExistsBijection, Bijection, Injection
<1>7. q \in [1..m -> S] /\ IsInjective(q)
  BY <1>5, <1>6
<1>8. q \in Seq(S) /\ DOMAIN q = 1..m
  BY <1>7
<1>9. Len(q) = m
  BY <1>8
<1>10. \A k \in 1..m : q[k] \in S
  BY <1>7
<1> QED
  BY <1>1, <1>4, <1>7, <1>8, <1>9, <1>10

\* stop_event_loop goes from handler to handler.
LEMMA StoppedWalk ==
  ASSUME NEW s
  PROVE  \E f : /\ f[0] = s
                /\ \A k \in 1..Len(Handlers(s)) : f[k] = LossStep(f, s, k)
                /\ Stopped(s) = f[Len(Handlers(s))]
<1> DEFINE Upto(n, h) == h = [k \in 0..n |-> IF k = 0 THEN s ELSE LossStep(h, s, k)]
           Bad == {n \in 0..Len(Handlers(s)) : ~ \E h : Upto(n, h)}
<1>0. Len(Handlers(s)) \in Nat
  BY HandlersIs
<1>1. Stopped(s) = (CHOOSE h : Upto(Len(Handlers(s)), h))[Len(Handlers(s))]
  BY DEF Stopped, LossStep, Handlers
<1>2. Bad = {}
  <2>1. SUFFICES ASSUME Bad # {} PROVE FALSE
    OBVIOUS
  <2>2. Bad \in SUBSET Nat
    BY <1>0
  <2>3. PICK n \in Bad : \A j \in Bad : n <= j
    BY <2>1, <2>2, LeastOf
  <2>4. n \in 0..Len(Handlers(s)) /\ ~ \E h : Upto(n, h)
    BY <2>3
  <2>5. CASE n = 0
    <3> DEFINE h == [k \in 0..0 |-> s]
    <3>1. Upto(0, h)
      OBVIOUS
    <3> QED
      BY <2>4, <2>5, <3>1
  <2>6. CASE n # 0
    <3>1. n - 1 \in 0..Len(Handlers(s)) /\ ~(n <= n - 1)
      BY <1>0, <2>4, <2>6
    <3>2. PICK h : Upto(n - 1, h)
      <4> HIDE DEF Upto
      <4> QED
        BY <2>3, <3>1
    <3> DEFINE e == [k \in 0..n |-> IF k = n THEN LossStep(h, s, n) ELSE h[k]]
    <3>3. \A k \in 0..n - 1 : h[k] = IF k = 0 THEN s ELSE LossStep(h, s, k)
      BY <3>2, Zenon
    <3>4. \A k \in 0..n - 1 : e[k] = h[k]
      BY <1>0, <2>4, <2>6
    <3>5. e[n] = LossStep(h, s, n)
      BY <1>0, <2>4
    <3>6. DOMAIN e = 0..n /\ e = [k \in 0..n |-> e[k]]
      OBVIOUS
    <3> HIDE DEF e
    <3>7. \A k \in 1..n : LossStep(e, s, k) = LossStep(h, s, k)
      <4> TAKE k \in 1..n
      <4>1. k - 1 \in 0..n - 1
        BY <1>0, <2>4
      <4>2. e[k - 1] = h[k - 1]
        BY <3>4, <4>1
      <4> QED
        BY <4>2 DEF LossStep
    <3>8. \A k \in 0..n : e[k] = IF k = 0 THEN s ELSE LossStep(e, s, k)
      <4> TAKE k \in 0..n
      <4>1. CASE k = n
        BY <1>0, <2>4, <2>6, <3>5, <3>7, <4>1
      <4>2. CASE k # n
        <5>1. k \in 0..n - 1 /\ (k # 0 => k \in 1..n)
          BY <1>0, <2>4, <4>2
        <5> QED
          BY <3>3, <3>4, <3>7, <5>1
      <4> QED
        BY <4>1, <4>2
    <3>9. Upto(n, e)
      BY <3>6, <3>8, Zenon
    <3> QED
      BY <2>4, <3>9
  <2> QED
    BY <2>5, <2>6
<1>3. \E h : Upto(Len(Handlers(s)), h)
  <2>1. Len(Handlers(s)) \in 0..Len(Handlers(s))
    BY <1>0
  <2> QED
    BY <1>2, <2>1
<1>4. PICK f : f = CHOOSE h : Upto(Len(Handlers(s)), h)
  OBVIOUS
<1>5. Upto(Len(Handlers(s)), f)
  BY <1>3, <1>4
<1>6. f[0] = s
  <2>1. 0 \in 0..Len(Handlers(s))
    BY <1>0
  <2> QED
    BY <1>5, <2>1, Zenon
<1>7. \A k \in 1..Len(Handlers(s)) : f[k] = LossStep(f, s, k)
  <2> TAKE k \in 1..Len(Handlers(s))
  <2>1. k \in 0..Len(Handlers(s)) /\ k # 0
    BY <1>0
  <2> QED
    BY <1>5, <2>1, Zenon
<1>8. Stopped(s) = f[Len(Handlers(s))]
  BY <1>1, <1>4
<1> QED
  BY <1>6, <1>7, <1>8

\* clear_timer_events goes from number to number.
LEMMA ReleaseWalk ==
  ASSUME NEW s, Len(s.wheel.heap) \in Nat
  PROVE  \E f : /\ f[0] = s
                /\ \A k \in 1..Len(s.wheel.heap) : f[k] = ReleaseStep(f, s, k)
                /\ TimersReleased(s) = f[Len(s.wheel.heap)]
<1> DEFINE Upto(n, h) == h = [k \in 0..n |-> IF k = 0 THEN s ELSE ReleaseStep(h, s, k)]
           Bad == {n \in 0..Len(s.wheel.heap) : ~ \E h : Upto(n, h)}
<1>0. Len(s.wheel.heap) \in Nat
  OBVIOUS
<1>1. TimersReleased(s) = (CHOOSE h : Upto(Len(s.wheel.heap), h))[Len(s.wheel.heap)]
  BY DEF TimersReleased, ReleaseStep, Requests
<1>2. Bad = {}
  <2>1. SUFFICES ASSUME Bad # {} PROVE FALSE
    OBVIOUS
  <2>2. Bad \in SUBSET Nat
    BY <1>0
  <2>3. PICK n \in Bad : \A j \in Bad : n <= j
    BY <2>1, <2>2, LeastOf
  <2>4. n \in 0..Len(s.wheel.heap) /\ ~ \E h : Upto(n, h)
    BY <2>3
  <2>5. CASE n = 0
    <3> DEFINE h == [k \in 0..0 |-> s]
    <3>1. Upto(0, h)
      OBVIOUS
    <3> QED
      BY <2>4, <2>5, <3>1
  <2>6. CASE n # 0
    <3>1. n - 1 \in 0..Len(s.wheel.heap) /\ ~(n <= n - 1)
      BY <1>0, <2>4, <2>6
    <3>2. PICK h : Upto(n - 1, h)
      <4> HIDE DEF Upto
      <4> QED
        BY <2>3, <3>1
    <3> DEFINE e == [k \in 0..n |-> IF k = n THEN ReleaseStep(h, s, n) ELSE h[k]]
    <3>3. \A k \in 0..n - 1 : h[k] = IF k = 0 THEN s ELSE ReleaseStep(h, s, k)
      BY <3>2, Zenon
    <3>4. \A k \in 0..n - 1 : e[k] = h[k]
      BY <1>0, <2>4, <2>6
    <3>5. e[n] = ReleaseStep(h, s, n)
      BY <1>0, <2>4
    <3>6. DOMAIN e = 0..n /\ e = [k \in 0..n |-> e[k]]
      OBVIOUS
    <3> HIDE DEF e
    <3>7. \A k \in 1..n : ReleaseStep(e, s, k) = ReleaseStep(h, s, k)
      <4> TAKE k \in 1..n
      <4>1. k - 1 \in 0..n - 1
        BY <1>0, <2>4
      <4>2. e[k - 1] = h[k - 1]
        BY <3>4, <4>1
      <4> QED
        BY <4>2 DEF ReleaseStep
    <3>8. \A k \in 0..n : e[k] = IF k = 0 THEN s ELSE ReleaseStep(e, s, k)
      <4> TAKE k \in 0..n
      <4>1. CASE k = n
        BY <1>0, <2>4, <2>6, <3>5, <3>7, <4>1
      <4>2. CASE k # n
        <5>1. k \in 0..n - 1 /\ (k # 0 => k \in 1..n)
          BY <1>0, <2>4, <4>2
        <5> QED
          BY <3>3, <3>4, <3>7, <5>1
      <4> QED
        BY <4>1, <4>2
    <3>9. Upto(n, e)
      BY <3>6, <3>8, Zenon
    <3> QED
      BY <2>4, <3>9
  <2> QED
    BY <2>5, <2>6
<1>3. \E h : Upto(Len(s.wheel.heap), h)
  <2>1. Len(s.wheel.heap) \in 0..Len(s.wheel.heap)
    BY <1>0
  <2> QED
    BY <1>2, <2>1
<1>4. PICK f : f = CHOOSE h : Upto(Len(s.wheel.heap), h)
  OBVIOUS
<1>5. Upto(Len(s.wheel.heap), f)
  BY <1>3, <1>4
<1>6. f[0] = s
  <2>1. 0 \in 0..Len(s.wheel.heap)
    BY <1>0
  <2> QED
    BY <1>5, <2>1, Zenon
<1>7. \A k \in 1..Len(s.wheel.heap) : f[k] = ReleaseStep(f, s, k)
  <2> TAKE k \in 1..Len(s.wheel.heap)
  <2>1. k \in 0..Len(s.wheel.heap) /\ k # 0
    BY <1>0
  <2> QED
    BY <1>5, <2>1, Zenon
<1>8. TimersReleased(s) = f[Len(s.wheel.heap)]
  BY <1>1, <1>4
<1> QED
  BY <1>6, <1>7, <1>8

\* stop_event_loop
LEMMA StoppedIs ==
  ASSUME NEW s, Kept(s), now \in Nat
  PROVE  Kept(Stopped(s)) /\ Frame({}, s, Stopped(s))
<1>1. PICK m \in Nat : m = Len(Handlers(s))
  BY HandlersIs
<1>2. PICK q : q = Handlers(s)
  OBVIOUS
<1>3. /\ \A k \in 1..m : q[k] \in Conns /\ s.conns[q[k]].sock # "none"
      /\ \A j, k \in 1..m : q[j] = q[k] => j = k
  BY <1>1, <1>2, HandlersIs, ZenonT(90) DEF IsInjective
<1>4. PICK f : f[0] = s /\ (\A k \in 1..m : f[k] = LossStep(f, s, k)) /\ Stopped(s) = f[m]
  BY <1>1, StoppedWalk
<1> DEFINE Fine(k) == Kept(f[k]) /\ Frame({}, s, f[k]) /\ \A j \in k + 1..m : q[j] \notin Spare(f[k])
           Bad == {k \in 0..m : ~Fine(k)}
<1>5. Fine(0)
  <2>1. \A j \in 0 + 1..m : q[j] \notin Spare(s)
    BY <1>3 DEF Kept, Sound, Pooled, IdleConn
  <2>2. Frame({}, s, s)
    BY SameGoes DEF Frame, Aside, Counts
  <2> QED
    BY <1>4, <2>1, <2>2
<1>6. ASSUME NEW k \in 1..m, Fine(k - 1)
      PROVE  Fine(k)
  <2>1. PICK g : g = f[k - 1]
    OBVIOUS
  <2>2. PICK c : c = q[k]
    OBVIOUS
  <2>3. PICK r : r = [do |-> "nothing"]
    OBVIOUS
  <2>4. f[k] = AfterLoss(g, c, r)
    BY <1>2, <1>4, <2>1, <2>2, <2>3 DEF LossStep
  <2>5. r.do = "nothing" /\ Reacting(r) /\ CanReact(Told(g, c), r)
    BY <2>3 DEF Reacting, CanReact
  <2>6. k - 1 + 1 = k /\ k \in k..m
    BY <1>1
  <2>7. c \in Conns /\ c \notin Spare(g) /\ Kept(g) /\ Frame({}, s, g)
    BY <1>3, <1>6, <2>1, <2>2, <2>6
  <2>8. /\ Sound(f[k], {}, {}, {}) /\ Frame({}, g, f[k]) /\ Up(f[k], {})
        /\ Spare(f[k]) = Spare(g) \cup {c}
    BY <2>4, <2>5, <2>7, AfterLossKeeps DEF Kept
  <2>9. ASSUME NEW j \in k + 1..m
        PROVE  q[j] \notin Spare(f[k])
    <3>1. j \in 1..m /\ j # k /\ j \in k - 1 + 1..m
      BY <1>1
    <3>2. q[j] # c /\ q[j] \notin Spare(g)
      BY <1>3, <1>6, <2>1, <2>2, <3>1
    <3> QED
      BY <2>8, <3>2
  <2>10. Kept(f[k]) /\ Frame({}, s, f[k])
    BY <2>7, <2>8, FrameTwice DEF Kept
  <2> QED
    BY <2>9, <2>10
<1>7. Bad = {}
  <2> HIDE DEF Fine
  <2>1. SUFFICES ASSUME Bad # {} PROVE FALSE
    OBVIOUS
  <2>2. Bad \in SUBSET Nat
    BY <1>1
  <2>3. PICK n \in Bad : \A j \in Bad : n <= j
    BY <2>1, <2>2, LeastOf
  <2>4. n \in 0..m /\ ~Fine(n) /\ n # 0
    BY <1>5, <2>3
  <2>5. n - 1 \in 0..m /\ n \in 1..m /\ ~(n <= n - 1)
    BY <1>1, <2>4
  <2>6. Fine(n - 1)
    BY <2>3, <2>5
  <2> QED
    BY <1>6, <2>4, <2>5, <2>6
<1>8. m \in 0..m
  BY <1>1
<1> QED
  BY <1>4, <1>7, <1>8

\* release_timer_act
LEMMA ReleasedKeeps ==
  ASSUME NEW s, Sound(s, {}, {}, {}), NEW id \in Requests(s.wheel)
  PROVE  /\ Sound(TimerReleased(s, id), {}, {}, {}) /\ Frame({}, s, TimerReleased(s, id))
         /\ TimerReleased(s, id).ids = s.ids
         /\ Requests(TimerReleased(s, id).wheel) = Requests(s.wheel) \ {id}
<1>1. PICK p : p = Owner(s.wheel, id)
  OBVIOUS
<1>2. p \in Params /\ IsOpen(s, p) /\ id = s.param[p].exc
  BY <1>1 DEF Sound, RequestsMatch
<1>3. Open(s, {}, p, id)
  BY <1>2, OpenIs
<1>4. Sound(s, {} \cup {id}, {}, {p})
  BY <1>2, LimboKeeps
<1>5. PICK u : u = Untimed(s, id)
  OBVIOUS
<1>6. /\ Sound(u, {}, {}, {p}) /\ Frame({}, s, u) /\ u.param = s.param /\ u.conns = s.conns /\ Spare(u) = Spare(s)
      /\ u.ids = s.ids /\ Requests(u.wheel) = Requests(s.wheel) \ {id}
  <2>1. PICK X : X = {}
    OBVIOUS
  <2>2. PICK Z : Z = {p}
    OBVIOUS
  <2>3. id \notin X /\ Sound(s, X \cup {id}, X, Z)
    BY <1>4, <2>1, <2>2
  <2>4. Sound(Untimed(s, id), X, X, Z) /\ Frame(X, s, Untimed(s, id))
    BY <2>3, UntimeKeeps
  <2>5. /\ Untimed(s, id).param = s.param /\ Untimed(s, id).conns = s.conns
        /\ Spare(Untimed(s, id)) = Spare(s) /\ Untimed(s, id).ids = s.ids
        /\ Requests(Untimed(s, id).wheel) = Requests(s.wheel) \ {id}
    BY <2>3, <2>4, UntimeKeeps
  <2> QED
    BY <1>5, <2>1, <2>2, <2>4, <2>5
<1>7. PICK c : c = s.param[p].conn
  OBVIOUS
<1>8. PICK x : x = IF c = NoConn THEN u ELSE [Shut(u, c) EXCEPT !.param[p].conn = NoConn]
  OBVIOUS
<1>9. /\ Sound(x, {}, {}, {p}) /\ Frame({}, s, x) /\ x.ids = s.ids /\ Requests(x.wheel) = Requests(s.wheel) \ {id}
  <2>1. CASE c = NoConn
    BY <1>6, <1>8, <2>1
  <2>2. CASE c # NoConn
    <3>1. c \in Conns /\ c \notin Spare(u) /\ Unneeded(u, c, {p})
      BY <1>3, <1>6, <1>7, <2>2 DEF Open, Unneeded, IsOpen
    <3>2. PICK y : y = Shut(u, c)
      OBVIOUS
    <3>3. Sound(y, {}, {} \ {c}, {p}) /\ Closed({}, u, y, c)
      BY <1>6, <3>1, <3>2, ShutKeeps
    <3>4. {} \ {c} = {}
      OBVIOUS
    <3>5. x = [y EXCEPT !.param[p].conn = NoConn]
      BY <1>8, <2>2, <3>2
    <3>6. Sound(y, {}, {}, {p})
      BY <3>3, <3>4
    <3>7. Sound(x, {}, {}, {p}) /\ Restated(y, x, p, [y.param[p] EXCEPT !.conn = NoConn]) /\ Frame({}, y, x)
      BY <1>2, <3>5, <3>6, UnlinkKeeps
    <3>8. Frame({}, s, y)
      BY <1>6, <3>3, FrameTwice DEF Closed
    <3>9. Frame({}, s, x)
      BY <3>7, <3>8, FrameTwice
    <3> QED
      BY <1>6, <3>3, <3>7, <3>9 DEF Closed, Restated
  <2> QED
    BY <2>1, <2>2
<1>10. PICK t : t = HandedBack(x, p, "released")
  OBVIOUS
<1>11. Sound(t, {}, {}, {}) /\ Frame({}, x, t) /\ t.wheel = x.wheel /\ t.ids = x.ids
  <2>1. PICK how \in Hows : how = "released"
    BY DEF Hows
  <2>2. how # "timeout" /\ t = HandedBack(x, p, how)
    BY <1>10, <2>1
  <2>3. PICK X : X = {}
    OBVIOUS
  <2>4. Sound(x, X, X, {p})
    BY <1>9, <2>3
  <2>5. Sound(t, X, X, {}) /\ Frame(X, x, t) /\ t.wheel = x.wheel /\ t.ids = x.ids
    BY <1>2, <2>1, <2>2, <2>4, HandKeeps, ZenonT(120)
  <2> QED
    BY <2>3, <2>5
<1>12. TimerReleased(s, id) = t
  BY <1>1, <1>5, <1>7, <1>8, <1>10 DEF TimerReleased, Owner
<1> QED
  BY <1>9, <1>11, <1>12, FrameTwice

\* clear_timer_events
LEMMA ReleasedIs ==
  ASSUME NEW s, Sound(s, {}, {}, {})
  PROVE  /\ Sound(TimersReleased(s), {}, {}, {}) /\ Frame({}, s, TimersReleased(s))
         /\ TimersReleased(s).ids = s.ids /\ Requests(TimersReleased(s).wheel) = {}
<1>1. PICK m \in Nat : m = Len(s.wheel.heap) /\ DOMAIN s.wheel.heap = 1..m
  <2>1. WheelOK(s.wheel)
    BY DEF Sound, Typed
  <2>2. PICK heap : heap = s.wheel.heap
    OBVIOUS
  <2>3. heap \in Seq(Entry)
    BY <2>1, <2>2 DEF WheelOK
  <2> QED
    BY <2>2, <2>3
<1>2. Requests(s.wheel) \in SUBSET (1..m)
  BY <1>1 DEF Requests, LiveIds
<1>3. PICK f : f[0] = s /\ (\A k \in 1..m : f[k] = ReleaseStep(f, s, k)) /\ TimersReleased(s) = f[m]
  BY <1>1, ReleaseWalk
<1> DEFINE Fine(k) == /\ Sound(f[k], {}, {}, {}) /\ Frame({}, s, f[k]) /\ f[k].ids = s.ids
                      /\ Requests(f[k].wheel) = Requests(s.wheel) \ (1..k)
           Bad == {k \in 0..m : ~Fine(k)}
<1>4. Fine(0)
  <2>1. 1..0 = {}
    OBVIOUS
  <2>2. Frame({}, s, s)
    BY SameGoes DEF Frame, Aside, Counts
  <2> QED
    BY <1>3, <2>1, <2>2
<1>5. ASSUME NEW k \in 1..m, Fine(k - 1)
      PROVE  Fine(k)
  <2>1. PICK g : g = f[k - 1]
    OBVIOUS
  <2>2. /\ Sound(g, {}, {}, {}) /\ Frame({}, s, g) /\ g.ids = s.ids
        /\ Requests(g.wheel) = Requests(s.wheel) \ (1..k - 1)
    BY <1>5, <2>1
  <2>3. f[k] = IF k \in Requests(s.wheel) THEN TimerReleased(g, k) ELSE g
    BY <1>3, <2>1 DEF ReleaseStep
  <2>4. \A i \in 1..m : i \in 1..k <=> i \in 1..k - 1 \/ i = k
    BY <1>1
  <2>5. k \notin 1..k - 1 /\ k \in 1..k
    BY <1>1
  <2>6. CASE k \in Requests(s.wheel)
    <3>1. k \in Requests(g.wheel) /\ f[k] = TimerReleased(g, k)
      BY <2>2, <2>3, <2>5, <2>6
    <3>2. /\ Sound(f[k], {}, {}, {}) /\ Frame({}, g, f[k]) /\ f[k].ids = g.ids
          /\ Requests(f[k].wheel) = Requests(g.wheel) \ {k}
      BY <2>2, <3>1, ReleasedKeeps, SMTT(90)
    <3>3. Requests(f[k].wheel) = Requests(s.wheel) \ (1..k)
      BY <1>2, <2>2, <2>4, <3>2
    <3> QED
      BY <2>2, <3>2, <3>3, FrameTwice
  <2>7. CASE k \notin Requests(s.wheel)
    <3>1. Requests(s.wheel) \ (1..k - 1) = Requests(s.wheel) \ (1..k)
      BY <1>2, <2>4, <2>7
    <3> QED
      BY <2>2, <2>3, <2>7, <3>1
  <2> QED
    BY <2>6, <2>7
<1>6. Bad = {}
  <2> HIDE DEF Fine
  <2>1. SUFFICES ASSUME Bad # {} PROVE FALSE
    OBVIOUS
  <2>2. Bad \in SUBSET Nat
    BY <1>1
  <2>3. PICK n \in Bad : \A j \in Bad : n <= j
    BY <2>1, <2>2, LeastOf
  <2>4. n \in 0..m /\ ~Fine(n) /\ n # 0
    BY <1>4, <2>3
  <2>5. n - 1 \in 0..m /\ n \in 1..m /\ ~(n <= n - 1)
    BY <1>1, <2>4
  <2>6. Fine(n - 1)
    BY <2>3, <2>5
  <2> QED
    BY <1>5, <2>4, <2>5, <2>6
<1>7. m \in 0..m
  BY <1>1
<1>8. Fine(m) /\ Requests(s.wheel) \ (1..m) = {}
  BY <1>2, <1>6, <1>7
<1> QED
  BY <1>3, <1>8

\* destroy
LEMMA ShutdownKeeps ==
  ASSUME ClientInv, Shutdown
  PROVE  Kept(dc') /\ HangupNext(dc') /\ Acted(dc, dc')
<1>1. PICK s : s = Stopped(dc)
  OBVIOUS
<1>2. Kept(s) /\ Frame({}, dc, s) /\ dc.hup = NoConn /\ ~dc.wheel.scan.on
  BY <1>1, StoppedIs DEF ClientInv, Shutdown, Rest
<1>3. PICK u : u = Cleared(s)
  OBVIOUS
<1>4. Sound(u, {}, {}, {}) /\ Frame({}, s, u) /\ u.ids = {}
  <2>1. {} \in SUBSET Nat /\ u = [s EXCEPT !.ids = {}]
    BY <1>3 DEF Cleared
  <2> QED
    BY <1>2, <2>1, NumbersKeep, SMTT(90) DEF Kept
<1>5. PICK x : x = TimersReleased(u)
  OBVIOUS
<1>6. Sound(x, {}, {}, {}) /\ Frame({}, u, x) /\ x.ids = {} /\ Requests(x.wheel) = {}
  BY <1>4, <1>5, ReleasedIs
<1>7. dc' = [x EXCEPT !.down = TRUE]
  BY <1>1, <1>3, <1>5 DEF Shutdown
<1>8. PICK t : t = dc'
  OBVIOUS
<1>9. t = [wheel |-> x.wheel, conns |-> x.conns, pool |-> x.pool, unmade |-> x.unmade, ids |-> x.ids,
           param |-> x.param, hup |-> x.hup, down |-> TRUE]
  BY <1>6, <1>7, <1>8 DEF Sound, Typed, IsClient, Client
<1>10. /\ t.wheel = x.wheel /\ t.conns = x.conns /\ t.pool = x.pool /\ t.unmade = x.unmade
       /\ t.ids = x.ids /\ t.param = x.param /\ t.hup = x.hup /\ t.down = TRUE
  BY <1>9
<1>11. IsClient(t)
  BY <1>9, <1>10 DEF IsClient, Client
<1>12. Typed(t) /\ Pooled(t)
  BY <1>6, <1>10, <1>11 DEF Sound, Typed, Pooled, Spare
<1>13. TimersMatch(t, {}) /\ RequestsMatch(t, {}, {}) /\ ConnsMatch(t, {}, {})
  BY <1>6, <1>10 DEF Sound, TimersMatch, RequestsMatch, ConnsMatch, IsOpen, Spare
<1>14. Up(t, {})
  BY <1>6, <1>10 DEF Up
<1>16. Wide({}, dc, x)
  <2>1. Frame({}, dc, u)
    BY <1>2, <1>4, FrameTwice
  <2> QED
    BY <1>6, <2>1, FrameTwice, WideIs
<1>15. t.hup = NoConn /\ Acted(dc, t)
  BY <1>2, <1>10, <1>16, ActedIs DEF Wide, Aside
<1> QED
  BY <1>8, <1>12, <1>13, <1>14, <1>15 DEF Kept, Sound, HangupNext

\* The invariant holds at the start.
LEMMA InitKeeps ==
  ASSUME Init
  PROVE  ClientInv
<1>1. PICK w : w = IdleWheel(Uptime)
  OBVIOUS
<1>2. PICK cs : cs = [c \in Conns |-> IdleConn]
  OBVIOUS
<1>3. PICK ps : ps = [p \in Params |-> NewParam]
  OBVIOUS
<1>4. PICK um : um = Conns \ ToSet(FirstPool)
  OBVIOUS
<1>5. PICK d : d = dc
  OBVIOUS
<1>6. d = [wheel |-> w, conns |-> cs, pool |-> FirstPool, unmade |-> um, ids |-> {}, param |-> ps,
           hup |-> NoConn, down |-> FALSE]
  BY <1>1, <1>2, <1>3, <1>4, <1>5 DEF Init
<1>7. /\ d.wheel = w /\ d.conns = cs /\ d.pool = FirstPool /\ d.unmade = um /\ d.ids = {} /\ d.param = ps
      /\ d.hup = NoConn /\ d.down = FALSE
  BY <1>6
<1>8. WheelOK(w) /\ LiveIds(w) = {} /\ Requests(w) = {}
  BY <1>1, IdleWheelOK DEF Requests
<1>9. IdleConn \in Conn /\ IdleConn.id = 0 /\ IdleConn.timer = 0 /\ IdleConn.asked = 0
  BY DEF IdleConn, Conn
<1>10. cs \in [Conns -> Conn] /\ \A c \in Conns : cs[c] = IdleConn
  BY <1>2, <1>9
<1>11. NewParam \in Param /\ NewParam.exc = 0
  <2>1. <<>> \in Gots
    BY DEF Gots
  <2> QED
    BY <2>1 DEF NewParam, Param
<1>12. ps \in [Params -> Param] /\ \A p \in Params : ps[p] = NewParam
  BY <1>3, <1>11
<1>13. IsClient(d)
  BY <1>6, <1>7 DEF IsClient, Client
<1>14. FirstPool \in Seq(Conns) /\ ToSet(FirstPool) \in SUBSET Conns
  BY DCAssumption, SMTT(90) DEF ToSet
<1>15. Typed(d)
  BY <1>4, <1>7, <1>8, <1>10, <1>12, <1>13, <1>14 DEF Typed
<1>16. Pooled(d)
  <2>1. Spare(d) \in SUBSET Conns
    BY <1>4, <1>7, <1>14 DEF Spare
  <2>2. ToSet(FirstPool) \cap um = {}
    BY <1>4
  <2> QED
    BY <1>7, <1>10, <2>1, <2>2, DCAssumption DEF Pooled
<1>17. TimersMatch(d, {})
  BY <1>7, <1>8, <1>9, <1>10 DEF TimersMatch
<1>18. \A p \in Params : ~IsOpen(d, p)
  BY <1>7, <1>11, <1>12 DEF IsOpen
<1>19. RequestsMatch(d, {}, {}) /\ ConnsMatch(d, {}, {})
  BY <1>7, <1>8, <1>9, <1>10, <1>18 DEF RequestsMatch, ConnsMatch
<1>20. Up(d, {})
  BY <1>7, <1>8, <1>9, <1>10 DEF Up
<1>21. HangupNext(d)
  BY <1>7 DEF HangupNext
<1>22. now \in Nat
  BY DCAssumption DEF Init
<1> QED
  BY <1>5, <1>15, <1>16, <1>17, <1>19, <1>20, <1>21, <1>22 DEF ClientInv, Kept, Sound

\* expire takes the queue to the first callback.
Scanned ==
  /\ ~dc.wheel.scan.on /\ dc'.wheel = Expire(dc.wheel, now)
  /\ dc'.param = dc.param /\ dc'.conns = dc.conns /\ dc'.down = dc.down

\* An event, at one moment.
Moves == now' = now /\ (Acted(dc, dc') \/ Ran(dc, dc') \/ Scanned)

\* A step that leaves the client as ClientInv has it, at the same time.
LEMMA SameTime ==
  ASSUME ClientInv, Kept(dc'), HangupNext(dc'), UNCHANGED now, Acted(dc, dc') \/ Ran(dc, dc') \/ Scanned
  PROVE  ClientInv' /\ Moves
BY DEF ClientInv, Moves

\* The invariant holds after an event of the reactor's loop.
LEMMA LoopKeeps ==
  ASSUME ClientInv, Loop
  PROVE  ClientInv' /\ Moves
<1>1. CASE Scan
  <2>1. UNCHANGED now /\ ~dc.wheel.scan.on
    BY <1>1 DEF Scan, Rest
  <2>2. Scanned
    BY <1>1, <2>1, ScanKeeps DEF Scanned
  <2> QED
    BY <1>1, <2>1, <2>2, ScanKeeps, SameTime
<1>2. CASE ConnectTimeout
  <2>1. UNCHANGED now
    BY <1>2 DEF ConnectTimeout
  <2> QED
    BY <1>2, <2>1, ConnectTimeoutKeeps, SameTime
<1>3. ASSUME NEW r \in Reactions, RequestTimeout(r)
      PROVE  ClientInv' /\ Moves
  <2>1. UNCHANGED now
    BY <1>3 DEF RequestTimeout
  <2> QED
    BY <1>3, <2>1, RequestTimeoutKeeps, SameTime
<1>4. ASSUME NEW r \in Reactions, Heartbeat(r)
      PROVE  ClientInv' /\ Moves
  <2>1. UNCHANGED now
    BY <1>4 DEF Heartbeat
  <2> QED
    BY <1>4, <2>1, HeartbeatKeeps, SameTime
<1>5. ASSUME NEW r \in Reactions, StaleHangup(r)
      PROVE  ClientInv' /\ Moves
  <2>1. UNCHANGED now
    BY <1>5 DEF StaleHangup
  <2> QED
    BY <1>5, <2>1, StaleHangupKeeps, SameTime
<1> QED
  BY <1>1, <1>2, <1>3, <1>4, <1>5 DEF Loop

\* The invariant holds after any step.
LEMMA StepKeeps ==
  ASSUME ClientInv, [Next]_vars
  PROVE  ClientInv' /\ (UNCHANGED vars \/ Tick \/ Moves)
<1>1. CASE UNCHANGED vars
  <2>1. now' = now /\ dc' = dc
    BY <1>1 DEF vars
  <2>2. ClientInv'
    BY <2>1 DEF ClientInv
  <2> QED
    BY <2>2, <1>1
<1>2. CASE Tick
  <2>1. now' = now + 1 /\ dc' = dc
    BY <1>2 DEF Tick
  <2>2. ClientInv'
    BY <2>1 DEF ClientInv
  <2> QED
    BY <2>2, <1>2
<1>3. ASSUME NEW p \in Params, NEW route \in Routes, AppPost(p, route)
      PROVE  ClientInv' /\ Moves
  <2>1. UNCHANGED now
    BY <1>3 DEF AppPost
  <2> QED
    BY <1>3, <2>1, AppPostKeeps, SameTime
<1>4. ASSUME NEW p \in Params, AppCancel(p)
      PROVE  ClientInv' /\ Moves
  <2>1. UNCHANGED now
    BY <1>4 DEF AppCancel
  <2> QED
    BY <1>4, <2>1, AppCancelKeeps, SameTime
<1>5. CASE Loop
  BY <1>5, LoopKeeps
<1>6. ASSUME NEW c \in Conns, Opened(c)
      PROVE  ClientInv' /\ Moves
  <2>1. UNCHANGED now
    BY <1>6 DEF Opened
  <2> QED
    BY <1>6, <2>1, OpenedKeeps, SameTime
<1>7. ASSUME NEW c \in Conns, NEW r \in Reactions, Lost(c, r)
      PROVE  ClientInv' /\ Moves
  <2>1. UNCHANGED now
    BY <1>7 DEF Lost
  <2> QED
    BY <1>7, <2>1, LostKeeps, SameTime
<1>8. ASSUME NEW c \in Conns, NEW r \in Reactions, NEW hup \in BOOLEAN, Response(c, r, hup)
      PROVE  ClientInv' /\ Moves
  <2>1. UNCHANGED now
    BY <1>8 DEF Response
  <2> QED
    BY <1>8, <2>1, ResponseKeeps, SameTime
<1>9. CASE Shutdown
  <2>1. UNCHANGED now
    BY <1>9 DEF Shutdown
  <2> QED
    BY <1>9, <2>1, ShutdownKeeps, SameTime
<1>10. CASE Next
  BY <1>2, <1>3, <1>4, <1>5, <1>6, <1>7, <1>8, <1>9, <1>10 DEF Next
<1> QED
  BY <1>1, <1>10

\* Client, connections and timers know each other between any two events
\* (CCoreDCClient, ShortConnection).
THEOREM ClientKeeps == Spec => []ClientInv
<1>1. Init => ClientInv
  BY InitKeeps
<1>2. ClientInv /\ [Next]_vars => ClientInv'
  BY StepKeeps
<1> QED
  BY <1>1, <1>2, PTL DEF Spec

\* The three properties are parts of the invariant.
LEMMA NumberPart ==
  ASSUME ClientInv
  PROVE  OneNumber
<1>1. Sound(dc, {}, {}, {}) /\ Up(dc, {})
  BY DEF ClientInv, Kept
<1>2. RequestTimers = Requests(dc.wheel)
  BY DEF RequestTimers, Requests
<1>3. dc.ids = RequestTimers
  BY <1>1, <1>2 DEF Up
<1>4. \A id \in RequestTimers : IsOpen(dc, dc.wheel.heap[id].act[2]) /\ dc.param[dc.wheel.heap[id].act[2]].exc = id
  BY <1>1, <1>2 DEF Sound, RequestsMatch, Owner
<1>5. \A p \in Params : IsOpen(dc, p) => dc.param[p].exc \in RequestTimers
  BY <1>1, <1>2 DEF Sound, RequestsMatch
<1> QED
  BY <1>3, <1>4, <1>5 DEF OneNumber

\* OwnConnection, of the invariant.
LEMMA OwnPart ==
  ASSUME ClientInv
  PROVE  OwnConnection
<1>1. Sound(dc, {}, {}, {}) /\ Up(dc, {})
  BY DEF ClientInv, Kept
<1>2. \A c \in Conns : dc.conns[c].id # 0 /\ ~dc.down =>
        \E p \in Params : IsOpen(dc, p) /\ dc.param[p].exc = dc.conns[c].id /\ dc.param[p].conn = c
  BY <1>1 DEF Up
<1>3. \A p \in Params : IsOpen(dc, p) /\ dc.param[p].conn # NoConn =>
        dc.conns[dc.param[p].conn].id = dc.param[p].exc
  BY <1>1 DEF Sound, ConnsMatch
<1>4. \A c \in Conns : dc.conns[c].asked \in {0, dc.conns[c].id}
  BY <1>1 DEF Sound, ConnsMatch
<1> QED
  BY <1>2, <1>3, <1>4 DEF OwnConnection

\* PoolClean, of the invariant.
LEMMA PoolPart ==
  ASSUME ClientInv
  PROVE  PoolClean
<1>1. Sound(dc, {}, {}, {}) /\ WheelOK(dc.wheel)
  BY DEF ClientInv, Kept, Sound, Typed
<1>2. RequestTimers = Requests(dc.wheel)
  BY DEF RequestTimers, Requests
<1>3. IsInjective(dc.pool) /\ \A c \in ToSet(dc.pool) : dc.conns[c] = IdleConn
  BY <1>1 DEF Sound, Pooled, Spare
<1>4. ASSUME NEW id \in LiveIds(dc.wheel) \ RequestTimers, NEW c, c = dc.wheel.heap[id].act[2]
      PROVE  dc.conns[c].timer = id /\ c \notin ToSet(dc.pool)
  <2>1. dc.conns[c].timer = id
    BY <1>1, <1>2, <1>4 DEF Sound, TimersMatch, Owner
  <2>2. id # 0
    BY <1>1 DEF WheelOK, LiveIds
  <2>3. IdleConn.timer = 0
    BY DEF IdleConn
  <2> QED
    BY <1>3, <2>1, <2>2, <2>3
<1> QED
  BY <1>3, <1>4 DEF PoolClean

\* A request has its timer and its entry in timer_ids_ as long as it is open,
\* all under one number that no other request has (post_dc_request,
\* ERASE_REQUEST, cancel_timer).
THEOREM OneNumberAlways == Spec => []OneNumber
<1>1. ClientInv => OneNumber
  BY NumberPart
<1> QED
  BY <1>1, ClientKeeps, PTL

\* A connection works for one open request, and that request knows it
\* (set_conn_id, on_short_disconnected, on_php_response).
THEOREM OwnConnectionAlways == Spec => []OwnConnection
<1>1. ClientInv => OwnConnection
  BY OwnPart
<1> QED
  BY <1>1, ClientKeeps, PTL

\* A pooled connection is in the pool once and has nothing left of its last
\* use (ShortConnection::reset, ObjectPool).
THEOREM PoolStaysClean == Spec => []PoolClean
<1>1. ClientInv => PoolClean
  BY PoolPart
<1> QED
  BY <1>1, ClientKeeps, PTL

\* A parameter comes back to the application once at most, whatever races: the
\* answer, the loss of the connection, the timeout, a cancellation and the end
\* of the program (dc_response, dc_timeout, dc_request_exception).
THEOREM HandedBackOnce == Spec => [](\A p \in Params : Len(dc.param[p].got) <= 1)
<1>1. ClientInv => \A p \in Params : Len(dc.param[p].got) <= 1
  <2>1. ASSUME NEW g \in Gots
        PROVE  Len(g) <= 1
    <3>1. CASE g = <<>>
      BY <3>1
    <3>2. ASSUME NEW how \in Hows, g = <<how>>
          PROVE  Len(g) <= 1
      BY <3>2
    <3> QED
      BY <3>1, <3>2 DEF Gots
  <2> QED
    BY <2>1 DEF ClientInv, Kept, Sound, Typed, Param
<1> QED
  BY <1>1, ClientKeeps, PTL

\* No number of a timer is lost or handed out twice (schedule, cancel_timer,
\* ring_event), the first half of TimersKept.
THEOREM NumbersStayApart == Spec => []NumbersPartitioned(dc.wheel)
<1>1. ClientInv => NumbersPartitioned(dc.wheel)
  BY DEF ClientInv, Kept, Sound, Typed, WheelOK
<1> QED
  BY <1>1, ClientKeeps, PTL

-----------------------------------------------------------------------------
(* When timers fire                                                        *)

\* The timer a scan serves stands in the slot under it.
LEMMA FiringAt ==
  ASSUME NEW w, NEW t, NEW P, Good(w, t, P), Firing(w), NEW id, id = FiringId(w)
  PROVE  /\ w.scan.on /\ w.scan.ring = 0 /\ id \in LiveIds(w) /\ id \in Nat /\ id > w.scan.last
         /\ \A i \in Ahead(w) : id <= i
         /\ Home(w, id, 0, w.pos[0])
<1>1. RingsOK(w) /\ Placed(w, P) /\ w.scan.on /\ w.scan.ring = 0 /\ Ahead(w) # {}
  BY GoodIs DEF Firing
<1>2. /\ id \in LiveIds(w) /\ id \in w.slot[0][w.pos[0]] /\ id > w.scan.last /\ id \in Nat /\ ~Passed(w, id)
      /\ \A i \in Ahead(w) : id <= i
  BY <1>1, NextAhead DEF FiringId
<1>3. Stands(w, id)
  BY <1>1, <1>2, NoneAwaits
<1>4. 0 \in RingIds /\ w.pos[0] \in Cells
  BY <1>1, OneIs DEF RingsOK
<1>5. Home(w, id, 0, w.pos[0])
  BY <1>2, <1>3, <1>4 DEF Stands
<1> QED BY <1>1, <1>2, <1>5

\* Its owner may set and cancel other timers, it stays the next one.
LEMMA StillNext ==
  ASSUME NEW w, NEW t, NEW P, Good(w, t, P), Firing(w), NEW id, id = FiringId(w),
         NEW v, Good(v, t, P), SameRings(w, v), id \in LiveIds(v), v.heap[id] = w.heap[id]
  PROVE  v.scan.on /\ v.scan.ring = 0 /\ Ahead(v) # {} /\ id = Min(Ahead(v))
<1>1. /\ w.scan.on /\ w.scan.ring = 0 /\ id \in LiveIds(w) /\ id \in Nat /\ id > w.scan.last
      /\ \A i \in Ahead(w) : id <= i
      /\ Home(w, id, 0, w.pos[0])
  BY FiringAt
<1>2. /\ RingsOK(w) /\ RingsOK(v) /\ Placed(v, P) /\ v.pos = w.pos /\ v.scan = w.scan
      /\ v.slot[0][w.pos[0]] \subseteq w.slot[0][w.pos[0]]
  BY <1>1, GoodIs DEF SameRings
<1>3. 0 \in RingIds /\ w.pos[0] \in Cells /\ w.scan.last \in Nat
  BY <1>2, OneIs DEF RingsOK, Scans
<1>4. Home(v, id, 0, v.pos[0])
  BY <1>1, <1>2, ZenonT(90) DEF Home, RingOf, StampOf
<1>5. Stands(v, id)
  BY <1>1, <1>2, NoneAwaits
<1>6. ~Passed(v, id)
  BY <1>1, <1>2, <1>3 DEF Passed
<1>7. id \in v.slot[0][v.pos[0]]
  BY <1>2, <1>3, <1>4, <1>5, <1>6 DEF Stands
<1>8. id \in Ahead(v) /\ Ahead(v) \subseteq Ahead(w) /\ Ahead(v) \in SUBSET Nat
  <2>1. v.slot[0][v.pos[0]] \in SUBSET Nat
    BY <1>2, <1>3 DEF RingsOK
  <2> QED BY <2>1, <1>1, <1>2, <1>7 DEF Ahead
<1>9. PICK m : m = Min(Ahead(v))
  OBVIOUS
<1>10. m \in Nat /\ m \in Ahead(w) /\ m <= id
  BY <1>8, <1>9, MinIs
<1>11. id <= m
  BY <1>1, <1>10
<1> QED BY <1>1, <1>2, <1>8, <1>9, <1>10, <1>11

\* What the rings read, for a timer that is served.
LEMMA ServedReading ==
  ASSUME NEW w, RingsOK(w), NEW P, Reads(w, P), w.scan.on, w.scan.ring = 0, w.scan.half # "old",
         Digit(P, 0) # RingSize - 1, NEW s \in 0..Lap - 1, At(w.pos, s, 0), Digit(s, 0) = w.pos[0]
  PROVE  s = P + 1
<1>1. w.scan.half = "new" /\ 0 \in RingIds
  BY ScanIs, OneIs
<1>2. /\ P \in 0..Lap - 1 /\ P \in Nat /\ \A r \in RingIds : Digit(P, r) \in Cells /\ Digit(P, r) \in Nat
      /\ w.pos[0] = Stepped(Digit(P, 0))
      /\ \A r \in RingIds : r > 0 => w.pos[r] = Digit(P, r)
  BY <1>1, TurnedDigits
<1>3. w.pos[0] = Digit(P, 0) + 1
  BY <1>2 DEF Stepped
<1>4. \A r \in RingIds : r < 0 => Digit(P, r) = RingSize - 1
  BY DEF RingIds
<1>5. /\ P + 1 \in 0..Lap - 1
      /\ Digit(P + 1, 0) = Digit(P, 0) + 1
      /\ \A r \in RingIds : r > 0 => Digit(P + 1, r) = Digit(P, r)
  BY <1>1, <1>2, <1>4, CarryStops
<1>6. ASSUME NEW r \in RingIds
      PROVE  Digit(P + 1, r) = Digit(s, r)
  <2>1. CASE r = 0
    BY <2>1, <1>3, <1>5
  <2>2. CASE r # 0
    <3>1. r > 0
      BY <2>2 DEF RingIds
    <3> QED BY <3>1, <1>2, <1>5 DEF At
  <2> QED BY <2>1, <2>2
<1> QED BY <1>5, <1>6, SameDigits

\* The timer a scan serves is due.
LEMMA FiringDue ==
  ASSUME NEW w, NEW t \in Nat, NEW P, Good(w, t, P), Firing(w), NEW id, id = FiringId(w)
  PROVE  Due(w, P, id) \in Int /\ Due(w, P, id) <= t
<1>1. /\ w.scan.on /\ w.scan.ring = 0 /\ id \in LiveIds(w) /\ Home(w, id, 0, w.pos[0])
  BY FiringAt
<1>2. /\ RingsOK(w) /\ Reads(w, P) /\ OnTime(w, t, P) /\ Placed(w, P)
      /\ w.prev \in Nat /\ P \in Nat /\ P \in 0..Lap - 1
      /\ w.scan.at \in Nat /\ w.scan.left \in Nat /\ w.scan.todo \in Nat
  BY GoodIs
<1>3. PICK s : s = StampOf(w, id)
  OBVIOUS
<1>4. s \in 0..Lap - 1 /\ s \in Nat
  BY <1>1, <1>3, GoodIs, LapIs
<1>5. At(w.pos, s, 0) /\ Digit(s, 0) = w.pos[0]
  <2>1. 0 = RingOf(w, s) /\ w.pos[0] = Digit(s, 0)
    BY <1>1, <1>3, Zenon DEF Home
  <2> QED BY <2>1, RingIs
<1>6. w.scan.at <= t /\ w.scan.todo >= 1
  BY <1>1, <1>2 DEF OnTime, InScale
<1>7. Tau(w) \in Int /\ Tau(w) + 1 <= t
  BY <1>1, <1>2, <1>6 DEF Tau
<1>8. 0 \in RingIds
  BY OneIs
<1>9. CASE w.scan.half = "old"
  <2>1. ASSUME NEW r \in RingIds
        PROVE  w.pos[r] = Digit(P, r)
    <3>1. ~(r < 0)
      BY DEF RingIds
    <3> QED BY <3>1, <1>1, <1>2, <1>9 DEF Reads, Moved
  <2>2. ASSUME NEW r \in RingIds
        PROVE  Digit(s, r) = Digit(P, r)
    <3>1. r = 0 \/ r > 0
      BY DEF RingIds
    <3> QED BY <3>1, <2>1, <1>5 DEF At
  <2>3. s = P
    BY <2>2, <1>2, <1>4, SameDigits
  <2>4. TicksTo(P, s) = 0
    BY <2>3, <1>2 DEF TicksTo
  <2> QED BY <2>4, <1>3, <1>7 DEF Due
<1>10. CASE w.scan.half # "old"
  <2>1. w.scan.half = "new" /\ Digit(P, 0) \in Cells
    BY <1>2, <1>8, <1>10, ScanIs, QuotNext
  <2>2. Digit(P, 0) # RingSize - 1
    <3>1. SUFFICES ASSUME Digit(P, 0) = RingSize - 1
                   PROVE  FALSE
      OBVIOUS
    <3>2. w.pos[0] = 0
      BY <3>1, <2>1, <1>1, <1>2, <1>8, TurnedDigits DEF Stepped
    <3>3. SweptTo(w) = 1
      BY <3>2, <1>1, <1>10, SizeIs DEF SweptTo
    <3>4. RingOf(w, s) >= 1
      BY <3>3, <1>1, <1>2, <1>3 DEF Placed
    <3>5. RingOf(w, s) = 0
      BY <1>1, <1>3, Zenon DEF Home
    <3> QED BY <3>4, <3>5
  <2>3. s = P + 1
    BY <2>2, <1>1, <1>2, <1>4, <1>5, <1>10, ServedReading
  <2>4. TicksTo(P, s) = 1
    BY <2>3, <1>2 DEF TicksTo
  <2> QED BY <2>4, <1>3, <1>7 DEF Due
<1> QED BY <1>9, <1>10

\* A timer that is still there is not overdue, also when the clock moves on.
LEMMA LateDue ==
  ASSUME NEW w, NEW t \in Nat, NEW P, Good(w, t, P), t - w.prev < MaxLag, NEW id \in LiveIds(w),
         NEW at \in Nat, InTime(Due(w, P, id), at, StampOf(w, id))
  PROVE  t + 1 <= at + MaxLag
<1>1. /\ RingsOK(w) /\ Reads(w, P) /\ OnTime(w, t, P) /\ Placed(w, P)
      /\ w.prev \in Nat /\ P \in Nat /\ P \in 0..Lap - 1
      /\ w.scan.at \in Nat /\ w.scan.left \in Nat /\ w.scan.todo \in Nat
      /\ MaxLag \in Nat /\ Lap \in Nat
  BY GoodIs, LagIs, LapIs
<1>2. PICK s : s = StampOf(w, id)
  OBVIOUS
<1>3. s \in Nat /\ s \in 1..Lap - 1
  BY <1>2, GoodIs
<1>4. PICK a : a = Tau(w)
  OBVIOUS
<1>5. a \in Int /\ w.prev <= a
  <2>1. CASE w.scan.on
    <3>1. w.prev + w.scan.left + w.scan.todo <= w.scan.at
      BY <2>1, <1>1 DEF OnTime, InScale
    <3>2. a = w.scan.at - w.scan.left - w.scan.todo
      BY <2>1, <1>4 DEF Tau
    <3> QED BY <3>1, <3>2, <1>1
  <2>2. CASE ~w.scan.on
    BY <2>2, <1>1, <1>4 DEF Tau
  <2> QED BY <2>1, <2>2
<1>6. t + 1 <= a + MaxLag
  BY <1>1, <1>5
<1>7. PICK n : n = TicksTo(P, s)
  OBVIOUS
<1>8. n \in Nat /\ (s # P => n >= 1)
  <2>1. CASE s >= P
    BY <2>1, <1>1, <1>3, <1>7 DEF TicksTo
  <2>2. CASE ~(s >= P)
    BY <2>2, <1>1, <1>3, <1>7 DEF TicksTo
  <2> QED BY <2>1, <2>2
<1>9. Due(w, P, id) = a + n
  BY <1>2, <1>4, <1>7 DEF Due
<1>10. CASE Digit(s, 0) = 0
  <2>1. a + n <= at
    BY <1>10, <1>2, <1>5, <1>8, <1>9 DEF InTime
  <2> QED BY <2>1, <1>1, <1>5, <1>6, <1>8
<1>11. CASE Digit(s, 0) # 0
  <2>1. a + n <= at + 1
    BY <1>11, <1>2, <1>5, <1>8, <1>9 DEF InTime
  <2>2. s # P
    BY <1>1, <1>2, <1>11 DEF Placed, NotMissed
  <2> QED BY <2>1, <2>2, <1>1, <1>5, <1>6, <1>8
<1> QED BY <1>10, <1>11

\* When a request is to time out, and that its timer is set for that time.
Deadline(s, p) == s.param[p].at + Delay[p]

Timely(s, P) ==
  \A i \in Requests(s.wheel) : \A at : at = Deadline(s, Owner(s.wheel, i)) => Prompt(s.wheel, P, i, at)

\* The queue is good, and serves every request in time.
InTimes(s) == \E P : Good(s.wheel, now, P) /\ Timely(s, P)

\* A request that has a timer has been posted.
Posts(s) == \A i \in Requests(s.wheel) : Owner(s.wheel, i) \in Params /\ Posted(s, Owner(s.wheel, i))

\* A timer set in time stays so while the rings stand still.
LEMMA RoamsTimely ==
  ASSUME NEW X, NEW s, NEW t, Roams(X, s, t), NEW P, Ready(s.wheel, P), Timely(s, P), Posts(s)
  PROVE  Ready(t.wheel, P) /\ SameRings(s.wheel, t.wheel) /\ Timely(t, P)
<1>1. /\ Ready(t.wheel, P) /\ SameRings(s.wheel, t.wheel)
      /\ \A i \in Requests(t.wheel) : Carried(s, t, i) \/ JustSet(t, P, i)
  BY DEF Roams, Timing
<1>2. \A p \in Params : Posted(s, p) => t.param[p].at = s.param[p].at
  BY DEF Roams, Lasts
<1>3. Tau(t.wheel) = Tau(s.wheel)
  BY <1>1 DEF SameRings, Tau
<1>4. ASSUME NEW i \in Requests(t.wheel), NEW at, at = Deadline(t, Owner(t.wheel, i)), Carried(s, t, i)
      PROVE  Prompt(t.wheel, P, i, at)
  <2>1. /\ i \in Requests(s.wheel) /\ Owner(t.wheel, i) = Owner(s.wheel, i)
        /\ StampOf(t.wheel, i) = StampOf(s.wheel, i)
    BY <1>4 DEF Carried, Requests, Owner, StampOf
  <2>2. Owner(s.wheel, i) \in Params /\ Posted(s, Owner(s.wheel, i))
    BY <2>1 DEF Posts
  <2>3. at = Deadline(s, Owner(s.wheel, i))
    BY <1>2, <1>4, <2>1, <2>2 DEF Deadline
  <2>4. Prompt(s.wheel, P, i, at)
    BY <2>1, <2>3 DEF Timely
  <2>5. Due(t.wheel, P, i) = Due(s.wheel, P, i)
    BY <1>3, <2>1 DEF Due
  <2> QED BY <2>1, <2>4, <2>5 DEF Prompt
<1>5. ASSUME NEW i \in Requests(t.wheel), NEW at, at = Deadline(t, Owner(t.wheel, i)), JustSet(t, P, i)
      PROVE  Prompt(t.wheel, P, i, at)
  BY <1>5 DEF JustSet, Deadline
<1> QED BY <1>1, <1>4, <1>5 DEF Timely

\* And while the scan goes on.
LEMMA LessTimely ==
  ASSUME NEW s, NEW P, Timely(s, P), NEW t, NEW Q, LessDues(s.wheel, P, t.wheel, Q), t.param = s.param
  PROVE  Timely(t, Q)
<1>1. ASSUME NEW i \in Requests(t.wheel), NEW at, at = Deadline(t, Owner(t.wheel, i))
      PROVE  Prompt(t.wheel, Q, i, at)
  <2>1. /\ i \in LiveIds(t.wheel) /\ i \in LiveIds(s.wheel) /\ t.wheel.heap[i] = s.wheel.heap[i]
        /\ Due(t.wheel, Q, i) = Due(s.wheel, P, i)
    BY DEF LessDues, Requests
  <2>2. i \in Requests(s.wheel) /\ Owner(t.wheel, i) = Owner(s.wheel, i) /\ StampOf(t.wheel, i) = StampOf(s.wheel, i)
    BY <2>1 DEF Requests, Owner, StampOf
  <2>3. at = Deadline(s, Owner(s.wheel, i))
    BY <1>1, <2>2 DEF Deadline
  <2>4. Prompt(s.wheel, P, i, at)
    BY <2>2, <2>3 DEF Timely
  <2> QED BY <2>1, <2>2, <2>4 DEF Prompt
<1> QED BY <1>1 DEF Timely

\* An event between two scans.
LEMMA ActedTimely ==
  ASSUME now \in Nat, NEW s, NEW t, Acted(s, t), InTimes(s), Posts(s)
  PROVE  InTimes(t)
<1>1. PICK P : Good(s.wheel, now, P) /\ Timely(s, P)
  BY DEF InTimes
<1>2. Ready(s.wheel, P) /\ Roams({}, s, t)
  BY <1>1 DEF Ready, Calls, Acted
<1>3. Ready(t.wheel, P) /\ Timely(t, P)
  BY <1>1, <1>2, RoamsTimely
<1> QED BY <1>3 DEF InTimes, Ready

\* A callback.
LEMMA RanTimely ==
  ASSUME now \in Nat, NEW s, NEW t, Ran(s, t), InTimes(s), Posts(s)
  PROVE  InTimes(t)
<1>1. PICK P : Good(s.wheel, now, P) /\ Timely(s, P)
  BY DEF InTimes
<1>2. PICK id : id = FiringId(s.wheel)
  OBVIOUS
<1>3. PICK x : /\ Firing(s.wheel) /\ Roams({id}, s, x) /\ WheelOK(x.wheel) /\ x.wheel.scan = s.wheel.scan
               /\ t.wheel = Fired(x.wheel, id, now) /\ t.param = x.param
  BY <1>2 DEF Ran
<1>4. id \in LiveIds(s.wheel) /\ Ready(s.wheel, P)
  BY <1>1, <1>2, <1>3, FiringAt DEF Ready, Calls, Firing
<1>5. Ready(x.wheel, P) /\ SameRings(s.wheel, x.wheel) /\ Timely(x, P)
  BY <1>1, <1>3, <1>4, RoamsTimely
<1>6. id \in LiveIds(x.wheel) /\ x.wheel.heap[id] = s.wheel.heap[id]
  BY <1>3, <1>4 DEF Roams, Timing
<1>7. Good(x.wheel, now, P)
  BY <1>5 DEF Ready
<1>8. x.wheel.scan.on /\ x.wheel.scan.ring = 0 /\ Ahead(x.wheel) # {} /\ id = Min(Ahead(x.wheel))
  BY <1>1, <1>2, <1>3, <1>5, <1>6, <1>7, StillNext
<1>9. PICK Q : Good(t.wheel, now, Q) /\ LessDues(x.wheel, P, t.wheel, Q)
  BY <1>3, <1>7, <1>8, FiredFollows
<1>10. Timely(t, Q)
  BY <1>3, <1>5, <1>9, LessTimely
<1> QED BY <1>9, <1>10 DEF InTimes

\* The start of a scan.
LEMMA ScannedTimely ==
  ASSUME now \in Nat, Scanned, InTimes(dc)
  PROVE  InTimes(dc')
<1>1. PICK P : Good(dc.wheel, now, P) /\ Timely(dc, P)
  BY DEF InTimes
<1>2. Follows(dc.wheel, P, dc'.wheel, now)
  BY <1>1, ExpireFollows DEF Scanned
<1>3. PICK Q : Good(dc'.wheel, now, Q) /\ SameDues(dc.wheel, P, dc'.wheel, Q)
  BY <1>2 DEF Follows
<1>4. LessDues(dc.wheel, P, dc'.wheel, Q)
  <2>1. dc'.wheel.heap = dc.wheel.heap
    BY <1>3 DEF SameDues
  <2>2. LiveIds(dc'.wheel) = LiveIds(dc.wheel)
    BY <2>1, SameStamps
  <2> QED BY <1>3, <2>1, <2>2 DEF LessDues, SameDues
<1>5. Timely(dc', Q)
  BY <1>1, <1>4, LessTimely DEF Scanned
<1> QED BY <1>3, <1>5 DEF InTimes

-----------------------------------------------------------------------------
(* The invariant of client, clock and timers                               *)

\* A parameter that has not been posted has no time.
Blank(s) == \A p \in Params : ~Posted(s, p) => s.param[p].at = 0

FullInv ==
  /\ ClientInv
  /\ now <= MaxNow /\ dc.down \in BOOLEAN
  /\ Beats(dc) /\ Blank(dc) /\ InTimes(dc)

\* What a step does to the parameters: those of timers that are served may
\* time out.
Alters(s, t) ==
  \E X : Lasts(X, s, t) /\ Bold(s, t) /\ \A i \in X : Firing(s.wheel) /\ i = FiringId(s.wheel)

\* The parameters do not depend on the rest.
LEMMA ParamsAlone ==
  ASSUME NEW X, NEW s, NEW x, Lasts(X, s, x), Bold(s, x), NEW t, t.param = x.param
  PROVE  Lasts(X, s, t) /\ Bold(s, t)
<1>1. \A p : Posted(t, p) <=> Posted(x, p)
  BY DEF Posted
<1>2. Lasts(X, s, t)
  BY <1>1 DEF Lasts
<1>3. Bold(s, t)
  BY <1>1 DEF Bold
<1> QED BY <1>2, <1>3

\* Nothing has changed.
LEMMA ParamsStay ==
  ASSUME NEW s, NEW t, t.param = s.param
  PROVE  Lasts({}, s, t) /\ Bold(s, t)
<1>1. \A p : Posted(t, p) <=> Posted(s, p)
  BY DEF Posted
<1>2. Lasts({}, s, t)
  BY <1>1 DEF Lasts
<1>3. Bold(s, t)
  BY <1>1 DEF Bold
<1> QED BY <1>2, <1>3

\* That is all an event does to them.
LEMMA MovesAlter ==
  ASSUME Moves
  PROVE  Alters(dc, dc')
<1>1. CASE Acted(dc, dc')
  <2>1. PICK X : X = {}
    OBVIOUS
  <2>2. Lasts(X, dc, dc') /\ Bold(dc, dc') /\ \A i \in X : Firing(dc.wheel) /\ i = FiringId(dc.wheel)
    BY <1>1, <2>1 DEF Acted, Roams
  <2> QED BY <2>2, Zenon DEF Alters
<1>2. CASE Ran(dc, dc')
  <2>1. PICK x : Firing(dc.wheel) /\ Roams({FiringId(dc.wheel)}, dc, x) /\ dc'.param = x.param
    BY <1>2 DEF Ran
  <2>2. PICK X : X = {FiringId(dc.wheel)}
    OBVIOUS
  <2>3. Lasts(X, dc, x) /\ Bold(dc, x)
    BY <2>1, <2>2 DEF Roams
  <2>4. Lasts(X, dc, dc') /\ Bold(dc, dc')
    BY <2>1, <2>3, ParamsAlone
  <2>5. \A i \in X : Firing(dc.wheel) /\ i = FiringId(dc.wheel)
    BY <2>1, <2>2
  <2> QED BY <2>4, <2>5, Zenon DEF Alters
<1>3. CASE Scanned
  <2>1. PICK X : X = {}
    OBVIOUS
  <2>2. Lasts(X, dc, dc') /\ Bold(dc, dc')
    BY <1>3, <2>1, ParamsStay DEF Scanned
  <2>3. \A i \in X : Firing(dc.wheel) /\ i = FiringId(dc.wheel)
    BY <2>1
  <2> QED BY <2>2, <2>3, Zenon DEF Alters
<1> QED BY <1>1, <1>2, <1>3 DEF Moves

\* A parameter gets its time when it is posted.
LEMMA AltersBlank ==
  ASSUME NEW s, NEW t, Alters(s, t), Blank(s)
  PROVE  Blank(t)
<1>1. PICK X : Lasts(X, s, t) /\ Bold(s, t)
  BY DEF Alters
<1> QED BY <1>1 DEF Lasts, Bold, Blank

\* The requests' timers are those of posted requests.
LEMMA PostsIs ==
  ASSUME ClientInv
  PROVE  Posts(dc)
BY DEF ClientInv, Kept, Sound, RequestsMatch, Posts, IsOpen, Posted

\* It holds at the start.
LEMMA FullStart ==
  ASSUME Init
  PROVE  FullInv
<1>1. ClientInv
  BY InitKeeps
<1>2. /\ now = Uptime /\ dc.wheel = IdleWheel(Uptime) /\ dc.down = FALSE
      /\ dc.conns = [c \in Conns |-> IdleConn] /\ dc.param = [p \in Params |-> NewParam]
  BY DEF Init
<1>3. now <= MaxNow /\ Uptime \in Nat
  BY <1>2, DCAssumption
<1>4. Beats(dc)
  BY <1>2 DEF Beats, IdleConn
<1>5. Blank(dc)
  BY <1>2 DEF Blank, NewParam
<1>6. Good(dc.wheel, now, Uptime)
  BY <1>2, IdleGood
<1>7. LiveIds(dc.wheel) = {}
  BY <1>2, IdleWheelOK
<1>8. Timely(dc, Uptime)
  BY <1>7 DEF Timely, Requests
<1>9. InTimes(dc)
  BY <1>6, <1>8 DEF InTimes
<1> QED BY <1>1, <1>2, <1>3, <1>4, <1>5, <1>9 DEF FullInv

\* It holds after any step.
LEMMA FullStep ==
  ASSUME FullInv, [Next]_vars
  PROVE  FullInv'
<1>1. ClientInv' /\ (UNCHANGED vars \/ Tick \/ Moves) /\ now \in Nat
  BY StepKeeps DEF FullInv, ClientInv
<1>2. CASE UNCHANGED vars
  <2>1. now' = now /\ dc' = dc
    BY <1>2 DEF vars
  <2> QED BY <2>1, <1>1 DEF FullInv, Beats, Blank, InTimes
<1>3. CASE Tick
  <2>1. now' = now + 1 /\ dc' = dc /\ now < MaxNow /\ now - dc.wheel.prev < MaxLag
    BY <1>3 DEF Tick
  <2>2. now' <= MaxNow
    BY <2>1, <1>1, DCAssumption
  <2>3. InTimes(dc)'
    <3>1. PICK P : Good(dc.wheel, now, P) /\ Timely(dc, P)
      BY DEF FullInv, InTimes
    <3>2. Good(dc.wheel, now + 1, P)
      BY <3>1, <2>1, <1>1, ClockGood
    <3> QED BY <3>1, <3>2, <2>1 DEF InTimes
  <2> QED BY <2>1, <2>2, <2>3, <1>1 DEF FullInv, Beats, Blank
<1>4. CASE Moves
  <2>1. now' = now
    BY <1>4 DEF Moves
  <2>2. Blank(dc')
    BY <1>4, MovesAlter, AltersBlank DEF FullInv
  <2>3. Posts(dc) /\ InTimes(dc)
    BY PostsIs DEF FullInv
  <2>4. InTimes(dc')
    BY <1>1, <1>4, <2>3, ActedTimely, RanTimely, ScannedTimely DEF Moves
  <2>5. InTimes(dc)'
    BY <2>1, <2>4 DEF InTimes
  <2>6. Beats(dc')
    <3>1. CASE Acted(dc, dc')
      BY <3>1, CountsKeep DEF Acted, FullInv
    <3>2. CASE Ran(dc, dc')
      BY <3>2 DEF Ran, FullInv
    <3>3. CASE Scanned
      BY <3>3 DEF Scanned, FullInv, Beats
    <3> QED BY <1>4, <3>1, <3>2, <3>3 DEF Moves
  <2>7. dc'.down \in BOOLEAN
    BY <1>4 DEF Moves, Acted, Ran, Scanned, FullInv
  <2> QED BY <1>1, <2>1, <2>2, <2>5, <2>6, <2>7 DEF FullInv, Blank, Beats
<1> QED BY <1>1, <1>2, <1>3, <1>4

\* Client, connections, clock and timer queue fit together between any two
\* events, and every open request has its timer set for its time.
THEOREM FullInvAlways == Spec => []FullInv
<1>1. Init => FullInv
  BY FullStart
<1>2. FullInv /\ [Next]_vars => FullInv'
  BY FullStep
<1> QED BY <1>1, <1>2, PTL DEF Spec

\* TypeOK, of the invariant.
LEMMA TypePart ==
  ASSUME FullInv
  PROVE  TypeOK
<1>1. ClientInv /\ Sound(dc, {}, {}, {}) /\ Up(dc, {}) /\ Typed(dc)
  BY DEF FullInv, ClientInv, Kept, Sound
<1>2. now \in 0..MaxNow
  BY DCAssumption DEF FullInv, ClientInv
<1>3. dc.conns \in [Conns -> ConnState]
  BY <1>1 DEF FullInv, Beats, Typed, Conn, ConnState
<1>4. dc.ids \subseteq DOMAIN dc.wheel.heap
  BY <1>1 DEF Up, Requests, LiveIds
<1>5. \A p \in Params : /\ dc.param[p].exc \in Nat /\ dc.param[p].at \in Nat
                        /\ dc.param[p].conn \in Conns \cup {NoConn}
  BY <1>1 DEF Typed, Param
<1>6. dc.hup \in Conns \cup {NoConn} /\ dc.down \in BOOLEAN
  BY <1>1 DEF ClientInv, HangupNext, FullInv
<1>7. dc.wheel.start <= now /\ dc.wheel.prev <= now
  BY GoodIs DEF FullInv, InTimes, OnTime
<1> QED BY <1>1, <1>2, <1>3, <1>4, <1>5, <1>6, <1>7 DEF TypeOK, Typed

\* TimersKept, of the invariant.
LEMMA TimersPart ==
  ASSUME FullInv, Settled
  PROVE  TimersKept
<1>1. NumbersPartitioned(dc.wheel)
  BY DEF FullInv, ClientInv, Kept, Sound, Typed, WheelOK
<1>2. InPlace(dc.wheel)
  BY GoodPlaces DEF FullInv, InTimes, Settled
<1> QED BY <1>1, <1>2 DEF TimersKept

\* Types; the scan is never ahead of the clock, no connection misses more than
\* three heartbeats, and timer_ids_ holds only numbers that the heap knows.
THEOREM TypesAlways == Spec => []TypeOK
<1>1. FullInv => TypeOK
  BY TypePart
<1> QED BY <1>1, FullInvAlways, PTL

\* Whenever an owner runs, and between scans, every timer stands in the one
\* slot where the rings will come to it, and no number is lost (schedule,
\* cancel_timer, ring_event, CTimerRing::cycle).
THEOREM TimersStayInPlace == Spec => [](Settled => TimersKept)
<1>1. FullInv => (Settled => TimersKept)
  BY TimersPart
<1> QED BY <1>1, FullInvAlways, PTL

-----------------------------------------------------------------------------
(* The promises of RequestBroker                                           *)

\* It is unposted, open, or answered.
LEMMA ViewIs ==
  ASSUME NEW s, NEW p, s.param[p] \in Param
  PROVE  /\ View(s, p) = [is |-> View(s, p).is, at |-> s.param[p].at]
         /\ ~Posted(s, p) => View(s, p).is = "unposted"
         /\ IsOpen(s, p) => View(s, p).is = "open"
         /\ Posted(s, p) /\ ~IsOpen(s, p) =>
              \E how \in Hows : s.param[p].got = <<how>> /\ View(s, p).is = how
<1>1. View(s, p) = [is |-> View(s, p).is, at |-> s.param[p].at]
  <2>1. PICK x, y : View(s, p) = [is |-> x, at |-> y] /\ y = s.param[p].at
    BY Zenon DEF View
  <2> QED BY <2>1
<1>2. IsOpen(s, p) => Posted(s, p)
  BY DEF IsOpen, Posted
<1>3. ASSUME Posted(s, p), ~IsOpen(s, p)
      PROVE  \E how \in Hows : s.param[p].got = <<how>> /\ View(s, p).is = how
  <2>1. s.param[p].got # <<>> /\ s.param[p].got \in Gots
    BY <1>3 DEF Posted, IsOpen, Param
  <2>2. PICK how \in Hows : s.param[p].got = <<how>>
    BY <2>1 DEF Gots
  <2>3. View(s, p).is = how
    BY <2>2, <1>3 DEF View
  <2> QED BY <2>2, <2>3
<1>4. ~Posted(s, p) => View(s, p).is = "unposted"
  BY DEF View, Posted, IsOpen
<1>5. IsOpen(s, p) => View(s, p).is = "open"
  BY <1>2 DEF View, IsOpen
<1> QED BY <1>1, <1>3, <1>4, <1>5

\* What answers a request, or what becomes of one that is posted.
LEMMA ViewsAlter ==
  ASSUME NEW s, NEW t, NEW p \in Params, s.param[p] \in Param, t.param[p] \in Param,
         NEW X, Lasts(X, s, t), Bold(s, t), Blank(s)
  PROVE  \/ View(t, p) = View(s, p)
         \/ /\ IsOpen(s, p) /\ ~IsOpen(t, p) /\ View(t, p) = [View(s, p) EXCEPT !.is = View(t, p).is]
            /\ View(t, p).is \in Hows /\ (View(t, p).is = "timeout" => s.param[p].exc \in X)
         \/ /\ ~Posted(s, p) /\ View(s, p) = [is |-> "unposted", at |-> 0]
            /\ View(t, p) = [is |-> View(t, p).is, at |-> now] /\ View(t, p).is \in {"open", "refused"}
<1>1. CASE IsOpen(s, p)
  <2>1. Posted(s, p)
    BY <1>1 DEF IsOpen, Posted
  <2>2. Posted(t, p) /\ t.param[p].at = s.param[p].at /\ t.param[p].exc = s.param[p].exc
    BY <2>1 DEF Lasts
  <2>3. CASE IsOpen(t, p)
    <3>1. View(s, p).is = "open" /\ View(t, p).is = "open"
      BY <1>1, <2>3, ViewIs
    <3> QED BY <3>1, <2>2, ViewIs
  <2>4. CASE ~IsOpen(t, p)
    <3>1. PICK how \in Hows : t.param[p].got = <<how>> /\ View(t, p).is = how
      BY <2>2, <2>4, ViewIs
    <3>2. how = "timeout" => s.param[p].exc \in X
      <4>1. s.param[p].got # <<"timeout">>
        BY <1>1 DEF IsOpen
      <4> QED BY <3>1, <4>1, <2>2 DEF Lasts
    <3>3. View(s, p) = [is |-> View(s, p).is, at |-> s.param[p].at] /\ View(t, p) = [is |-> View(t, p).is, at |-> t.param[p].at]
      BY ViewIs
    <3>4. View(t, p) = [View(s, p) EXCEPT !.is = View(t, p).is]
      BY <3>3, <2>2
    <3> QED BY <3>1, <3>2, <3>4, <1>1, <2>4
  <2> QED BY <2>3, <2>4
<1>2. CASE Posted(s, p) /\ ~IsOpen(s, p)
  <2>1. s.param[p].got # <<>>
    BY <1>2 DEF Posted, IsOpen
  <2>2. t.param[p].got = s.param[p].got /\ t.param[p].at = s.param[p].at /\ Posted(t, p)
    BY <2>1, <1>2 DEF Lasts
  <2>3. ~IsOpen(t, p)
    BY <2>1, <2>2 DEF IsOpen
  <2>4. PICK how \in Hows : s.param[p].got = <<how>> /\ View(s, p).is = how
    BY <1>2, ViewIs
  <2>5. PICK hot \in Hows : t.param[p].got = <<hot>> /\ View(t, p).is = hot
    BY <2>2, <2>3, ViewIs
  <2>6. how = hot
    <3>1. <<how>>[1] = <<hot>>[1]
      BY <2>2, <2>4, <2>5
    <3> QED BY <3>1
  <2>7. View(s, p) = [is |-> View(s, p).is, at |-> s.param[p].at] /\ View(t, p) = [is |-> View(t, p).is, at |-> t.param[p].at]
    BY ViewIs
  <2> QED BY <2>2, <2>4, <2>5, <2>6, <2>7
<1>3. CASE ~Posted(s, p)
  <2>1. View(s, p) = [is |-> "unposted", at |-> 0]
    BY <1>3, ViewIs DEF Blank
  <2>2. CASE Posted(t, p)
    <3>1. t.param[p].at = now /\ t.param[p].got \in {<<>>, <<"refused">>}
      BY <1>3, <2>2 DEF Bold
    <3>2. View(t, p).is \in {"open", "refused"}
      <4>1. CASE t.param[p].got = <<>>
        <5>1. IsOpen(t, p)
          BY <2>2, <4>1 DEF Posted, IsOpen
        <5> QED BY <5>1, ViewIs
      <4>2. CASE t.param[p].got = <<"refused">>
        <5>1. Posted(t, p) /\ ~IsOpen(t, p)
          BY <4>2 DEF Posted, IsOpen
        <5> QED BY <5>1, <4>2 DEF View
      <4> QED BY <3>1, <4>1, <4>2
    <3> QED BY <1>3, <2>1, <3>1, <3>2, ViewIs
  <2>3. CASE ~Posted(t, p)
    <3>1. t.param[p].at = 0
      BY <1>3, <2>3 DEF Bold, Blank
    <3> QED BY <2>1, <2>3, <3>1, ViewIs
  <2> QED BY <2>2, <2>3
<1> QED BY <1>1, <1>2, <1>3

\* An open request has a timer, which is set for its time.
LEMMA OpenInTime ==
  ASSUME FullInv, NEW p \in Params, IsOpen(dc, p)
  PROVE  \E P : /\ Good(dc.wheel, now, P) /\ dc.param[p].exc \in LiveIds(dc.wheel)
                /\ \A at : at = dc.param[p].at + Delay[p] => Prompt(dc.wheel, P, dc.param[p].exc, at)
<1>1. PICK P : Good(dc.wheel, now, P) /\ Timely(dc, P)
  BY DEF FullInv, InTimes
<1>2. dc.param[p].exc \in Requests(dc.wheel) /\ Owner(dc.wheel, dc.param[p].exc) = p
  BY DEF FullInv, ClientInv, Kept, Sound, RequestsMatch
<1> QED BY <1>1, <1>2, Zenon DEF Timely, Deadline, Requests

\* A timeout is not early.
LEMMA TimeoutInTime ==
  ASSUME FullInv, NEW p \in Params, IsOpen(dc, p), Firing(dc.wheel), dc.param[p].exc = FiringId(dc.wheel)
  PROVE  now + (MaxLag - 1) >= dc.param[p].at + Delay[p]
<1>1. PICK id : id = dc.param[p].exc
  OBVIOUS
<1>2. PICK at : at = dc.param[p].at + Delay[p]
  OBVIOUS
<1>3. PICK P : Good(dc.wheel, now, P) /\ Prompt(dc.wheel, P, id, at)
  BY <1>1, <1>2, OpenInTime
<1>4. now \in Nat /\ MaxLag \in Nat /\ dc.param[p].at \in Nat /\ Delay[p] \in Nat
  BY LagIs, DelayIs DEF FullInv, ClientInv, Kept, Sound, Typed, Param
<1>5. PICK d \in Int : d = Due(dc.wheel, P, id) /\ d <= now
  BY <1>1, <1>3, <1>4, FiringDue
<1>6. at - (MaxLag - 1) <= d
  BY <1>3, <1>5 DEF Prompt, InTime
<1> QED BY <1>2, <1>4, <1>5, <1>6

\* An open request does not outlive its time.
LEMMA TickInTime ==
  ASSUME FullInv, Tick, NEW p \in Params, IsOpen(dc, p)
  PROVE  now + 1 <= dc.param[p].at + Delay[p] + MaxLag
<1>1. PICK id : id = dc.param[p].exc
  OBVIOUS
<1>2. now \in Nat /\ MaxLag \in Nat /\ dc.param[p].at \in Nat /\ Delay[p] \in Nat
  BY LagIs, DelayIs DEF FullInv, ClientInv, Kept, Sound, Typed, Param
<1>3. PICK at \in Nat : at = dc.param[p].at + Delay[p]
  BY <1>2
<1>4. PICK P : Good(dc.wheel, now, P) /\ id \in LiveIds(dc.wheel) /\ Prompt(dc.wheel, P, id, at)
  BY <1>1, <1>3, OpenInTime
<1>5. now - dc.wheel.prev < MaxLag
  BY DEF Tick
<1>6. now + 1 <= at + MaxLag
  BY <1>2, <1>4, <1>5, LateDue DEF Prompt
<1> QED BY <1>3, <1>6

\* The broker's Serve, in terms of views.
LEMMA BrokerServes ==
  ASSUME NEW V, V = Views(dc), NEW W, W = Views(dc'), now' = now,
         NEW F \in SUBSET {p \in Params : V[p].is = "open"},
         NEW A \in SUBSET {p \in Params : V[p] = [is |-> "unposted", at |-> 0]},
         F \cup A # {},
         \A p \in F : /\ W[p].is \in Hows /\ W[p] = [V[p] EXCEPT !.is = W[p].is]
                      /\ W[p].is = "timeout" => now + (MaxLag - 1) >= V[p].at + Delay[p],
         \A p \in A : W[p] = [is |-> W[p].is, at |-> now] /\ W[p].is \in {"open", "refused"},
         \A p \in Params : p \notin F /\ p \notin A => W[p] = V[p]
  PROVE  Broker!Serve
<1>1. PICK answer \in [F -> Broker!Answers] : \A p \in F : answer[p] = W[p].is
  <2>1. [p \in F |-> W[p].is] \in [F -> Broker!Answers]
    BY DEF Broker!Answers, Hows
  <2> QED BY <2>1
<1>2. PICK entry \in [A -> {"open", "refused"}] : \A p \in A : entry[p] = W[p].is
  <2>1. [p \in A |-> W[p].is] \in [A -> {"open", "refused"}]
    OBVIOUS
  <2> QED BY <2>1
<1>3. F \in SUBSET Broker!Open /\ A \in SUBSET {p \in Params : Views(dc)[p] = Broker!Unposted}
  BY DEF Broker!Open, Broker!Unposted
<1>4. \A p \in F : answer[p] = "timeout" => now + (MaxLag - 1) >= Views(dc)[p].at + Delay[p]
  BY <1>1, ZenonT(90)
<1>5. Views(dc') = Broker!Served(F, A, answer, entry)
  <2>1. \A p \in Params : W[p] = IF p \in F THEN [V[p] EXCEPT !.is = answer[p]]
                                 ELSE IF p \in A THEN [is |-> entry[p], at |-> now] ELSE V[p]
    BY <1>1, <1>2
  <2>2. W = [p \in Params |-> W[p]]
    BY DEF Views
  <2> QED BY <2>1, <2>2 DEF Broker!Served
<1>6. Views(dc)' = Broker!Served(F, A, answer, entry)
  BY <1>5
<1>7. /\ F \cup A # {} /\ UNCHANGED now
      /\ \E r \in [F -> Broker!Answers], e \in [A -> {"open", "refused"}] :
            /\ \A p \in F : r[p] = "timeout" => now + (MaxLag - 1) >= Views(dc)[p].at + Delay[p]
            /\ Views(dc)' = Broker!Served(F, A, r, e)
  <2>1. answer \in [F -> Broker!Answers] /\ entry \in [A -> {"open", "refused"}]
    BY <1>1, <1>2
  <2> QED BY <2>1, <1>4, <1>6
<1>8. SUFFICES \E G \in SUBSET Broker!Open, B \in SUBSET {p \in Params : Views(dc)[p] = Broker!Unposted} :
        /\ G \cup B # {}
        /\ \E r \in [G -> Broker!Answers], e \in [B -> {"open", "refused"}] :
              /\ \A p \in G : r[p] = "timeout" => now + (MaxLag - 1) >= Views(dc)[p].at + Delay[p]
              /\ Views(dc)' = Broker!Served(G, B, r, e)
        /\ UNCHANGED now
  BY Zenon DEF Broker!Serve
<1> F \in SUBSET Broker!Open /\ A \in SUBSET {p \in Params : Views(dc)[p] = Broker!Unposted}
  BY <1>3
<1> WITNESS F \in SUBSET Broker!Open, A \in SUBSET {p \in Params : Views(dc)[p] = Broker!Unposted}
<1> QED BY <1>7

\* An event answers open requests and posts new ones, or the caller sees
\* nothing of it.
LEMMA MovesServe ==
  ASSUME FullInv, FullInv', Moves
  PROVE  Broker!Serve \/ (Views(dc') = Views(dc) /\ now' = now)
<1>1. PICK V : V = Views(dc)
  OBVIOUS
<1>2. PICK W : W = Views(dc')
  OBVIOUS
<1>3. \A p \in Params : V[p] = View(dc, p) /\ W[p] = View(dc', p)
  BY <1>1, <1>2 DEF Views
<1>4. now' = now
  BY DEF Moves
<1>5. PICK X : Lasts(X, dc, dc') /\ Bold(dc, dc') /\ \A i \in X : Firing(dc.wheel) /\ i = FiringId(dc.wheel)
  BY MovesAlter DEF Alters
<1>6. Blank(dc) /\ \A p \in Params : dc.param[p] \in Param /\ dc'.param[p] \in Param
  BY DEF FullInv, ClientInv, Kept, Sound, Typed
<1>7. \A p \in Params :
        \/ W[p] = V[p]
        \/ /\ IsOpen(dc, p) /\ ~IsOpen(dc', p) /\ W[p] = [V[p] EXCEPT !.is = W[p].is]
           /\ W[p].is \in Hows /\ (W[p].is = "timeout" => dc.param[p].exc \in X)
        \/ /\ ~Posted(dc, p) /\ V[p] = [is |-> "unposted", at |-> 0]
           /\ W[p] = [is |-> W[p].is, at |-> now] /\ W[p].is \in {"open", "refused"}
  BY <1>3, <1>5, <1>6, ViewsAlter
<1>8. PICK F : F = {p \in Params : W[p] # V[p] /\ IsOpen(dc, p)}
  OBVIOUS
<1>9. PICK A : A = {p \in Params : W[p] # V[p] /\ ~IsOpen(dc, p)}
  OBVIOUS
<1>10. ASSUME NEW p \in F
       PROVE  /\ p \in Params /\ V[p].is = "open"
              /\ W[p].is \in Hows /\ W[p] = [V[p] EXCEPT !.is = W[p].is]
              /\ W[p].is = "timeout" => now + (MaxLag - 1) >= V[p].at + Delay[p]
  <2>1. p \in Params /\ W[p] # V[p] /\ IsOpen(dc, p) /\ Posted(dc, p)
    BY <1>8, <1>10 DEF IsOpen, Posted
  <2>2. V[p].is = "open" /\ V[p].at = dc.param[p].at
    BY <2>1, <1>3, <1>6, ViewIs
  <2>3. W[p].is \in Hows /\ W[p] = [V[p] EXCEPT !.is = W[p].is] /\ (W[p].is = "timeout" => dc.param[p].exc \in X)
    BY <2>1, <1>7
  <2>4. ASSUME W[p].is = "timeout"
        PROVE  now + (MaxLag - 1) >= V[p].at + Delay[p]
    <3>1. Firing(dc.wheel) /\ dc.param[p].exc = FiringId(dc.wheel)
      BY <2>3, <2>4, <1>5
    <3>2. now + (MaxLag - 1) >= dc.param[p].at + Delay[p]
      BY <2>1, <3>1, TimeoutInTime
    <3> QED BY <2>2, <3>2
  <2> QED BY <2>1, <2>2, <2>3, <2>4
<1>11. ASSUME NEW p \in A
       PROVE  /\ p \in Params /\ V[p] = [is |-> "unposted", at |-> 0]
              /\ W[p] = [is |-> W[p].is, at |-> now] /\ W[p].is \in {"open", "refused"}
  <2>1. p \in Params /\ W[p] # V[p] /\ ~IsOpen(dc, p)
    BY <1>9, <1>11
  <2> QED BY <2>1, <1>7
<1>12. \A p \in Params : p \notin F /\ p \notin A => W[p] = V[p]
  BY <1>8, <1>9
<1>13. CASE F \cup A # {}
  <2>1. F \in SUBSET {p \in Params : V[p].is = "open"}
    BY <1>10
  <2>2. A \in SUBSET {p \in Params : V[p] = [is |-> "unposted", at |-> 0]}
    BY <1>11
  <2> QED BY <1>1, <1>2, <1>4, <1>10, <1>11, <1>12, <1>13, <2>1, <2>2, BrokerServes, SMTT(90)
<1>14. CASE F \cup A = {}
  <2>1. \A p \in Params : W[p] = V[p]
    BY <1>12, <1>14
  <2>2. W = [p \in Params |-> W[p]] /\ V = [p \in Params |-> V[p]]
    BY <1>1, <1>2 DEF Views
  <2>3. W = V
    BY <2>1, <2>2
  <2> QED BY <1>1, <1>2, <1>4, <2>3
<1> QED BY <1>13, <1>14

\* Time passes for the broker.
LEMMA TickServes ==
  ASSUME FullInv, Tick
  PROVE  Broker!Tick
<1>1. now' = now + 1 /\ dc' = dc
  BY DEF Tick
<1>2. Views(dc') = Views(dc)
  BY <1>1
<1>3. ASSUME NEW p \in Broker!Open
      PROVE  ~(now' > Views(dc')[p].at + Delay[p] + MaxLag)
  <2>1. p \in Params /\ View(dc, p).is = "open"
    BY <1>3 DEF Broker!Open, Views
  <2>2. dc.param[p] \in Param
    BY <2>1 DEF FullInv, ClientInv, Kept, Sound, Typed
  <2>3. IsOpen(dc, p)
    <3>1. CASE ~Posted(dc, p)
      <4>1. View(dc, p).is = "unposted"
        BY <3>1, <2>2, ViewIs
      <4> QED BY <4>1, <2>1
    <3>2. CASE Posted(dc, p) /\ ~IsOpen(dc, p)
      <4>1. View(dc, p).is \in Hows
        BY <3>2, <2>2, ViewIs
      <4> QED BY <4>1, <2>1 DEF Hows
    <3> QED BY <3>1, <3>2
  <2>4. now + 1 <= dc.param[p].at + Delay[p] + MaxLag
    BY <2>1, <2>3, TickInTime
  <2>5. Views(dc')[p].at = dc.param[p].at
    <3>1. View(dc, p).at = dc.param[p].at
      BY <2>2, ViewIs
    <3> QED BY <3>1, <1>2, <2>1 DEF Views
  <2>6. now \in Nat /\ MaxLag \in Nat /\ dc.param[p].at \in Nat /\ Delay[p] \in Nat
    BY <2>1, LagIs, DelayIs DEF FullInv, ClientInv, Kept, Sound, Typed, Param
  <2> QED BY <1>1, <2>4, <2>5, <2>6
<1>4. \A p \in Broker!Open : ~Broker!Overdue(p)'
  BY <1>3 DEF Broker!Overdue
<1> QED BY <1>1, <1>2, <1>4 DEF Broker!Tick

\* Every step of the client is one the broker may make, or none to its callers.
LEMMA BrokerStep ==
  ASSUME FullInv, FullInv', [Next]_vars
  PROVE  [Broker!BrokerNext]_<<now, Views(dc)>>
<1>1. UNCHANGED vars \/ Tick \/ Moves
  BY StepKeeps DEF FullInv
<1>2. CASE UNCHANGED vars
  <2>1. now' = now /\ dc' = dc
    BY <1>2 DEF vars
  <2> QED BY <2>1
<1>3. CASE Tick
  BY <1>3, TickServes DEF Broker!BrokerNext
<1>4. CASE Moves
  <2>1. CASE Broker!Serve
    BY <2>1 DEF Broker!BrokerNext
  <2>2. CASE Views(dc') = Views(dc) /\ now' = now
    BY <2>2
  <2> QED BY <1>4, <2>1, <2>2, MovesServe
<1> QED BY <1>1, <1>2, <1>3, <1>4

\* At the start nothing has been posted.
LEMMA BrokerStart ==
  ASSUME Init
  PROVE  Broker!BrokerInit
<1>1. now \in Nat /\ dc.param = [p \in Params |-> NewParam]
  BY DCAssumption DEF Init
<1>2. ASSUME NEW p \in Params
      PROVE  View(dc, p) = [is |-> "unposted", at |-> 0]
  <2>1. dc.param[p] = NewParam
    BY <1>1
  <2>2. ~Posted(dc, p) /\ dc.param[p].at = 0
    BY <2>1 DEF Posted, NewParam
  <2>3. dc.param[p] \in Param
    BY <2>1 DEF NewParam, Param, Gots
  <2> QED BY <2>2, <2>3, ViewIs
<1>3. Views(dc) = [p \in Params |-> [is |-> "unposted", at |-> 0]]
  BY <1>2 DEF Views
<1> QED BY <1>1, <1>3 DEF Broker!BrokerInit, Broker!Unposted

\* The client keeps the promises of RequestBroker: a parameter comes back once,
\* no request is open for longer than its delay and the reactor's lag, and no
\* timeout is reported before the delay is over, but for the lag.
THEOREM ClientKeepsPromises == Spec => KeepsPromises
<1>1. Init => Broker!BrokerInit
  BY BrokerStart
<1>2. FullInv /\ FullInv' /\ [Next]_vars => [Broker!BrokerNext]_<<now, Views(dc)>>
  BY BrokerStep
<1>3. Spec => []FullInv
  BY FullInvAlways
<1> QED BY <1>1, <1>2, <1>3, PTL DEF Spec, KeepsPromises, Broker!BrokerSpec, Broker!brokerVars
-----------------------------------------------------------------------------
(* What the promises come to for a request                                 *)

\* An open request has not outlived its delay by more than the reactor's lag.
NoneOverdue ==
  \A p \in Params : IsOpen(dc, p) => now <= dc.param[p].at + Delay[p] + MaxLag

\* A timeout is reported to a request whose delay is over, but for the lag.
TimeoutDue ==
  \A p \in Params : IsOpen(dc, p) /\ dc'.param[p].got = <<"timeout">> =>
    dc.param[p].at + Delay[p] <= now + (MaxLag - 1)

\* A parameter that was handed back keeps its answer, its number and its time.
AnswerStays ==
  \A p \in Params : dc.param[p].got # <<>> =>
    /\ dc'.param[p].got = dc.param[p].got
    /\ dc'.param[p].exc = dc.param[p].exc
    /\ dc'.param[p].at = dc.param[p].at

\* The clock stops at an open request's last moment, because the wheel comes to
\* its timer before; an event leaves the time of an open request alone, and a
\* request it opens is as old as the event.
LEMMA NoneOverdueStep ==
  ASSUME FullInv, NoneOverdue, [Next]_vars
  PROVE  NoneOverdue'
<1> SUFFICES ASSUME NEW p \in Params, IsOpen(dc', p)
             PROVE  now' <= dc'.param[p].at + Delay[p] + MaxLag
  BY DEF NoneOverdue, IsOpen
<1>1. UNCHANGED vars \/ Tick \/ Moves
  BY StepKeeps DEF FullInv
<1>2. now \in Nat /\ MaxLag \in Nat /\ dc.param[p].at \in Nat /\ Delay[p] \in Nat
  BY LagIs, DelayIs DEF FullInv, ClientInv, Kept, Sound, Typed, Param
<1>3. CASE UNCHANGED vars
  <2>1. now' = now /\ dc' = dc
    BY <1>3 DEF vars
  <2> QED BY <2>1 DEF NoneOverdue
<1>4. CASE Tick
  <2>1. now' = now + 1 /\ dc' = dc
    BY <1>4 DEF Tick
  <2>2. now + 1 <= dc.param[p].at + Delay[p] + MaxLag
    BY <1>4, <2>1, TickInTime
  <2> QED BY <2>1, <2>2
<1>5. CASE Moves
  <2>1. now' = now
    BY <1>5 DEF Moves
  <2>2. PICK X : Lasts(X, dc, dc') /\ Bold(dc, dc')
    BY <1>5, MovesAlter DEF Alters
  <2>3. CASE Posted(dc, p)
    <3>1. dc'.param[p].at = dc.param[p].at
      BY <2>2, <2>3 DEF Lasts
    <3>2. dc.param[p].got = <<>>
      BY <2>2 DEF Lasts, IsOpen
    <3>3. IsOpen(dc, p)
      BY <2>3, <3>2 DEF Posted, IsOpen
    <3> QED BY <2>1, <3>1, <3>3 DEF NoneOverdue
  <2>4. CASE ~Posted(dc, p)
    <3>1. Posted(dc', p)
      BY DEF Posted, IsOpen
    <3>2. dc'.param[p].at = now
      BY <2>2, <2>4, <3>1 DEF Bold
    <3> QED BY <2>1, <3>2, <1>2
  <2> QED BY <2>3, <2>4
<1> QED BY <1>1, <1>3, <1>4, <1>5

\* A step reports the timeout of the timer that fires, and no other.
LEMMA TimeoutDueStep ==
  ASSUME FullInv, [Next]_vars
  PROVE  TimeoutDue \/ UNCHANGED vars
<1>1. UNCHANGED vars \/ Tick \/ Moves
  BY StepKeeps DEF FullInv
<1>2. CASE Tick
  <2>1. dc' = dc
    BY <1>2 DEF Tick
  <2>2. <<"timeout">> # <<>>
    OBVIOUS
  <2> QED BY <2>1, <2>2, Zenon DEF TimeoutDue, IsOpen
<1>3. CASE Moves
  <2>1. SUFFICES ASSUME NEW p \in Params, IsOpen(dc, p), dc'.param[p].got = <<"timeout">>
                 PROVE  dc.param[p].at + Delay[p] <= now + (MaxLag - 1)
    BY DEF TimeoutDue
  <2>2. PICK X : Lasts(X, dc, dc') /\ \A i \in X : Firing(dc.wheel) /\ i = FiringId(dc.wheel)
    BY <1>3, MovesAlter DEF Alters
  <2>3. Posted(dc, p) /\ dc.param[p].got = <<>>
    BY <2>1 DEF IsOpen, Posted
  <2>4. dc'.param[p].exc = dc.param[p].exc
    BY <2>2, <2>3 DEF Lasts
  <2>5. dc'.param[p].exc \in X
    BY <2>1, <2>2, <2>3 DEF Lasts
  <2>6. Firing(dc.wheel) /\ dc.param[p].exc = FiringId(dc.wheel)
    BY <2>2, <2>4, <2>5
  <2>7. now + (MaxLag - 1) >= dc.param[p].at + Delay[p]
    BY <2>1, <2>6, TimeoutInTime
  <2>8. now \in Nat /\ MaxLag \in Nat /\ dc.param[p].at \in Nat /\ Delay[p] \in Nat
    BY LagIs, DelayIs DEF FullInv, ClientInv, Kept, Sound, Typed, Param
  <2> QED BY <2>7, <2>8
<1> QED BY <1>1, <1>2, <1>3

\* No step gives another answer, or opens the request again.
LEMMA AnswerStaysStep ==
  ASSUME FullInv, [Next]_vars
  PROVE  AnswerStays \/ UNCHANGED vars
<1>1. UNCHANGED vars \/ Tick \/ Moves
  BY StepKeeps DEF FullInv
<1>2. CASE Tick
  BY <1>2 DEF Tick, AnswerStays
<1>3. CASE Moves
  <2>1. PICK X : Lasts(X, dc, dc')
    BY <1>3, MovesAlter DEF Alters
  <2> QED BY <2>1 DEF Lasts, Posted, AnswerStays
<1> QED BY <1>1, <1>2, <1>3

\* No request outlives its delay by more than the lag: time can only pass while
\* the scan is not MaxLag behind, and by then it has called every request whose
\* delay was over that long ago, wherever its timer stood.
THEOREM RequestsEndInTime == Spec => []NoneOverdue
<1>1. Init => NoneOverdue
  <2> SUFFICES ASSUME Init, NEW p \in Params
               PROVE  ~IsOpen(dc, p)
    BY DEF NoneOverdue
  <2>1. dc.param[p] = NewParam
    BY DEF Init
  <2> QED BY <2>1 DEF IsOpen, NewParam
<1>2. FullInv /\ NoneOverdue /\ [Next]_vars => NoneOverdue'
  BY NoneOverdueStep
<1> QED BY <1>1, <1>2, FullInvAlways, PTL DEF Spec

\* No timeout is early: a request is told so only when its delay is over, but
\* for the lag by which a late scan may shift the last ring.
THEOREM TimeoutsAreDue == Spec => [][TimeoutDue]_vars
<1>1. FullInv /\ [Next]_vars => [TimeoutDue]_vars
  BY TimeoutDueStep
<1> QED BY <1>1, FullInvAlways, PTL DEF Spec

\* A parameter that was handed back is done with, whichever handlers still run
\* for its number, its timer or its connection.
THEOREM AnswersAreFinal == Spec => [][AnswerStays]_vars
<1>1. FullInv /\ [Next]_vars => [AnswerStays]_vars
  BY AnswerStaysStep
<1> QED BY <1>1, FullInvAlways, PTL DEF Spec
=============================================================================
