---------------------------- MODULE RingNumbers ----------------------------
(* Facts about commands numbered for ever and kept in a ring of slots.     *)
EXTENDS Integers, TLAPS

\* A remainder is a slot number: what cmd % QUEUE_CAP can be.
LEMMA Division ==
    ASSUME NEW a \in Nat, NEW c \in Nat \ {0}
    PROVE  a % c \in 0 .. c - 1 /\ a \div c \in Nat /\ a = c * (a \div c) + (a % c)
<1>1. a % c \in 0 .. c - 1
  OBVIOUS
<1>2. a \div c \in Int
  OBVIOUS
<1>3. a = c * (a \div c) + (a % c)
  OBVIOUS
<1>4. a \div c \in Nat
  <2>1. SUFFICES ASSUME a \div c <= -1 PROVE FALSE
    BY <1>2
  <2>2. c * (a \div c) <= -c
    BY <1>2, <2>1
  <2>. QED BY <2>2, <1>1, <1>3
<1>. QED BY <1>1, <1>2, <1>3, <1>4

\* No multiple of the ring's size lies strictly between 0 and it.
LEMMA NoMultipleBetween ==
    ASSUME NEW c \in Nat \ {0}, NEW k \in Int, 0 < c * k, c * k < c
    PROVE  FALSE
<1>1. CASE k <= 0
  <2>1. c * k <= 0
    BY <1>1
  <2>. QED BY <2>1
<1>2. CASE k >= 1
  <2>1. c * k >= c
    BY <1>2
  <2>. QED BY <2>1
<1>. QED BY <1>1, <1>2

\* Commands less than a ring apart have slots of their own.
LEMMA SlotsDiffer ==
    ASSUME NEW a \in Nat, NEW b \in Nat, NEW c \in Nat \ {0}, a < b, b - a < c
    PROVE  a % c # b % c
<1>. SUFFICES ASSUME a % c = b % c PROVE FALSE
  OBVIOUS
<1>. DEFINE p == a \div c
            q == b \div c
<1>1. a = c * p + (a % c) /\ b = c * q + (b % c) /\ p \in Nat /\ q \in Nat
  BY Division
<1>2. a % c \in Nat /\ b % c \in Nat
  BY Division
<1>. HIDE DEF p, q
<1>3. b - a = c * q - c * p
  BY <1>1, <1>2
<1>4. c * q - c * p = c * (q - p)
  BY <1>1
<1>5. b - a = c * (q - p) /\ q - p \in Int
  BY <1>1, <1>3, <1>4
<1>6. 0 < c * (q - p) /\ c * (q - p) < c
  BY <1>5
<1>. QED BY <1>5, <1>6, NoMultipleBetween
=============================================================================
