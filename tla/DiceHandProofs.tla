--------------------------- MODULE DiceHandProofs ---------------------------
(***************************************************************************)
(* That evaluate_hand (module DiceHand) finds the best combination of any  *)
(* hand and names its dice.  The loop keeps two facts: what it has written *)
(* down is in the hand (Claim), and no face it has passed had more to      *)
(* offer (Passed).  When it has passed all six, that is enough to know     *)
(* which combination the rules see: arithmetic on six numbers whose sum is *)
(* five (CountsAddUp, FacesAreCounted).                                    *)
(***************************************************************************)
EXTENDS DiceHand, FiniteSetTheorems, TLAPS

Hand == [1..NUMBER_OF_DICE -> Die]

-----------------------------------------------------------------------------
(* Counting.                                                               *)

One(b) == IF b THEN 1 ELSE 0

LEMMA CountOneMore ==
  ASSUME NEW S, IsFiniteSet(S), NEW x, x \notin S, NEW A
  PROVE  /\ IsFiniteSet(S \cup (A \cap {x}))
         /\ Cardinality(S \cup (A \cap {x})) = Cardinality(S) + One(x \in A)
<1> DEFINE T == S \cup (A \cap {x})
<1>1. Cardinality(S) \in Nat
  BY FS_CardinalityType
<1>2. CASE x \in A
  <2>1. T = S \cup {x}
    BY <1>2
  <2> QED
    BY <1>2, <2>1, FS_AddElement DEF One
<1>3. CASE x \notin A
  <2>1. T = S
    BY <1>3
  <2>2. Cardinality(S) + One(x \in A) = Cardinality(S)
    BY <1>1, <1>3 DEF One
  <2> QED
    BY <2>1, <2>2
<1> QED
  BY <1>2, <1>3

\* A set of dice, or of faces, is counted one by one.
LEMMA CountToSix ==
  ASSUME NEW A \in SUBSET (1..6)
  PROVE  /\ IsFiniteSet(A)
         /\ Cardinality(A) = One(1 \in A) + One(2 \in A) + One(3 \in A)
                               + One(4 \in A) + One(5 \in A) + One(6 \in A)
<1> DEFINE U(n) == A \cap (1..n)
<1>0. IsFiniteSet(U(0)) /\ Cardinality(U(0)) = 0
  <2>1. U(0) = {}
    OBVIOUS
  <2> QED
    BY <2>1, FS_EmptySet
<1>n. ASSUME NEW n \in 0..5, IsFiniteSet(U(n))
      PROVE  IsFiniteSet(U(n + 1)) /\ Cardinality(U(n + 1)) = Cardinality(U(n)) + One(n + 1 \in A)
  <2>1. U(n + 1) = U(n) \cup (A \cap {n + 1})
    OBVIOUS
  <2>2. n + 1 \notin U(n)
    OBVIOUS
  <2> HIDE DEF U
  <2> QED
    BY <1>n, <2>1, <2>2, CountOneMore
<1>6. U(6) = A
  OBVIOUS
<1> HIDE DEF U
<1>1. IsFiniteSet(U(1)) /\ Cardinality(U(1)) = One(1 \in A)
  BY <1>0, <1>n, 0 + 1 = 1 DEF One
<1>2. IsFiniteSet(U(2)) /\ Cardinality(U(2)) = One(1 \in A) + One(2 \in A)
  BY <1>1, <1>n, 1 + 1 = 2
<1>3. IsFiniteSet(U(3)) /\ Cardinality(U(3)) = One(1 \in A) + One(2 \in A) + One(3 \in A)
  BY <1>2, <1>n, 2 + 1 = 3
<1>4. /\ IsFiniteSet(U(4))
      /\ Cardinality(U(4)) = One(1 \in A) + One(2 \in A) + One(3 \in A) + One(4 \in A)
  BY <1>3, <1>n, 3 + 1 = 4
<1>5. /\ IsFiniteSet(U(5))
      /\ Cardinality(U(5)) = One(1 \in A) + One(2 \in A) + One(3 \in A) + One(4 \in A)
                               + One(5 \in A)
  BY <1>4, <1>n, 4 + 1 = 5
<1> QED
  BY <1>5, <1>6, <1>n, 5 + 1 = 6

\* How often each face was rolled.
LEMMA CountsOfHand ==
  ASSUME hand \in Hand, NEW d \in Die
  PROVE  /\ Group(d) \in SUBSET (1..6)
         /\ counts[d] = Cardinality(Group(d))
         /\ counts[d] = One(hand[1] = d) + One(hand[2] = d) + One(hand[3] = d)
                          + One(hand[4] = d) + One(hand[5] = d)
         /\ counts[d] \in 0..5
<1>1. counts[d] = Cardinality(Group(d))
  BY DEF counts, Group
<1>2. Group(d) \in SUBSET (1..6)
  BY DEF Group, NUMBER_OF_DICE
<1>3. /\ \A k \in 1..5 : k \in Group(d) <=> hand[k] = d
      /\ 6 \notin Group(d)
  BY DEF Group, NUMBER_OF_DICE
<1>4. \A k \in 1..5 : One(k \in Group(d)) = One(hand[k] = d)
  BY <1>3 DEF One
<1>5. One(6 \in Group(d)) = 0
  BY <1>3 DEF One
<1>6. \A b : One(b) \in 0..1
  BY DEF One
<1>7. counts[d] = One(hand[1] = d) + One(hand[2] = d) + One(hand[3] = d)
                    + One(hand[4] = d) + One(hand[5] = d)
  BY <1>1, <1>2, <1>4, <1>5, <1>6, CountToSix
<1> QED
  BY <1>1, <1>2, <1>6, <1>7

LEMMA CountsAddUp ==
  ASSUME hand \in Hand
  PROVE  /\ counts \in [Die -> 0..5]
         /\ counts[1] + counts[2] + counts[3] + counts[4] + counts[5] + counts[6] = 5
<1> DEFINE row(h) == One(h = 1) + One(h = 2) + One(h = 3) + One(h = 4) + One(h = 5) + One(h = 6)
<1>1. \A h \in 1..6 : row(h) = 1
  BY DEF One
<1>2. hand[1] \in 1..6 /\ hand[2] \in 1..6 /\ hand[3] \in 1..6 /\ hand[4] \in 1..6 /\ hand[5] \in 1..6
  BY DEF Hand, Die, NUMBER_OF_DICE, MAX_DIE_NUM
<1>3. row(hand[1]) = 1 /\ row(hand[2]) = 1 /\ row(hand[3]) = 1 /\ row(hand[4]) = 1 /\ row(hand[5]) = 1
  BY <1>1, <1>2
<1>4. \A d \in 1..6 :
        counts[d] = One(hand[1] = d) + One(hand[2] = d) + One(hand[3] = d)
                      + One(hand[4] = d) + One(hand[5] = d)
  BY CountsOfHand DEF Die, MAX_DIE_NUM
<1>5. \A b : One(b) \in 0..1
  BY DEF One
<1>6. counts[1] + counts[2] + counts[3] + counts[4] + counts[5] + counts[6] = 5
  BY <1>3, <1>4, <1>5
<1> QED
  BY <1>6, CountsOfHand DEF counts

\* The faces shown are the faces counted.
LEMMA FacesAreCounted ==
  ASSUME hand \in Hand
  PROVE  /\ Faces \in SUBSET (1..6)
         /\ \A d \in 1..6 : d \in Faces <=> counts[d] > 0
         /\ Cardinality(Faces) = One(counts[1] > 0) + One(counts[2] > 0) + One(counts[3] > 0)
                                   + One(counts[4] > 0) + One(counts[5] > 0) + One(counts[6] > 0)
         /\ \A n \in 1..5 : HasGroup(n) <=> \E d \in 1..6 : counts[d] >= n
<1>1. Faces \in SUBSET (1..6)
  BY DEF Faces, Hand, Die, MAX_DIE_NUM
<1>2. \A d \in 1..6 : /\ counts[d] = Cardinality(Group(d)) /\ counts[d] \in 0..5
                      /\ IsFiniteSet(Group(d))
  BY CountsOfHand, CountToSix DEF Die, MAX_DIE_NUM
<1>3. \A d \in 1..6 : d \in Faces <=> Group(d) # {}
  BY DEF Faces, Group
<1>4. \A d \in 1..6 : d \in Faces <=> counts[d] > 0
  BY <1>2, <1>3, FS_EmptySet
<1>5. \A d \in 1..6 : One(d \in Faces) = One(counts[d] > 0)
  BY <1>4 DEF One
<1>6. Cardinality(Faces) = One(counts[1] > 0) + One(counts[2] > 0) + One(counts[3] > 0)
                             + One(counts[4] > 0) + One(counts[5] > 0) + One(counts[6] > 0)
  BY <1>1, <1>5, CountToSix
<1>7. ASSUME NEW n \in 1..5
      PROVE  HasGroup(n) <=> \E d \in 1..6 : counts[d] >= n
  BY <1>1, <1>2, <1>4 DEF HasGroup
<1> QED
  BY <1>1, <1>4, <1>6, <1>7

-----------------------------------------------------------------------------
(* The loop.                                                               *)

Pairs(c, d) == {j \in Die \ {d} : c[j] = 2}
Small(c) == \A d \in 1..5 : c[d] = 1
Big(c)   == \A d \in 2..6 : c[d] = 1

\* What is written down is in a hand with counts c.
Claim(c, b) ==
  \/ b \in {[points |-> 0, score_num |-> 0], set_score(0, 6, 6)}
  \/ \E d \in Die :
       \/ c[d] = 5 /\ b = set_score(8, d, d)
       \/ c[d] = 4 /\ b = set_score(7, d, d)
       \/ c[d] = 3 /\ b = set_score(3, d, d)
       \/ c[d] = 2 /\ b = set_score(1, d, d)
       \/ \E j \in Pairs(c, d) :
            \/ c[d] = 3 /\ b = set_score(6, d, j)
            \/ c[d] = 2 /\ b = set_score(2, d, j)
  \/ Big(c) /\ b = set_score(5, 2, 6)
  \/ Small(c) /\ b = set_score(4, 1, 5)

\* Face d had no more to offer than was found.
Passed(c, b, d) ==
  /\ c[d] = 5 => b.points >= 8
  /\ c[d] = 4 => b.points >= 7
  /\ c[d] = 3 => b.points >= 3 /\ (Pairs(c, d) # {} => b.points >= 6)
  /\ c[d] = 2 => b.points >= 1 /\ (Pairs(c, d) # {} => b.points >= 2)
  /\ Big(c) => b.points >= 5
  /\ Small(c) => b.points >= 4

LoopInv ==
  /\ hand \in Hand
  /\ i \in 1..(MAX_DIE_NUM + 1)
  /\ Claim(counts, best)
  /\ \A d \in Die : d < i => Passed(counts, best, d)

LEMMA ScoreFields ==
  ASSUME NEW p, NEW x, NEW y
  PROVE  /\ set_score(p, x, y) = [points |-> p, score_num |-> 100 * p + x * 10 + y]
         /\ set_score(p, x, y).points = p
         /\ set_score(p, x, y).score_num = 100 * p + x * 10 + y
BY DEF set_score

LEMMA ClaimType ==
  ASSUME NEW c, NEW b, Claim(c, b)
  PROVE  /\ b \in [points : 0..8, score_num : 0..866]
         /\ b.score_num \div 100 = b.points
<1> DEFINE Good(r) == /\ r \in [points : 0..8, score_num : 0..866]
                      /\ r.score_num \div 100 = r.points
<1>1. ASSUME NEW p \in 0..8, NEW x \in 1..6, NEW y \in 1..6
      PROVE  Good(set_score(p, x, y))
  <2>1. (100 * p + x * 10 + y) \in 0..866 /\ (100 * p + x * 10 + y) \div 100 = p
    OBVIOUS
  <2>2. set_score(p, x, y) = [points |-> p, score_num |-> 100 * p + x * 10 + y]
    BY ScoreFields
  <2> HIDE DEF Good
  <2>3. ASSUME NEW n \in 0..866, n \div 100 = p
        PROVE  Good([points |-> p, score_num |-> n])
    BY <2>3 DEF Good
  <2> QED
    BY <2>1, <2>2, <2>3
<1>2. Good([points |-> 0, score_num |-> 0])
  OBVIOUS
<1> HIDE DEF Good
<1>3. Good(b)
  BY <1>1, <1>2 DEF Claim, Pairs, Die, MAX_DIE_NUM
<1> QED
  BY <1>3 DEF Good

LEMMA ImproveFields ==
  ASSUME NEW c, NEW old, Claim(c, old), NEW comb \in 0..8, NEW x, NEW y,
         Claim(c, set_score(comb, x, y))
  PROVE  LET new == IF old.points < comb THEN set_score(comb, x, y) ELSE old IN
         /\ Claim(c, new)
         /\ new.points >= old.points
         /\ new.points >= comb
<1>1. old.points \in 0..8
  BY ClaimType
<1> QED
  BY <1>1, ScoreFields

LEMMA StraightsDiffer ==
  ASSUME hand \in Hand
  PROVE  /\ ~(Small(counts) /\ Big(counts))
         /\ SmallStraight = Small(counts) /\ BigStraight = Big(counts)
<1>1. ~(Small(counts) /\ Big(counts))
  BY CountsAddUp DEF Small, Big
<1> QED
  BY <1>1 DEF SmallStraight, BigStraight, Small, Big

LEMMA NoPairFields ==
  ASSUME hand \in Hand, NEW old, Claim(counts, old)
  PROVE  LET new == NoPairOf(old) IN
         /\ Claim(counts, new)
         /\ new.points >= old.points
         /\ Big(counts) => new.points >= 5
         /\ Small(counts) => new.points >= 4
<1>1. old.points \in 0..8
  BY ClaimType
<1>2. CASE Small(counts) /\ old.points < 4
  <2>1. NoPairOf(old) = set_score(4, 1, 5)
    BY <1>2, StraightsDiffer DEF NoPairOf
  <2> QED
    BY <1>1, <1>2, <2>1, ScoreFields, StraightsDiffer DEF Claim
<1>3. CASE Big(counts) /\ old.points < 5
  <2>1. NoPairOf(old) = set_score(5, 2, 6)
    BY <1>3, StraightsDiffer DEF NoPairOf
  <2> QED
    BY <1>1, <1>3, <2>1, ScoreFields, StraightsDiffer DEF Claim
<1>4. CASE ~(Small(counts) /\ old.points < 4) /\ ~(Big(counts) /\ old.points < 5)
  <2>1. NoPairOf(old) \in {old, set_score(0, 6, 6)} /\ (old.points # 0 => NoPairOf(old) = old)
    BY <1>4, StraightsDiffer DEF NoPairOf
  <2>2. Claim(counts, set_score(0, 6, 6)) /\ set_score(0, 6, 6).points = 0
    BY ScoreFields DEF Claim
  <2> QED
    BY <1>1, <1>4, <2>1, <2>2
<1> QED
  BY <1>2, <1>3, <1>4

\* One turn of the loop, as the code makes it: what it writes down is claimed
\* truly, is no less than before, and leaves face d nothing to offer.
LEMMA FaceFields ==
  ASSUME hand \in Hand, NEW d \in Die, NEW old, Claim(counts, old)
  PROVE  LET five  == Improve(old, counts[d] = 5, 8, d, d)
             four  == Improve(five, counts[d] = 4, 7, d, d)
             three == IF counts[d] = 3 THEN ThreeOf(four, d) ELSE four
             new   == IF counts[d] = 2 THEN PairOf(three, d) ELSE NoPairOf(three)
         IN  /\ Claim(counts, new)
             /\ new.points >= old.points
             /\ Passed(counts, new, d)
<1> DEFINE five  == Improve(old, counts[d] = 5, 8, d, d)
           four  == Improve(five, counts[d] = 4, 7, d, d)
           three == IF counts[d] = 3 THEN ThreeOf(four, d) ELSE four
           new   == IF counts[d] = 2 THEN PairOf(three, d) ELSE NoPairOf(three)
           c     == counts
<1>a. old.points \in 0..8
  BY ClaimType
<1>0. /\ c[d] \in 0..5 /\ d \in 1..6
      /\ OtherPairs(d) = Pairs(c, d)
      /\ Pairs(c, d) # {} => OtherPair(d) \in Pairs(c, d)
  BY CountsOfHand DEF OtherPairs, OtherPair, Pairs, Die, MAX_DIE_NUM
<1>1. Claim(c, five) /\ five.points >= old.points /\ (c[d] = 5 => five.points >= 8)
  <2>1. c[d] = 5 => Claim(c, set_score(8, d, d))
    BY DEF Claim
  <2>2. CASE c[d] = 5
    <3>1. five = IF old.points < 8 THEN set_score(8, d, d) ELSE old
      BY <2>2 DEF Improve
    <3> QED
      BY <2>1, <2>2, <3>1, ImproveFields
  <2>3. CASE c[d] # 5
    <3>1. five = old
      BY <2>3 DEF Improve
    <3> QED
      BY <1>a, <2>3, <3>1
  <2> QED
    BY <2>2, <2>3
<1>b. five.points \in 0..8
  BY <1>1, ClaimType
<1> HIDE DEF five
<1>2. Claim(c, four) /\ four.points >= five.points /\ (c[d] = 4 => four.points >= 7)
  <2>1. c[d] = 4 => Claim(c, set_score(7, d, d))
    BY DEF Claim
  <2>2. CASE c[d] = 4
    <3>1. four = IF five.points < 7 THEN set_score(7, d, d) ELSE five
      BY <2>2 DEF Improve
    <3> QED
      BY <1>1, <2>1, <2>2, <3>1, ImproveFields
  <2>3. CASE c[d] # 4
    <3>1. four = five
      BY <2>3 DEF Improve
    <3> QED
      BY <1>1, <1>b, <2>3, <3>1
  <2> QED
    BY <2>2, <2>3
<1>c. four.points \in 0..8
  BY <1>2, ClaimType
<1> HIDE DEF four
<1>3. /\ Claim(c, three) /\ three.points >= four.points
      /\ c[d] = 3 => three.points >= 3 /\ (Pairs(c, d) # {} => three.points >= 6)
  <2>1. CASE c[d] # 3
    <3>1. three = four /\ four.points \in 0..8
      BY <1>2, <2>1, ClaimType
    <3> QED
      BY <1>2, <2>1, <3>1
  <2>2. CASE c[d] = 3
    <3> DEFINE full == Improve(four, OtherPairs(d) # {}, 6, d, OtherPair(d))
    <3>1. OtherPairs(d) # {} => Claim(c, set_score(6, d, OtherPair(d)))
      BY <1>0, <2>2 DEF Claim
    <3>2. /\ Claim(c, full) /\ full.points >= four.points
          /\ Pairs(c, d) # {} => full.points >= 6
      <4>1. CASE Pairs(c, d) # {}
        <5>1. full = IF four.points < 6 THEN set_score(6, d, OtherPair(d)) ELSE four
          BY <1>0, <4>1 DEF Improve
        <5> QED
          BY <1>0, <1>2, <3>1, <4>1, <5>1, ImproveFields
      <4>2. CASE Pairs(c, d) = {}
        <5>1. full = four
          BY <1>0, <4>2 DEF Improve
        <5> QED
          BY <1>2, <1>c, <4>2, <5>1
      <4> QED
        BY <4>1, <4>2
    <3>3. three = IF full.points < 3 THEN set_score(3, d, d) ELSE full
      BY <2>2 DEF ThreeOf, Improve
    <3> HIDE DEF full, three
    <3>4. Claim(c, set_score(3, d, d))
      BY <2>2 DEF Claim
    <3>5. Claim(c, three) /\ three.points >= full.points /\ three.points >= 3
      BY <3>2, <3>3, <3>4, ImproveFields
    <3>6. four.points \in 0..8 /\ full.points \in 0..8 /\ three.points \in 0..8
      BY <1>2, <3>2, <3>5, ClaimType
    <3> QED
      BY <3>2, <3>5, <3>6
  <2> QED
    BY <2>1, <2>2
<1>d. three.points \in 0..8
  BY <1>3, ClaimType
<1> HIDE DEF three
<1>4. /\ Claim(c, new) /\ new.points >= three.points
      /\ c[d] = 2 => new.points >= 1 /\ (Pairs(c, d) # {} => new.points >= 2)
      /\ c[d] # 2 => (Big(c) => new.points >= 5) /\ (Small(c) => new.points >= 4)
  <2>1. CASE c[d] # 2
    BY <1>3, <2>1, NoPairFields
  <2>2. CASE c[d] = 2
    <3> DEFINE two == Improve(three, OtherPairs(d) # {}, 2, d, OtherPair(d))
    <3>1. OtherPairs(d) # {} => Claim(c, set_score(2, d, OtherPair(d)))
      BY <1>0, <2>2 DEF Claim
    <3>2. /\ Claim(c, two) /\ two.points >= three.points
          /\ Pairs(c, d) # {} => two.points >= 2
      <4>1. CASE Pairs(c, d) # {}
        <5>1. two = IF three.points < 2 THEN set_score(2, d, OtherPair(d)) ELSE three
          BY <1>0, <4>1 DEF Improve
        <5> QED
          BY <1>0, <1>3, <3>1, <4>1, <5>1, ImproveFields
      <4>2. CASE Pairs(c, d) = {}
        <5>1. two = three
          BY <1>0, <4>2 DEF Improve
        <5> QED
          BY <1>3, <1>d, <4>2, <5>1
      <4> QED
        BY <4>1, <4>2
    <3>3. new = IF two.points < 1 THEN set_score(1, d, d) ELSE two
      BY <2>2 DEF PairOf, Improve
    <3> HIDE DEF two, new
    <3>4. Claim(c, set_score(1, d, d))
      BY <2>2 DEF Claim
    <3>5. Claim(c, new) /\ new.points >= two.points /\ new.points >= 1
      BY <3>2, <3>3, <3>4, ImproveFields
    <3>6. three.points \in 0..8 /\ two.points \in 0..8 /\ new.points \in 0..8
      BY <1>3, <3>2, <3>5, ClaimType
    <3> QED
      BY <2>2, <3>2, <3>5, <3>6
  <2> QED
    BY <2>1, <2>2
<1> HIDE DEF new
<1>5. c[d] = 2 => ~Big(c) /\ ~Small(c)
  <2>1. SUFFICES ASSUME c[d] = 2
                 PROVE  ~Big(c) /\ ~Small(c)
    OBVIOUS
  <2>2. CASE d \in 2..5
    BY <2>1, <2>2 DEF Big, Small
  <2>3. CASE d = 1
    BY <2>1, <2>3, CountsAddUp DEF Big, Small
  <2>4. CASE d = 6
    BY <2>1, <2>4, CountsAddUp DEF Big, Small
  <2> QED
    BY <1>0, <2>2, <2>3, <2>4
<1>6. old.points \in 0..8 /\ five.points \in 0..8 /\ four.points \in 0..8
        /\ three.points \in 0..8 /\ new.points \in 0..8
  BY <1>1, <1>2, <1>3, <1>4, ClaimType
<1>7. new.points >= old.points
  BY <1>1, <1>2, <1>3, <1>4, <1>6
<1>8. Passed(c, new, d)
  BY <1>1, <1>2, <1>3, <1>4, <1>5, <1>6 DEF Passed
<1>9. Claim(c, new) /\ new.points >= old.points /\ Passed(c, new, d)
  BY <1>4, <1>7, <1>8
<1> QED
  BY <1>9 DEF new, three, four, five

LEMMA LoopInvariance == Spec => []LoopInv
<1>1. ASSUME Init
      PROVE  LoopInv
  BY <1>1 DEF Init, LoopInv, Claim, Hand, Die, MAX_DIE_NUM
<1>2. ASSUME LoopInv, [Next]_vars
      PROVE  LoopInv'
  <2>1. CASE Face
    <3>1. i \in Die /\ i' = i + 1 /\ i' \in 1..(MAX_DIE_NUM + 1)
      BY <1>2, <2>1 DEF Face, LoopInv, Die, MAX_DIE_NUM
    <3>2. hand' = hand /\ counts' = counts
      BY <2>1 DEF Face, counts
    <3>3. /\ Claim(counts, best')
          /\ best'.points >= best.points
          /\ Passed(counts, best', i)
      BY <1>2, <2>1, <3>1, FaceFields DEF Face, LoopInv
    <3>4. best.points \in 0..8 /\ best'.points \in 0..8
      BY <1>2, <3>3, ClaimType DEF LoopInv
    <3>5. ASSUME NEW d \in Die, d < i'
          PROVE  Passed(counts, best', d)
      <4>1. CASE d = i
        BY <3>3, <4>1
      <4>2. CASE d < i
        BY <1>2, <3>3, <3>4, <4>2 DEF Passed, LoopInv
      <4> QED
        BY <3>1, <3>5, <4>1, <4>2 DEF Die, MAX_DIE_NUM
    <3> QED
      BY <1>2, <3>1, <3>2, <3>3, <3>5 DEF LoopInv
  <2>2. CASE Return \/ UNCHANGED vars
    <3>1. hand' = hand /\ i' = i /\ best' = best /\ counts' = counts
      BY <2>2 DEF Return, vars, counts
    <3> QED
      BY <1>2, <3>1 DEF LoopInv
  <2> QED
    BY <1>2, <2>1, <2>2 DEF Next
<1> QED
  BY <1>1, <1>2, PTL DEF Spec

\* evaluate_hand reads no die but the five and writes no score but those of the
\* combinations.
THEOREM HandTypeCorrect == Spec => []TypeOK
<1>1. LoopInv => TypeOK
  BY ClaimType DEF LoopInv, TypeOK, Hand
<1> QED
  BY <1>1, LoopInvariance, PTL

-----------------------------------------------------------------------------
(* What the hand is when all faces have been passed.                       *)

\* What the counts of five dice say of the faces: k of six numbers are not zero.
LEMMA Profile ==
  ASSUME NEW c \in [1..6 -> 0..5], c[1] + c[2] + c[3] + c[4] + c[5] + c[6] = 5,
         NEW N, N = One(c[1] > 0) + One(c[2] > 0) + One(c[3] > 0)
                      + One(c[4] > 0) + One(c[5] > 0) + One(c[6] > 0)
  PROVE  /\ (\E d \in 1..6 : c[d] = 5) => N = 1
         /\ (\E d \in 1..6 : c[d] = 4) => N = 2 /\ \A d \in 1..6 : c[d] < 5
         /\ (\E d, e \in 1..6 : d # e /\ c[d] = 3 /\ c[e] = 2)
              => N = 2 /\ \A d \in 1..6 : c[d] < 4
         /\ (\E d \in 1..6 : c[d] = 3 /\ \A e \in 1..6 : c[e] # 2)
              => N = 3 /\ \A d \in 1..6 : c[d] < 4
         /\ (\E d, e \in 1..6 : d # e /\ c[d] = 2 /\ c[e] = 2)
              => N = 3 /\ \A d \in 1..6 : c[d] < 3
         /\ (\E d \in 1..6 : c[d] = 2 /\ \A e \in 1..6 \ {d} : c[e] < 2)
              => N = 4 /\ \A e \in 1..6 : c[e] < 3
         /\ (\A d \in 1..6 : c[d] < 2) <=> N = 5
<1> DEFINE x1 == c[1]  x2 == c[2]  x3 == c[3]  x4 == c[4]  x5 == c[5]  x6 == c[6]
<1>1. /\ x1 \in 0..5 /\ x2 \in 0..5 /\ x3 \in 0..5 /\ x4 \in 0..5 /\ x5 \in 0..5 /\ x6 \in 0..5
      /\ x1 + x2 + x3 + x4 + x5 + x6 = 5
      /\ N = (IF x1 > 0 THEN 1 ELSE 0) + (IF x2 > 0 THEN 1 ELSE 0) + (IF x3 > 0 THEN 1 ELSE 0)
              + (IF x4 > 0 THEN 1 ELSE 0) + (IF x5 > 0 THEN 1 ELSE 0) + (IF x6 > 0 THEN 1 ELSE 0)
  BY DEF One
<1>2. \A P : (\E d \in 1..6 : d = P) <=> P = 1 \/ P = 2 \/ P = 3 \/ P = 4 \/ P = 5 \/ P = 6
  OBVIOUS
<1>3. \A n \in Nat : (\A d \in 1..6 : c[d] < n) <=>
        (x1 < n /\ x2 < n /\ x3 < n /\ x4 < n /\ x5 < n /\ x6 < n)
  BY <1>2
<1> HIDE DEF x1, x2, x3, x4, x5, x6
<1>4. \A d \in 1..6 : \/ (d = 1 /\ c[d] = x1) \/ (d = 2 /\ c[d] = x2)
                      \/ (d = 3 /\ c[d] = x3) \/ (d = 4 /\ c[d] = x4)
                      \/ (d = 5 /\ c[d] = x5) \/ (d = 6 /\ c[d] = x6)
  BY DEF x1, x2, x3, x4, x5, x6
<1>5. (\E d \in 1..6 : c[d] = 5) => N = 1
  BY <1>1, <1>4
<1>6. (\E d \in 1..6 : c[d] = 4) => N = 2 /\ \A d \in 1..6 : c[d] < 5
  BY <1>1, <1>3, <1>4
<1>7. (\E d, e \in 1..6 : d # e /\ c[d] = 3 /\ c[e] = 2)
        => N = 2 /\ \A d \in 1..6 : c[d] < 4
  BY <1>1, <1>3, <1>4
<1>8. (\E d \in 1..6 : c[d] = 3 /\ \A e \in 1..6 : c[e] # 2)
        => N = 3 /\ \A d \in 1..6 : c[d] < 4
  <2>1. (\A e \in 1..6 : c[e] # 2) => /\ x1 # 2 /\ x2 # 2 /\ x3 # 2
                                       /\ x4 # 2 /\ x5 # 2 /\ x6 # 2
    BY DEF x1, x2, x3, x4, x5, x6
  <2> QED
    BY <1>1, <1>3, <1>4, <2>1
<1>9. (\E d, e \in 1..6 : d # e /\ c[d] = 2 /\ c[e] = 2)
        => N = 3 /\ \A d \in 1..6 : c[d] < 3
  BY <1>1, <1>3, <1>4
<1>10. (\E d \in 1..6 : c[d] = 2 /\ \A e \in 1..6 \ {d} : c[e] < 2)
         => N = 4 /\ \A e \in 1..6 : c[e] < 3
  <2>1. ASSUME NEW d \in 1..6, c[d] = 2, \A e \in 1..6 \ {d} : c[e] < 2
        PROVE  /\ (d # 1 => x1 < 2) /\ (d # 2 => x2 < 2) /\ (d # 3 => x3 < 2)
               /\ (d # 4 => x4 < 2) /\ (d # 5 => x5 < 2) /\ (d # 6 => x6 < 2)
    BY <2>1 DEF x1, x2, x3, x4, x5, x6
  <2>2. ASSUME NEW d \in 1..6, c[d] = 2, \A e \in 1..6 \ {d} : c[e] < 2
        PROVE  /\ N = 4
               /\ x1 < 3 /\ x2 < 3 /\ x3 < 3 /\ x4 < 3 /\ x5 < 3 /\ x6 < 3
    <3>1. /\ (d # 1 => x1 < 2) /\ (d # 2 => x2 < 2) /\ (d # 3 => x3 < 2)
          /\ (d # 4 => x4 < 2) /\ (d # 5 => x5 < 2) /\ (d # 6 => x6 < 2)
      BY <2>1, <2>2
    <3>2. \/ (d = 1 /\ x1 = 2) \/ (d = 2 /\ x2 = 2) \/ (d = 3 /\ x3 = 2)
          \/ (d = 4 /\ x4 = 2) \/ (d = 5 /\ x5 = 2) \/ (d = 6 /\ x6 = 2)
      BY <1>4, <2>2
    <3> QED
      BY <1>1, <3>1, <3>2
  <2> QED
    BY <1>3, <2>2
<1>11. (\A d \in 1..6 : c[d] < 2) <=> N = 5
  BY <1>1, <1>3
<1> QED
  BY <1>5, <1>6, <1>7, <1>8, <1>9, <1>10, <1>11

\* The combination of README.md:13-25, in counts.
LEMMA CombinationOfCounts ==
  ASSUME hand \in Hand, NEW p \in 0..8,
         p = 8 => \E d \in 1..6 : counts[d] = 5,
         p = 7 => \E d \in 1..6 : counts[d] = 4,
         p = 6 => \E d, e \in 1..6 : d # e /\ counts[d] = 3 /\ counts[e] = 2,
         p = 5 => \A d \in 2..6 : counts[d] = 1,
         p = 4 => \A d \in 1..5 : counts[d] = 1,
         p = 3 => \E d \in 1..6 : counts[d] = 3 /\ \A e \in 1..6 : counts[e] # 2,
         p = 2 => \E d, e \in 1..6 : d # e /\ counts[d] = 2 /\ counts[e] = 2,
         p = 1 => \E d \in 1..6 : counts[d] = 2 /\ \A e \in 1..6 \ {d} : counts[e] < 2,
         p = 0 => /\ \A d \in 1..6 : counts[d] < 2
                  /\ \E d \in 2..6 : counts[d] # 1
                  /\ \E d \in 1..5 : counts[d] # 1
  PROVE  Combination = p
<1> DEFINE N == Cardinality(Faces)
<1>1. counts \in [1..6 -> 0..5]
  BY CountsAddUp DEF Die, MAX_DIE_NUM
<1>2. \A n \in 1..5 : HasGroup(n) <=> \E d \in 1..6 : counts[d] >= n
  BY FacesAreCounted
<1>3. \A n \in 1..5 : (\A d \in 1..6 : counts[d] < n) => ~HasGroup(n)
  BY <1>1, <1>2
<1>4. /\ Faces = 2..6 <=> \A d \in 2..6 : counts[d] = 1
      /\ Faces = 1..5 <=> \A d \in 1..5 : counts[d] = 1
  <2>1. /\ Faces \in SUBSET (1..6)
        /\ \A d \in 1..6 : d \in Faces <=> counts[d] > 0
    BY FacesAreCounted
  <2>2. counts[1] + counts[2] + counts[3] + counts[4] + counts[5] + counts[6] = 5
    BY CountsAddUp
  <2>3. /\ (counts[2] > 0 /\ counts[3] > 0 /\ counts[4] > 0 /\ counts[5] > 0 /\ counts[6] > 0)
             => /\ counts[1] = 0 /\ counts[2] = 1 /\ counts[3] = 1
                /\ counts[4] = 1 /\ counts[5] = 1 /\ counts[6] = 1
        /\ (counts[1] > 0 /\ counts[2] > 0 /\ counts[3] > 0 /\ counts[4] > 0 /\ counts[5] > 0)
             => /\ counts[1] = 1 /\ counts[2] = 1 /\ counts[3] = 1
                /\ counts[4] = 1 /\ counts[5] = 1 /\ counts[6] = 0
    BY <1>1, <2>2
  <2>4. /\ (\A d \in 2..6 : counts[d] = 1) => counts[1] = 0
        /\ (\A d \in 1..5 : counts[d] = 1) => counts[6] = 0
    BY <1>1, <2>2
  <2>5. Faces = 2..6 => \A d \in 2..6 : counts[d] = 1
    <3>1. Faces = 2..6 => /\ counts[2] > 0 /\ counts[3] > 0 /\ counts[4] > 0
                          /\ counts[5] > 0 /\ counts[6] > 0
      BY <2>1
    <3>2. \A d \in 2..6 : d = 2 \/ d = 3 \/ d = 4 \/ d = 5 \/ d = 6
      OBVIOUS
    <3> QED
      BY <2>3, <3>1, <3>2
  <2>6. Faces = 1..5 => \A d \in 1..5 : counts[d] = 1
    <3>1. Faces = 1..5 => /\ counts[1] > 0 /\ counts[2] > 0 /\ counts[3] > 0
                          /\ counts[4] > 0 /\ counts[5] > 0
      BY <2>1
    <3>2. \A d \in 1..5 : d = 1 \/ d = 2 \/ d = 3 \/ d = 4 \/ d = 5
      OBVIOUS
    <3> QED
      BY <2>3, <3>1, <3>2
  <2>7. ASSUME \A d \in 2..6 : counts[d] = 1
        PROVE  Faces = 2..6
    <3>1. \A d \in 1..6 : d \in Faces <=> d \in 2..6
      BY <1>1, <2>1, <2>4, <2>7
    <3>2. 2..6 \subseteq 1..6
      OBVIOUS
    <3> QED
      BY <2>1, <3>1, <3>2
  <2>8. ASSUME \A d \in 1..5 : counts[d] = 1
        PROVE  Faces = 1..5
    <3>1. \A d \in 1..6 : d \in Faces <=> d \in 1..5
      BY <1>1, <2>1, <2>4, <2>8
    <3>2. 1..5 \subseteq 1..6
      OBVIOUS
    <3> QED
      BY <2>1, <3>1, <3>2
  <2> QED
    BY <2>5, <2>6, <2>7, <2>8
<1>5. /\ (\E d \in 1..6 : counts[d] = 5) => N = 1
      /\ (\E d \in 1..6 : counts[d] = 4) => N = 2 /\ \A d \in 1..6 : counts[d] < 5
      /\ (\E d, e \in 1..6 : d # e /\ counts[d] = 3 /\ counts[e] = 2)
           => N = 2 /\ \A d \in 1..6 : counts[d] < 4
      /\ (\E d \in 1..6 : counts[d] = 3 /\ \A e \in 1..6 : counts[e] # 2)
           => N = 3 /\ \A d \in 1..6 : counts[d] < 4
      /\ (\E d, e \in 1..6 : d # e /\ counts[d] = 2 /\ counts[e] = 2)
           => N = 3 /\ \A d \in 1..6 : counts[d] < 3
      /\ (\E d \in 1..6 : counts[d] = 2 /\ \A e \in 1..6 \ {d} : counts[e] < 2)
           => N = 4 /\ \A e \in 1..6 : counts[e] < 3
      /\ (\A d \in 1..6 : counts[d] < 2) <=> N = 5
  BY <1>1, CountsAddUp, FacesAreCounted, Profile
<1> HIDE DEF N
<1>6. /\ Faces = 2..6 => N = 5 /\ ~(Faces = 1..5)
      /\ Faces = 1..5 => N = 5
  <2>1. 1 \in 1..5 /\ 1 \notin 2..6
    OBVIOUS
  <2>2. Faces = 2..6 => N = 5
    <3>1. Faces = 2..6 => ~ \E d \in 1..6 : counts[d] >= 2
      BY <1>1, <1>4, CountsAddUp
    <3> QED
      BY <1>1, <1>5, <3>1
  <2>3. Faces = 1..5 => N = 5
    <3>1. Faces = 1..5 => ~ \E d \in 1..6 : counts[d] >= 2
      BY <1>1, <1>4, CountsAddUp
    <3> QED
      BY <1>1, <1>5, <3>1
  <2> QED
    BY <2>1, <2>2, <2>3
<1>7. N = 5 => ~HasGroup(5) /\ ~HasGroup(4) /\ ~HasGroup(3)
  BY <1>1, <1>3, <1>5
<1>8. CASE p = 8
  <2>1. HasGroup(5) /\ N = 1
    BY <1>1, <1>2, <1>5, <1>8
  <2> QED
    BY <1>6, <1>8, <2>1 DEF Combination, N
<1>9. CASE p = 7
  <2>1. HasGroup(4) /\ ~HasGroup(5) /\ N = 2
    BY <1>1, <1>2, <1>3, <1>5, <1>9
  <2> QED
    BY <1>6, <1>9, <2>1 DEF Combination, N
<1>10. CASE p = 6
  <2>1. HasGroup(3) /\ ~HasGroup(4) /\ ~HasGroup(5) /\ N = 2
    BY <1>1, <1>2, <1>3, <1>5, <1>10
  <2> QED
    BY <1>6, <1>10, <2>1 DEF Combination, N
<1>11. CASE p = 5
  <2>1. Faces = 2..6
    BY <1>4, <1>11
  <2> QED
    BY <1>6, <1>7, <1>11, <2>1 DEF Combination, N
<1>12. CASE p = 4
  <2>1. Faces = 1..5
    BY <1>4, <1>12
  <2> QED
    BY <1>6, <1>7, <1>12, <2>1 DEF Combination, N
<1>13. CASE p = 3
  <2>1. HasGroup(3) /\ ~HasGroup(4) /\ ~HasGroup(5) /\ N = 3
    BY <1>1, <1>2, <1>3, <1>5, <1>13
  <2> QED
    BY <1>6, <1>13, <2>1 DEF Combination, N
<1>14. CASE p = 2
  <2>1. ~HasGroup(3) /\ ~HasGroup(4) /\ ~HasGroup(5) /\ N = 3
    BY <1>1, <1>2, <1>3, <1>5, <1>14
  <2> QED
    BY <1>6, <1>14, <2>1 DEF Combination, N
<1>15. CASE p = 1
  <2>1. ~HasGroup(3) /\ ~HasGroup(4) /\ ~HasGroup(5) /\ N = 4
    BY <1>1, <1>2, <1>3, <1>5, <1>15
  <2> QED
    BY <1>6, <1>15, <2>1 DEF Combination, N
<1>16. CASE p = 0
  <2>1. N = 5 /\ ~(Faces = 2..6) /\ ~(Faces = 1..5)
    BY <1>4, <1>5, <1>16
  <2> QED
    BY <1>7, <1>16, <2>1 DEF Combination, N
<1> QED
  BY <1>8, <1>9, <1>10, <1>11, <1>12, <1>13, <1>14, <1>15, <1>16

\* The hundreds of the score are the combination the rules of README.md:13-25 see
\* in the hand, whatever the five dice (Player.cpp evaluate_hand).
THEOREM ScoreRanksCombinationAlways == Spec => []ScoreRanksCombination
<1>1. ASSUME LoopInv, Done
      PROVE  best.score_num \div 100 = Combination
  <2> DEFINE p == best.points  c == counts
  <2>1. /\ Claim(c, best) /\ hand \in Hand
        /\ \A d \in 1..6 : Passed(c, best, d)
    BY <1>1 DEF LoopInv, Done, Die, MAX_DIE_NUM
  <2>2. p \in 0..8 /\ best.score_num \div 100 = p
    BY <2>1, ClaimType
  <2>3. c \in [1..6 -> 0..5]
    BY <2>1, CountsAddUp DEF Die, MAX_DIE_NUM
  <2>4. \A q \in 0..8 : \A x, y : best = set_score(q, x, y) => p = q
    BY ScoreFields
  <2>5. [points |-> 0, score_num |-> 0].points = 0
    OBVIOUS
  <2>6. /\ p = 8 => \E d \in 1..6 : c[d] = 5
        /\ p = 7 => \E d \in 1..6 : c[d] = 4
        /\ p = 6 => \E d, e \in 1..6 : d # e /\ c[d] = 3 /\ c[e] = 2
        /\ p = 5 => Big(c)
        /\ p = 4 => Small(c)
        /\ p = 3 => \E d \in 1..6 : c[d] = 3
        /\ p = 2 => \E d, e \in 1..6 : d # e /\ c[d] = 2 /\ c[e] = 2
        /\ p = 1 => \E d \in 1..6 : c[d] = 2
    <3> HIDE DEF c, p
    <3> QED
      BY <2>1, <2>2, <2>4, <2>5 DEF Claim, Pairs, Die, MAX_DIE_NUM
  <2>7. /\ \A d \in 1..6 : (c[d] = 5 => p >= 8) /\ (c[d] = 4 => p >= 7)
        /\ \A d \in 1..6 : (c[d] = 3 => p >= 3) /\ (c[d] = 2 => p >= 1)
        /\ \A d, e \in 1..6 : d # e /\ c[e] = 2 /\ c[d] = 3 => p >= 6
        /\ \A d, e \in 1..6 : d # e /\ c[e] = 2 /\ c[d] = 2 => p >= 2
    <3>1. \A d, e \in 1..6 : d # e /\ c[e] = 2 => e \in Pairs(c, d)
      BY DEF Pairs, Die, MAX_DIE_NUM
    <3> HIDE DEF c
    <3> QED
      BY <2>1, <3>1 DEF Passed
  <2>8. (Big(c) => p >= 5) /\ (Small(c) => p >= 4)
    BY <2>1, 1 \in 1..6 DEF Passed
  <2>a. \A d \in 1..6 : c[d] \in {0, 1, 2, 3, 4, 5}
    BY <2>3
  <2>b. p \in {0, 1, 2, 3, 4, 5, 6, 7, 8}
    BY <2>2
  <2> HIDE DEF c, p
  <2>9. p = 3 => \E d \in 1..6 : c[d] = 3 /\ \A e \in 1..6 : c[e] # 2
    <3>1. SUFFICES ASSUME p = 3
                   PROVE  \E d \in 1..6 : c[d] = 3 /\ \A e \in 1..6 : c[e] # 2
      OBVIOUS
    <3>2. PICK d \in 1..6 : c[d] = 3
      BY <2>6, <3>1
    <3>3. ASSUME NEW e \in 1..6, c[e] = 2
          PROVE  FALSE
      BY <2>7, <3>1, <3>2, <3>3
    <3> QED
      BY <3>2, <3>3
  <2>10. ASSUME p < 2, NEW d \in 1..6
         PROVE  c[d] \in {0, 1, 2}
    <3>1. p \in {0, 1}
      BY <2>b, <2>10
    <3>2. ~(p >= 8) /\ ~(p >= 7) /\ ~(p >= 3)
      BY <3>1
    <3> QED
      BY <2>7, <2>a, <3>2
  <2>11. p = 1 => \E d \in 1..6 : c[d] = 2 /\ \A e \in 1..6 \ {d} : c[e] < 2
    <3>1. SUFFICES ASSUME p = 1
                   PROVE  \E d \in 1..6 : c[d] = 2 /\ \A e \in 1..6 \ {d} : c[e] < 2
      OBVIOUS
    <3>2. PICK d \in 1..6 : c[d] = 2
      BY <2>6, <3>1
    <3>3. ASSUME NEW e \in 1..6 \ {d}
          PROVE  c[e] < 2
      <4>1. c[e] # 2
        BY <2>7, <3>1, <3>2
      <4>2. c[e] \in {0, 1, 2}
        BY <2>10, <3>1
      <4> QED
        BY <4>1, <4>2
    <3> QED
      BY <3>2, <3>3
  <2>12. p = 0 => /\ \A d \in 1..6 : c[d] < 2
                  /\ \E d \in 2..6 : c[d] # 1
                  /\ \E d \in 1..5 : c[d] # 1
    <3>1. SUFFICES ASSUME p = 0
                   PROVE  /\ \A d \in 1..6 : c[d] < 2
                          /\ \E d \in 2..6 : c[d] # 1
                          /\ \E d \in 1..5 : c[d] # 1
      OBVIOUS
    <3>2. ASSUME NEW d \in 1..6
          PROVE  c[d] < 2
      <4>1. c[d] # 2
        BY <2>7, <3>1
      <4>2. c[d] \in {0, 1, 2}
        BY <2>10, <3>1
      <4> QED
        BY <4>1, <4>2
    <3>3. ~Big(c) /\ ~Small(c)
      BY <2>8, <3>1
    <3> QED
      BY <3>2, <3>3 DEF Big, Small
  <2>13. /\ p = 5 => \A d \in 2..6 : c[d] = 1
         /\ p = 4 => \A d \in 1..5 : c[d] = 1
    BY <2>6 DEF Big, Small
  <2> QED
    BY <2>1, <2>2, <2>6, <2>9, <2>11, <2>12, <2>13, CombinationOfCounts DEF c, p
<1> QED
  BY <1>1, LoopInvariance, PTL DEF ScoreRanksCombination

\* The two digits of the score name the dice of the combination it claims: the
\* first fills its larger group and the second its other group.
THEOREM ScoreNamesItsDiceAlways == Spec => []ScoreNamesItsDice
<1>1. ASSUME LoopInv, best.points \notin {0, 4, 5}
      PROVE  LET size == Cardinality(Group(which_1))
                 rest == Cardinality(Group(which_2))
             IN  /\ best.points \in {1, 2, 3, 6, 7, 8}
                 /\ best.points = 8 => size = 5
                 /\ best.points = 7 => size = 4
                 /\ best.points = 6 => size = 3 /\ rest = 2
                 /\ best.points = 3 => size = 3
                 /\ best.points = 2 => size = 2 /\ rest = 2 /\ which_1 # which_2
                 /\ best.points = 1 => size = 2
  <2> DEFINE c == counts
  <2>1. Claim(c, best) /\ hand \in Hand
    BY <1>1 DEF LoopInv
  <2>2. \A d \in 1..6 : c[d] = Cardinality(Group(d))
    BY <2>1, CountsOfHand DEF Die, MAX_DIE_NUM
  <2>3. ASSUME NEW p \in 0..8, NEW d \in 1..6, NEW j \in 1..6, best = set_score(p, d, j)
        PROVE  best.points = p /\ which_1 = d /\ which_2 = j
    <3>1. best.points = p /\ best.score_num = 100 * p + d * 10 + j
      BY <2>3, ScoreFields
    <3>2. (100 * p + d * 10 + j) % 100 = d * 10 + j /\ (100 * p + d * 10 + j) % 10 = j
      OBVIOUS
    <3>3. (d * 10 + j) \div 10 = d
      OBVIOUS
    <3> QED
      BY <3>1, <3>2, <3>3 DEF which_1, which_2
  <2>4. best \notin {[points |-> 0, score_num |-> 0], set_score(0, 6, 6)}
    BY <1>1, ScoreFields
  <2>5. ~(Big(c) /\ best = set_score(5, 2, 6)) /\ ~(Small(c) /\ best = set_score(4, 1, 5))
    BY <1>1, ScoreFields
  <2> HIDE DEF c
  <2>6. PICK d \in 1..6 :
          \/ c[d] = 5 /\ best = set_score(8, d, d)
          \/ c[d] = 4 /\ best = set_score(7, d, d)
          \/ c[d] = 3 /\ best = set_score(3, d, d)
          \/ c[d] = 2 /\ best = set_score(1, d, d)
          \/ \E j \in 1..6 \ {d} :
               /\ c[j] = 2
               /\ \/ c[d] = 3 /\ best = set_score(6, d, j)
                  \/ c[d] = 2 /\ best = set_score(2, d, j)
    BY <2>1, <2>4, <2>5 DEF Claim, Pairs, Die, MAX_DIE_NUM
  <2>7. CASE c[d] = 5 /\ best = set_score(8, d, d)
    BY <2>2, <2>3, <2>7
  <2>8. CASE c[d] = 4 /\ best = set_score(7, d, d)
    BY <2>2, <2>3, <2>8
  <2>9. CASE c[d] = 3 /\ best = set_score(3, d, d)
    BY <2>2, <2>3, <2>9
  <2>10. CASE c[d] = 2 /\ best = set_score(1, d, d)
    BY <2>2, <2>3, <2>10
  <2>11. ASSUME NEW j \in 1..6 \ {d}, c[j] = 2, c[d] = 3, best = set_score(6, d, j)
         PROVE  /\ best.points = 6
                /\ Cardinality(Group(which_1)) = 3 /\ Cardinality(Group(which_2)) = 2
    BY <2>2, <2>3, <2>11
  <2>12. ASSUME NEW j \in 1..6 \ {d}, c[j] = 2, c[d] = 2, best = set_score(2, d, j)
         PROVE  /\ best.points = 2 /\ which_1 # which_2
                /\ Cardinality(Group(which_1)) = 2 /\ Cardinality(Group(which_2)) = 2
    BY <2>2, <2>3, <2>12
  <2> QED
    BY <2>6, <2>7, <2>8, <2>9, <2>10, <2>11, <2>12
<1>2. ASSUME LoopInv
      PROVE  ScoreNamesItsDice
  BY <1>1, <1>2 DEF ScoreNamesItsDice
<1> QED
  BY <1>2, LoopInvariance, PTL
=============================================================================
