------------------------------ MODULE DiceHand ------------------------------
(***************************************************************************)
(* Player::evaluate_hand (server/game/Player.cpp): the score of a hand of  *)
(* five dice, computed by one loop over the six faces.  One step of this   *)
(* module is one turn of that loop; the scores it leaves behind are the    *)
(* numbers Game::end_round compares to decide who wins a round.            *)
(***************************************************************************)
EXTENDS Integers, FiniteSets

MAX_DIE_NUM == 6
NUMBER_OF_DICE == 5
Die == 1..MAX_DIE_NUM

VARIABLES
  hand,        \* the five dice, in the order they were rolled
  i,           \* the face the loop looks at next
  best         \* the best combination found so far and its score

vars == <<hand, i, best>>

counts == [d \in Die |-> Cardinality({k \in 1..NUMBER_OF_DICE : hand[k] = d})]

\* Slips for the mutant runs: a wrong power of ten, swapped dice.
set_score_shifted(comb, which_1, which_2) ==
  [points |-> comb, score_num |-> 100 * comb + which_1 * 100 + which_2]

set_score_swapped(comb, which_1, which_2) ==
  [points |-> comb, score_num |-> 100 * comb + which_2 * 10 + which_1]

set_score(comb, which_1, which_2) ==
  [points |-> comb, score_num |-> 100 * comb + which_1 * 10 + which_2]

\* Slip: a lower combination met later replaces a higher one.
Improve_always(old, found, comb, which_1, which_2) ==
  IF found THEN set_score(comb, which_1, which_2) ELSE old

\* "if (found && points < comb) set_score(...)": only a lower one is replaced.
Improve(old, found, comb, which_1, which_2) ==
  IF found /\ old.points < comb THEN set_score(comb, which_1, which_2) ELSE old

\* The inner loops over j: another face that appears twice.  Five dice leave
\* room for at most one.
OtherPairs(d) == {j \in Die \ {d} : counts[j] = 2}
OtherPair(d)  == CHOOSE j \in OtherPairs(d) : TRUE

SmallStraight == \A d \in 1..5 : counts[d] = 1
BigStraight   == \A d \in 2..6 : counts[d] = 1

\* The three branches a face can take after the test for five and four.
ThreeOf(old, d) ==
  LET full == Improve(old, OtherPairs(d) # {}, 6, d, OtherPair(d))
  IN  Improve(full, TRUE, 3, d, d)

PairOf(old, d) ==
  LET two == Improve(old, OtherPairs(d) # {}, 2, d, OtherPair(d))
  IN  Improve(two, TRUE, 1, d, d)

\* The branches are tried in this order.
NoPairOf(old) ==
  IF SmallStraight /\ old.points < 4 THEN set_score(4, 1, 5)
  ELSE IF BigStraight /\ old.points < 5 THEN set_score(5, 2, 6)
  ELSE IF old.points = 0 THEN set_score(0, 6, 6)
  ELSE old

-----------------------------------------------------------------------------
(* The hand is whatever randomize_hand and reroll_hand rolled.             *)

Init ==
  /\ hand \in [1..NUMBER_OF_DICE -> Die]
  /\ i = 1
  /\ best = [points |-> 0, score_num |-> 0]

\* One turn of the loop over the faces.
Face ==
  /\ i <= MAX_DIE_NUM
  /\ LET five  == Improve(best, counts[i] = 5, 8, i, i)
         four  == Improve(five, counts[i] = 4, 7, i, i)
         three == IF counts[i] = 3 THEN ThreeOf(four, i) ELSE four
     IN  best' = IF counts[i] = 2 THEN PairOf(three, i) ELSE NoPairOf(three)
  /\ i' = i + 1
  /\ UNCHANGED hand

\* The loop has ended: score_num is returned.
Return ==
  /\ i > MAX_DIE_NUM
  /\ UNCHANGED vars

Next == Face \/ Return

Spec == Init /\ [][Next]_vars

-----------------------------------------------------------------------------
(* What the combinations mean, from README.md:13-25, ranked as there and   *)
(* stated on the dice, not on the counts: sizes of the groups of equal     *)
(* dice, and the faces shown.                                              *)

Faces == {hand[k] : k \in 1..NUMBER_OF_DICE}
Group(d) == {k \in 1..NUMBER_OF_DICE : hand[k] = d}
HasGroup(n) == \E d \in Faces : Cardinality(Group(d)) >= n

Combination ==
  CASE HasGroup(5)                              -> 8
    [] HasGroup(4) /\ ~HasGroup(5)              -> 7
    [] HasGroup(3) /\ Cardinality(Faces) = 2
                   /\ ~HasGroup(4)              -> 6
    [] Faces = 2..6                             -> 5
    [] Faces = 1..5                             -> 4
    [] HasGroup(3) /\ Cardinality(Faces) = 3    -> 3
    [] ~HasGroup(3) /\ Cardinality(Faces) = 3   -> 2
    [] Cardinality(Faces) = 4                   -> 1
    [] Cardinality(Faces) = 5 /\ Faces # 1..5
                   /\ Faces # 2..6              -> 0

Done == i > MAX_DIE_NUM
which_1 == (best.score_num % 100) \div 10
which_2 == best.score_num % 10

TypeOK ==
  /\ hand \in [1..NUMBER_OF_DICE -> Die]
  /\ i \in 1..(MAX_DIE_NUM + 1)
  /\ best \in [points : 0..8, score_num : 0..866]

\* However the dice fell and in whatever order the loop met the faces, the
\* hundreds of the score are the best combination the rules of README.md see
\* in the hand: a hand of a higher combination always wins the round
\* (Player.cpp evaluate_hand, Game.cpp end_round).
ScoreRanksCombination == Done => best.score_num \div 100 = Combination

\* The other two digits name the dice of the combination the hundreds claim:
\* the first one fills its larger group and the second one its other group,
\* so that equal combinations are compared by dice the hand really shows.
ScoreNamesItsDice ==
  (Done /\ best.points \notin {0, 4, 5}) =>
    LET size == Cardinality(Group(which_1))
        rest == Cardinality(Group(which_2))
    IN  CASE best.points = 8 -> size = 5
          [] best.points = 7 -> size = 4
          [] best.points = 6 -> size = 3 /\ rest = 2
          [] best.points = 3 -> size = 3
          [] best.points = 2 -> size = 2 /\ rest = 2 /\ which_1 # which_2
          [] best.points = 1 -> size = 2

\* The hands whose score the comment of evaluate_hand gives
\* (server/game/Player.h:86-88): 55111 scores 651, 23456 scores 562, and fours
\* and threes score 243.
DocumentedScores ==
  Done => /\ (Combination = 6 /\ Faces = {1, 5} /\ Cardinality(Group(1)) = 3)
               => best.score_num = 651
          /\ (Faces = 2..6) => best.score_num = 562
          /\ (Combination = 2 /\ Cardinality(Group(4)) = 2 /\ Cardinality(Group(3)) = 2)
               => best.score_num = 243
=============================================================================
