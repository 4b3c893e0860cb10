----------------------------- MODULE MatchProofs -----------------------------
(***************************************************************************)
(* What follows from the promise of module Match, for any number of        *)
(* matches and any BEST_OF.  SeatTheorems shows that the server implements *)
(* Match, so this is what its players may conclude from it.                *)
(***************************************************************************)
EXTENDS Match, TLAPS

\* Nobody who has a seat in a full match is left without a round: it is over
\* exactly when neither player may roll (reroll_hand, end_round, start_round).
RoundIsOpen ==
  \A g \in GameIds : Playing(g) =>
    (match[g].round_over <=> \A s \in Side : ~match[g].may_roll[s])

\* A full match is finished exactly when somebody has won BEST_OF rounds, and
\* nobody ever has more (end_round, and the seats that leave_game, the kick and
\* the timeout empty).
BestOfDecides ==
  \A g \in GameIds :
    /\ \A s \in Side : match[g].points[s] <= BEST_OF
    /\ Full(match[g]) => (match[g].stage = "finished"
                            <=> \E s \in Side : match[g].points[s] = BEST_OF)

\* The inductive invariant, of one match: a match that waits has one seat, one
\* that is finished no round.
Sound(m) ==
  /\ m \in Matches
  /\ \A s \in Side : m.points[s] <= BEST_OF
  /\ m.stage \in {"none", "waiting"} => ~m.taken[2]
  /\ m.stage = "playing" /\ Full(m) =>
       /\ m.round_over <=> \A s \in Side : ~m.may_roll[s]
       /\ \A s \in Side : m.points[s] < BEST_OF
  /\ m.stage = "finished" /\ Full(m) => \E s \in Side : m.points[s] = BEST_OF

Inv == match \in [GameIds -> Matches] /\ \A g \in GameIds : Sound(match[g])

-----------------------------------------------------------------------------

LEMMA SideTwo == Side = {1, 2} /\ \A s \in Side : Other(s) \in Side /\ Other(s) # s
BY DEF Side, Other

LEMMA SoundNoMatch == ASSUME BEST_OF \in Nat \ {0} PROVE Sound(NoMatch)
<1>1. NoMatch \in Matches
  BY DEF NoMatch, Matches, Nobody, NoPoints
<1>2. /\ NoMatch.stage = "none" /\ NoMatch.taken[2] = FALSE
      /\ \A s \in Side : NoMatch.points[s] = 0
  BY DEF NoMatch, Nobody, NoPoints, Side
<1> QED
  BY <1>1, <1>2 DEF Sound

LEMMA SoundLobby == ASSUME BEST_OF \in Nat \ {0} PROVE Sound(Lobby)
<1>1. Lobby \in Matches
  BY DEF Lobby, NoMatch, Matches, Nobody, NoPoints
<1>2. /\ Lobby.stage = "waiting" /\ Lobby.taken[2] = FALSE
      /\ \A s \in Side : Lobby.points[s] = 0
  BY DEF Lobby, NoMatch, Nobody, NoPoints, Side
<1> QED
  BY <1>1, <1>2 DEF Sound

LEMMA SoundFirstRound == ASSUME BEST_OF \in Nat \ {0} PROVE Sound(FirstRound)
<1>1. FirstRound \in Matches
  BY DEF FirstRound, Matches, NoPoints
<1>2. /\ FirstRound.stage = "playing" /\ FirstRound.round_over = FALSE
      /\ \A s \in Side : FirstRound.points[s] = 0 /\ FirstRound.may_roll[s] = TRUE
  BY DEF FirstRound, NoPoints, Side
<1> QED
  BY <1>1, <1>2, SideTwo DEF Sound

\* A step that changes one match to a sound one keeps the invariant.
LEMMA BecomesSound ==
  ASSUME Inv, NEW g \in GameIds, NEW m, Sound(m), Becomes(g, m)
  PROVE  Inv'
BY DEF Inv, Becomes, Sound

LEMMA RollSound ==
  ASSUME BEST_OF \in Nat \ {0}, Inv, NEW g \in GameIds, NEW s \in Side, Roll(g, s)
  PROVE  Inv'
<1> DEFINE n == match[g]
           m == [n EXCEPT !.may_roll[s] = FALSE]
<1>1. /\ n \in Matches /\ Sound(n) /\ n.stage = "playing" /\ Full(n)
      /\ n.may_roll[Other(s)] /\ Becomes(g, m)
  BY DEF Roll, MayRoll, Playing, Inv
<1>2. /\ m \in Matches /\ m.stage = "playing" /\ m.points = n.points
      /\ m.round_over = n.round_over /\ m.may_roll[Other(s)] = n.may_roll[Other(s)]
  BY <1>1, SideTwo DEF Matches
<1>3. Sound(m)
  BY <1>1, <1>2, SideTwo DEF Sound
<1> QED
  BY <1>1, <1>3, BecomesSound

LEMMA LastRollSound ==
  ASSUME BEST_OF \in Nat \ {0}, Inv, NEW g \in GameIds, NEW s \in Side, LastRoll(g, s)
  PROVE  Inv'
<1> DEFINE n == match[g]
<1>1. n \in Matches /\ Sound(n) /\ n.stage = "playing" /\ Full(n)
  BY DEF LastRoll, MayRoll, Playing, Inv
<1>2. PICK winners \in (SUBSET Side) \ {{}} :
        LET points == [t \in Side |-> IF t \in winners THEN n.points[t] + 1
                                                       ELSE n.points[t]]
            won    == \E t \in Side : points[t] = BEST_OF
        IN  Becomes(g, [n EXCEPT !.may_roll = Nobody, !.points = points,
                          !.stage = IF won THEN "finished" ELSE @,
                          !.round_over = ~won])
  BY DEF LastRoll
<1> DEFINE points == [t \in Side |-> IF t \in winners THEN n.points[t] + 1 ELSE n.points[t]]
           won == \E t \in Side : points[t] = BEST_OF
           stage == IF won THEN "finished" ELSE n.stage
           m == [n EXCEPT !.may_roll = Nobody, !.points = points, !.stage = stage,
                          !.round_over = ~won]
<1>3. Becomes(g, m)
  BY <1>2
<1>4. /\ points \in [Side -> Nat]
      /\ \A t \in Side : points[t] <= BEST_OF
  BY <1>1 DEF Matches, Sound
<1>5. won \in BOOLEAN /\ stage = IF won THEN "finished" ELSE "playing"
  BY <1>1
<1>6. won <=> \E t \in Side : points[t] = BEST_OF
  OBVIOUS
<1> HIDE DEF points, won, stage
<1>7. /\ m \in Matches /\ m.points = points /\ m.stage = stage
      /\ m.round_over = ~won /\ \A t \in Side : m.may_roll[t] = FALSE
  BY <1>1, <1>4, <1>5 DEF Matches, Nobody
<1> HIDE DEF m
<1>8. Sound(m)
  BY <1>4, <1>5, <1>6, <1>7 DEF Sound, Matches
<1> QED
  BY <1>3, <1>8, BecomesSound

LEMMA NextRoundSound ==
  ASSUME BEST_OF \in Nat \ {0}, Inv, NEW g \in GameIds, NextRound(g)
  PROVE  Inv'
<1> DEFINE n == match[g]
           m == [n EXCEPT !.may_roll = [s \in Side |-> TRUE], !.round_over = FALSE]
<1>1. n \in Matches /\ Sound(n) /\ n.stage = "playing" /\ Full(n) /\ Becomes(g, m)
  BY DEF NextRound, Playing, Inv
<1>2. /\ m \in Matches /\ m.stage = "playing" /\ m.points = n.points
      /\ m.round_over = FALSE /\ \A s \in Side : m.may_roll[s] = TRUE
  BY <1>1 DEF Matches
<1>3. Sound(m)
  BY <1>1, <1>2, SideTwo DEF Sound
<1> QED
  BY <1>1, <1>3, BecomesSound

LEMMA VacateSound ==
  ASSUME BEST_OF \in Nat \ {0}, Inv, NEW g \in GameIds, NEW s \in Side, Vacate(g, s)
  PROVE  Inv'
<1> DEFINE n == match[g]
<1>1. n \in Matches /\ Sound(n) /\ n.taken[s]
  BY DEF Vacate, Inv
<1>2. PICK stage \in {n.stage, "finished"} :
        Becomes(g, [n EXCEPT
                      !.stage = stage, !.taken[s] = FALSE, !.points[s] = 0,
                      !.may_roll = [t \in Side |-> @[t] /\ t # s /\ stage = "playing"],
                      !.round_over = @ /\ stage = "playing"])
  BY DEF Vacate
<1> DEFINE rolls == [t \in Side |-> n.may_roll[t] /\ t # s /\ stage = "playing"]
           over == n.round_over /\ stage = "playing"
           m == [n EXCEPT !.stage = stage, !.taken[s] = FALSE, !.points[s] = 0,
                          !.may_roll = rolls, !.round_over = over]
<1>3. Becomes(g, m)
  BY <1>2
<1>4. rolls \in [Side -> BOOLEAN] /\ over \in BOOLEAN
  BY <1>1 DEF Matches
<1> HIDE DEF rolls, over
<1>5. /\ m \in Matches /\ m.stage = stage /\ m.taken[s] = FALSE
      /\ \A t \in Side : m.points[t] \in {n.points[t], 0}
      /\ \A t \in Side : m.taken[t] => n.taken[t]
  BY <1>1, <1>4 DEF Matches
<1> HIDE DEF m
<1>6. ~Full(m) /\ \A t \in Side : m.points[t] <= BEST_OF
  BY <1>1, <1>5 DEF Full, Sound, Matches
<1>7. m.stage \in {"none", "waiting"} => ~m.taken[2]
  BY <1>1, <1>5, SideTwo DEF Sound
<1>8. Sound(m)
  BY <1>5, <1>6, <1>7 DEF Sound
<1> QED
  BY <1>3, <1>8, BecomesSound

LEMMA DeleteSound ==
  ASSUME BEST_OF \in Nat \ {0}, Inv, Delete \/ Shutdown
  PROVE  Inv'
<1>1. \A g \in GameIds : match'[g] \in {match[g], NoMatch}
  BY DEF Delete, Shutdown
<1>2. match' = [g \in GameIds |-> match'[g]]
  BY DEF Delete, Shutdown
<1>3. \A g \in GameIds : Sound(match'[g])
  BY <1>1, SoundNoMatch DEF Inv
<1> QED
  BY <1>2, <1>3 DEF Inv, Sound

LEMMA MatchInvariance ==
  ASSUME BEST_OF \in Nat \ {0}
  PROVE  Spec => []Inv
<1>1. Init => Inv
  BY SoundNoMatch DEF Init, Inv, Sound
<1>2. Inv /\ [Next]_match => Inv'
  <2> SUFFICES ASSUME Inv, [Next]_match PROVE Inv'
    OBVIOUS
  <2>1. ASSUME NEW g \in GameIds, Open(g) PROVE Inv'
    BY <2>1, SoundLobby, BecomesSound DEF Open
  <2>2. ASSUME NEW g \in GameIds, Join(g) PROVE Inv'
    BY <2>2, SoundFirstRound, BecomesSound DEF Join
  <2>3. ASSUME UNCHANGED match PROVE Inv'
    BY <2>3 DEF Inv
  <2> QED
    BY <2>1, <2>2, <2>3, RollSound, LastRollSound, NextRoundSound, VacateSound,
       DeleteSound DEF Next
<1> QED
  BY <1>1, <1>2, PTL DEF Spec

\* In every match with two players, a round is open or over: nobody waits for a
\* roll that no one may make.
THEOREM FullMatchHasARound ==
  ASSUME BEST_OF \in Nat \ {0}
  PROVE  Spec => []RoundIsOpen
<1>1. Inv => RoundIsOpen
  BY DEF Inv, Sound, RoundIsOpen, Playing
<1> QED
  BY <1>1, MatchInvariance, PTL

\* A match between two players ends with the BEST_OF-th point and with no other,
\* and no points are given after it.
THEOREM MatchEndsWithBestOf ==
  ASSUME BEST_OF \in Nat \ {0}
  PROVE  Spec => []BestOfDecides
<1>1. Inv => BestOfDecides
  <2> SUFFICES ASSUME Inv, NEW g \in GameIds
               PROVE  /\ \A s \in Side : match[g].points[s] <= BEST_OF
                      /\ Full(match[g]) =>
                           (match[g].stage = "finished"
                              <=> \E s \in Side : match[g].points[s] = BEST_OF)
    BY DEF BestOfDecides
  <2>1. Sound(match[g]) /\ match[g] \in Matches
    BY DEF Inv
  <2>2. Full(match[g]) => match[g].stage \in {"playing", "finished"}
    BY <2>1, SideTwo DEF Sound, Full, Matches
  <2>3. \A s \in Side : match[g].points[s] \in Nat
    BY <2>1 DEF Matches
  <2> QED
    BY <2>1, <2>2, <2>3 DEF Sound
<1> QED
  BY <1>1, MatchInvariance, PTL
=============================================================================
