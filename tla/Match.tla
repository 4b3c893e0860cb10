-------------------------------- MODULE Match --------------------------------
(***************************************************************************)
(* What the server promises the players of its games, and nothing of how   *)
(* it keeps the promise: no connections, no nicknames, no turns of a loop. *)
(* A seat stays taken while its player is away, so dropping a connection   *)
(* and coming back is no step of a match at all; a command is a step of    *)
(* one match and leaves every other alone.                                 *)
(*                                                                         *)
(* ServerProperties!MatchView says what of the server's memory a match is, *)
(* and ServerProperties!ImplementsMatch that the server keeps the promise. *)
(***************************************************************************)
EXTENDS Integers

CONSTANTS
  GameIds,     \* the matches there may be at one time
  BEST_OF      \* winning points

VARIABLE match \* the match of every game id

Side == {1, 2}

Other(s) == 3 - s

Nobody == [s \in Side |-> FALSE]
NoPoints == [s \in Side |-> 0]

(***************************************************************************)
(* stage is none as long as there is no such game.  may_roll, points and   *)
(* round_over say where the round is.                                      *)
(***************************************************************************)
Matches ==
  [stage : {"none", "waiting", "playing", "finished"},
   taken : [Side -> BOOLEAN], may_roll : [Side -> BOOLEAN],
   points : [Side -> Nat], round_over : BOOLEAN]

NoMatch == [stage |-> "none", taken |-> Nobody, may_roll |-> Nobody,
            points |-> NoPoints, round_over |-> FALSE]

Lobby == [NoMatch EXCEPT !.stage = "waiting", !.taken[1] = TRUE]

FirstRound == [stage |-> "playing", taken |-> [s \in Side |-> TRUE],
               may_roll |-> [s \in Side |-> TRUE], points |-> NoPoints,
               round_over |-> FALSE]

TypeOK == match \in [GameIds -> Matches]

Init == match = [g \in GameIds |-> NoMatch]

-----------------------------------------------------------------------------

Becomes(g, m) == match' = [match EXCEPT ![g] = m]

Full(m) == \A s \in Side : m.taken[s]

Playing(g) == match[g].stage = "playing" /\ Full(match[g])

\* CREATE_GAME
Open(g) == match[g].stage = "none" /\ Becomes(g, Lobby)

\* JOIN_GAME: the first round begins at once.
Join(g) ==
  /\ match[g].stage = "waiting" /\ match[g].taken[1]
  /\ Becomes(g, FirstRound)

MayRoll(g, s) == Playing(g) /\ match[g].may_roll[s]

\* REROLL while the opponent has yet to roll.
Roll(g, s) ==
  /\ MayRoll(g, s) /\ match[g].may_roll[Other(s)]
  /\ Becomes(g, [match[g] EXCEPT !.may_roll[s] = FALSE])

\* The second REROLL of a round gives a point to the winners, both in a draw,
\* and ends the round or the match.
LastRoll(g, s) ==
  /\ MayRoll(g, s) /\ ~match[g].may_roll[Other(s)]
  /\ \E winners \in (SUBSET Side) \ {{}} :
       LET points == [t \in Side |-> IF t \in winners THEN match[g].points[t] + 1
                                                      ELSE match[g].points[t]]
           won    == \E t \in Side : points[t] = BEST_OF
       IN  Becomes(g, [match[g] EXCEPT !.may_roll = Nobody, !.points = points,
                         !.stage = IF won THEN "finished" ELSE @,
                         !.round_over = ~won])

\* Both players have accepted the end of the round.
NextRound(g) ==
  /\ Playing(g) /\ match[g].round_over
  /\ Becomes(g, [match[g] EXCEPT !.may_roll = [s \in Side |-> TRUE],
                                 !.round_over = FALSE])

\* A player leaves, logs out, is thrown out or times out: the match may be over
\* with that, and his seat is lost for good.
Vacate(g, s) ==
  /\ match[g].taken[s]
  /\ \E stage \in {match[g].stage, "finished"} :
       Becomes(g, [match[g] EXCEPT
                     !.stage = stage, !.taken[s] = FALSE, !.points[s] = 0,
                     !.may_roll = [t \in Side |-> @[t] /\ t # s /\ stage = "playing"],
                     !.round_over = @ /\ stage = "playing"])

\* Matches that nobody is in are deleted.
Delete ==
  \E gone \in SUBSET {g \in GameIds : match[g].taken = Nobody} :
    match' = [g \in GameIds |-> IF g \in gone THEN NoMatch ELSE match[g]]

\* The server ends, and every match with it.
Shutdown == match' = [g \in GameIds |-> NoMatch]

Next ==
  \/ \E g \in GameIds :
       \/ Open(g) \/ Join(g) \/ NextRound(g)
       \/ \E s \in Side : Roll(g, s) \/ LastRoll(g, s) \/ Vacate(g, s)
  \/ Delete
  \/ Shutdown

Spec == Init /\ [][Next]_match
=============================================================================
