-------------------------- MODULE ServerProperties --------------------------
(***************************************************************************)
(* What the server of module Server promises its players.                  *)
(***************************************************************************)
EXTENDS Server

player == srv.player
game   == srv.game

Seats(g) == {game[g].player1, game[g].player2} \ {nullptr}
Full(g)  == nullptr \notin {game[g].player1, game[g].player2}

-----------------------------------------------------------------------------
(* Connections and names.                                                  *)

\* A descriptor has one owner, and nobody whose connection is served is in
\* state DISCONNECTED: get_player_by_fd, which every handler starts from,
\* finds the player who sent the command (accept, close and FD_CLR against the
\* vector players, through kicks, drops and descriptors used again).
OneOwnerPerSocket ==
  \A p \in srv.players :
    /\ player[p].state # "DISCONNECTED"
    /\ \A q \in srv.players : player[p].socket = player[q].socket => p = q

\* No two players the server knows, connected or dropped, share a nickname, so
\* that RECONNECT|name means one session (login, reconnect, is_name_taken).
UniqueNames ==
  \A p, q \in Known(srv) :
    player[p].name = player[q].name /\ player[p].name # NoName => p = q

-----------------------------------------------------------------------------
(* Seats.                                                                  *)

\* The two-way link between games and players survives every way of leaving:
\* who holds a seat is connected or may come back, points to that game, and
\* holds one seat of it (join_game, leave_game, disconnect_player, reconnect,
\* timeout).
SeatsAgree ==
  \A g \in srv.games :
    /\ \A p \in Seats(g) : p \in Known(srv) /\ player[p].game = g
    /\ Full(g) => game[g].player1 # game[g].player2

\* A connected player's state says where he sits, and every handler trusts it:
\* in the menu he holds no seat, in the lobby he hosts a game that still waits,
\* in a game he holds a seat of one that has started (Player.state).
StateTellsSeat ==
  \A p \in srv.players :
    LET mine == {g \in srv.games : p \in Seats(g)} IN
    CASE player[p].state = "IN_MAIN_MENU" -> mine = {}
      [] player[p].state = "IN_LOBBY" ->
           mine # {} /\ \A g \in mine : /\ game[g].state = "WAITING_FOR_PLAYERS"
                                        /\ game[g].player1 = p
      [] player[p].state = "IN_GAME" ->
           mine # {} /\ \A g \in mine : game[g].state # "WAITING_FOR_PLAYERS"
      [] OTHER -> FALSE

\* Between two turns of the loop every open lobby has a host and no second
\* player: what LIST_GAMES shows can be joined (leave_game clears the seat, the
\* sweep deletes the game).
LobbyHasHost ==
  phase = "select" =>
    \A g \in srv.games :
      game[g].state = "WAITING_FOR_PLAYERS" =>
        game[g].player1 # nullptr /\ game[g].player2 = nullptr

-----------------------------------------------------------------------------
(* Rounds and points.                                                      *)

\* While both seats of a running game are taken, a round is either being played
\* by somebody who may still roll or is over, never neither: neither a dropped
\* connection nor a RECONNECT loses a player's turn (reroll_hand, end_round,
\* start_round, and can_play in reconnect).
RoundIsPlayedOrOver ==
  \A g \in srv.games :
    game[g].state = "PLAYING" /\ Full(g) =>
      (game[g].is_end_round <=> \A p \in Seats(g) : ~player[p].can_play)

\* While both seats are taken, a game is finished exactly when somebody has
\* the winning points (end_round, and score in reconnect and join_game).
PointsDecide ==
  \A g \in srv.games :
    Full(g) => (game[g].state = "FINISHED"
                  <=> \E p \in Seats(g) : player[p].score >= BEST_OF)

\* No step tells two players that they have won, and a verdict is sent to a
\* player of a finished game only, as long as nobody who has dropped is taken for
\* connected: the descriptor of a host whose lobby was joined while he was away
\* may belong to somebody else by now (game_over, called by leave_game, by the
\* sweep and by the timeout on player->socket).
VerdictsAreFinal ==
  \A m \in srv.sent :
    m.notice \in {"WIN", "LOSS", "DRAW"} =>
      /\ (\A o \in Dropped(srv) : player[o].state = "DISCONNECTED") =>
           /\ player[m.to].game \in GameIds
           /\ game[player[m.to].game].state = "FINISHED"
      /\ \A n \in srv.sent : m.notice = "WIN" /\ n.notice = "WIN" => n = m

-----------------------------------------------------------------------------
(* Steps.                                                                  *)

Kept == srv.games \cap srv'.games

SeatHolders(g) ==
  {<<game[g].player1, game'[g].player1>>, <<game[g].player2, game'[g].player2>>}

\* Who held a seat of g before the step and who holds it after: the same
\* player, or the connection that took his session over.
Held(g) == {h \in SeatHolders(g) : nullptr \notin {h[1], h[2]}}

\* A seat gets its roll back only by a new round, which starts when the game
\* does or when the last round is over: dropping the connection and coming back
\* never gives a second roll (reconnect copies can_play, start_round).
OneRollPerRound ==
  [][\A g \in Kept : \A h \in Held(g) :
       ~player[h[1]].can_play /\ player'[h[2]].can_play =>
         /\ game'[g].is_new_round
         /\ game[g].state = "WAITING_FOR_PLAYERS" \/ game[g].is_end_round]_vars

\* The points of a seat of a match are won one at a time, by the end of a round
\* and by nothing else; they follow the player through RECONNECT (end_round,
\* and score in reconnect).
PointsAreWonInRounds ==
  [][\A g \in Kept : \A h \in Held(g) :
       game[g].state # "WAITING_FOR_PLAYERS" /\ player'[h[2]].score # player[h[1]].score =>
         /\ player'[h[2]].score = player[h[1]].score + 1
         /\ ~game[g].is_end_round
         /\ game'[g].is_end_round \/ game'[g].state = "FINISHED"]_vars

-----------------------------------------------------------------------------
(* What the server implements.                                             *)

\* The match of module Match that game g of the server's memory is.
MatchOf(g) ==
  LET seat(s)  == IF s = 1 THEN game[g].player1 ELSE game[g].player2
      playing  == game[g].state = "PLAYING"
      taken(s) == seat(s) # nullptr
  IN  [stage      |-> CASE game[g].state = "WAITING_FOR_PLAYERS" -> "waiting"
                        [] playing -> "playing"
                        [] OTHER   -> "finished",
       taken      |-> [s \in {1, 2} |-> taken(s)],
       may_roll   |-> [s \in {1, 2} |->
                         playing /\ taken(s) /\ player[seat(s)].can_play],
       points     |-> [s \in {1, 2} |->
                         IF taken(s) THEN player[seat(s)].score ELSE 0],
       round_over |-> playing /\ game[g].is_end_round]

Closed == [stage |-> "none", taken |-> [s \in {1, 2} |-> FALSE],
           may_roll |-> [s \in {1, 2} |-> FALSE], points |-> [s \in {1, 2} |-> 0],
           round_over |-> FALSE]

MatchView == [g \in GameIds |-> IF g \in srv.games THEN MatchOf(g) ELSE Closed]

Promised == INSTANCE Match WITH match <- MatchView

\* The server implements module Match: whatever the players send, drop and
\* take up again, and in whatever order the loop serves them, what happens to
\* the two seats, the rolls and the points of a game is a match of best of
\* BEST_OF, and what happens to one game happens to no other (every handler,
\* the sweep, reconnect as no step at all).
ImplementsMatch == Promised!Spec

-----------------------------------------------------------------------------
(* Liveness, under Server!Fairness.                                        *)

\* Every turn of the loop ends: serving and sweeping never go on for ever, so
\* the server comes back to select() (run).
EveryTurnEnds == []<>(phase = "select" \/ ~Running)

\* No dropped player holds a seat of a match for ever: he takes it again by
\* RECONNECT, he is timed out, or the game goes (timeout of run, reconnect).
DropIsResolved ==
  \A g \in GameIds, p \in Objects :
    LET Waiting == g \in srv.games /\ p \in Seats(g) \cap Dropped(srv)
    IN  Waiting ~> ~Waiting

-----------------------------------------------------------------------------
(* What the documentation says and the code does not do.                   *)

\* "Flag indicating if the game is paused (one of the players disconnected)"
\* (server/game/Game.h:33).
PausedWhileDropped ==
  \A g \in srv.games :
    game[g].state = "PLAYING"
      /\ (\E p \in Seats(g) : player[p].state = "DISCONNECTED") => game[g].paused

\* "Starts a new round if the game is not over" (server/game/Game.h:80): when
\* both players have accepted the end of the round, it is no longer open.
AcceptedRoundGoesOn ==
  \A g \in srv.games :
    game[g].state = "PLAYING" /\ Full(g) /\ game[g].is_end_round =>
      \E p \in Seats(g) : ~player[p].accepted_end_of_round

\* "The player with three rounds won, wins the game" (README.md:11): nobody is
\* told WIN against an opponent who has the winning points.
WinnerHasThePoints ==
  \A m \in srv.sent :
    m.notice = "WIN" =>
      \A q \in Seats(player[m.to].game) \ {m.to} : player[q].score < BEST_OF

\* A game is played by two players, of whom one may be waited for after he has
\* dropped, in state DISCONNECTED (server/game/StateMachine.h:17-20), and
\* JOIN_GAME is answered OK or ERR (README.md:184-199): nothing the clients of
\* the protocol do makes the server dereference a null player.
NoCrash == ~srv.crashed

\* REROLL is answered OK or ERR, with "You cannot play" when it is not allowed
\* (README.md:251-267): it does not bring the server down.
RerollIsAnswered ==
  [][\A p \in Objects, result \in Result : Reroll(p, result) => ~srv'.crashed]_vars

=============================================================================
