-------------------------------- MODULE Game --------------------------------
(***************************************************************************)
(* The objects of the Zappe server and the methods of the two classes that *)
(* hold them: server/game/StateMachine.h, Player.{h,cpp}, Game.{h,cpp}.    *)
(*                                                                         *)
(* The whole memory of the server is one record, the world w.  A method    *)
(* that changes it is an operator from a world to a world, so that a call  *)
(* inside a handler is an application, in the order of the code, and one   *)
(* handler is one step however many methods it calls.                      *)
(***************************************************************************)
EXTENDS Integers, Sequences

CONSTANTS
  Objects,     \* Player objects the server may hold at one time
  GameIds,     \* Game objects the server may hold at one time
  Names,       \* nicknames
  Sockets,     \* file descriptors accept() may return
  nullptr,     \* the null shared_ptr
  NoName,      \* the empty nickname of a connection that has not logged in
  BEST_OF,     \* winning points that end a game (3 in server/game/Game.h)
  MAX_ERRORS   \* errors that disconnect a player (3 in server/Server.cpp)

ASSUME ObjectsAssumption == nullptr \notin Objects \cup GameIds
ASSUME NamesAssumption   == NoName \notin Names
ASSUME BoundsAssumption  == /\ Sockets \subseteq Nat
                            /\ BEST_OF \in Nat \ {0}
                            /\ MAX_ERRORS \in Nat \ {0}

GameState   == {"WAITING_FOR_PLAYERS", "PLAYING", "FINISHED"}
PlayerState == {"IN_MAIN_MENU", "IN_LOBBY", "IN_GAME", "DISCONNECTED"}

\* hand is left out: what two hands are worth to each other is the Result
\* end_round is given, and module DiceHand says how it is computed.
Player ==
  [socket : Nat, name : Names \cup {NoName}, game : GameIds \cup {nullptr},
   score : Nat, state : PlayerState, can_play : BOOLEAN, handshake : BOOLEAN,
   logged_in : BOOLEAN, accepted_end_of_round : BOOLEAN,
   number_of_error_messages : Nat]

Game ==
  [player1 : Objects \cup {nullptr}, player2 : Objects \cup {nullptr},
   state : GameState, is_new_round : BOOLEAN, is_end_round : BOOLEAN,
   send_end_of_round : BOOLEAN, paused : BOOLEAN, game_over : BOOLEAN]

\* How the two hands of a round compare: score1 > score2, < and =.
Result == {"player1", "player2", "draw"}

\* What the server sends a player on its own account or because of another
\* player.  The reply to the player's own command is left out.
Notice == {"JOIN_GAME", "LEAVE_GAME_OPPONENT", "OPPONENT_DISCONNECTED",
           "OPPONENT_RECONNECTED", "REROLL_OPPONENT", "WIN", "LOSS", "DRAW"}

(***************************************************************************)
(* The server's memory.  players and games are the vectors of Server.h,    *)
(* whose order no handler depends on; disconnected_players keeps its order *)
(* because its entries time out in the order they were pushed.  sent holds *)
(* the notices of the last step; crashed is set by a null dereference.     *)
(***************************************************************************)
World ==
  [player : [Objects -> Player], game : [GameIds -> Game],
   players : SUBSET Objects, disconnected_players : Seq(Objects),
   games : SUBSET GameIds, sent : SUBSET [notice : Notice, to : Objects],
   crashed : BOOLEAN]

\* Player::Player(socket)
NewPlayer(socket) ==
  [socket |-> socket, name |-> NoName, game |-> nullptr, score |-> 0,
   state |-> "IN_MAIN_MENU", can_play |-> FALSE, handshake |-> FALSE,
   logged_in |-> FALSE, accepted_end_of_round |-> FALSE,
   number_of_error_messages |-> 0]

\* The fields Game::Game(id, player) sets in the game.
NewGame(p) ==
  [player1 |-> p, player2 |-> nullptr, state |-> "WAITING_FOR_PLAYERS",
   is_new_round |-> FALSE, is_end_round |-> FALSE, send_end_of_round |-> FALSE,
   paused |-> FALSE, game_over |-> FALSE]

InitWorld ==
  [player |-> [o \in Objects |-> NewPlayer(0)],
   game |-> [g \in GameIds |-> NewGame(nullptr)],
   players |-> {}, disconnected_players |-> << >>, games |-> {},
   sent |-> {}, crashed |-> FALSE]

\* A null shared_ptr is dereferenced: the process dies.  What the rest of the
\* handler would still write is lost with it (see Server!Settle).
Crash(w) == [w EXCEPT !.crashed = TRUE]

Notify(w, n, p) == [w EXCEPT !.sent = @ \cup {[notice |-> n, to |-> p]}]

-----------------------------------------------------------------------------
(* class Game                                                              *)

get_opponent(w, g, p) ==
  IF w.game[g].player1 = p THEN w.game[g].player2
  ELSE IF w.game[g].player2 = p THEN w.game[g].player1
  ELSE nullptr

\* What a new round gives a player.
fresh_roll(w, p) ==
  [w EXCEPT !.player[p].can_play = TRUE, !.player[p].accepted_end_of_round = FALSE]

start_round(w, g) ==
  LET p1 == w.game[g].player1
      p2 == w.game[g].player2
      v  == fresh_roll(fresh_roll(w, p1), p2)
  IN  IF nullptr \in {p1, p2} THEN Crash(w) ELSE
      [v EXCEPT !.game[g].is_new_round = TRUE, !.game[g].is_end_round = FALSE]

\* Game::Game(id, player): the host waits in the lobby.
construct_game(w, g, p) ==
  [w EXCEPT !.player[p].state = "IN_LOBBY", !.player[p].score = 0,
            !.game[g] = NewGame(p)]

\* Slip: the joining player keeps the points of his last game.
take_seat_with_old_score(w, g, p) ==
  LET p1 == w.game[g].player1
  IN  IF p1 = nullptr THEN Crash(w) ELSE
      start_round([w EXCEPT !.game[g].player2 = p, !.game[g].state = "PLAYING",
                            !.player[p].game = g,
                            !.player[p1].state = "IN_GAME",
                            !.player[p].state = "IN_GAME"], g)

\* Game::join_game(player)
take_seat(w, g, p) ==
  LET p1 == w.game[g].player1
  IN  IF p1 = nullptr THEN Crash(w) ELSE
      start_round([w EXCEPT !.game[g].player2 = p, !.game[g].state = "PLAYING",
                            !.player[p].game = g, !.player[p].score = 0,
                            !.player[p1].state = "IN_GAME",
                            !.player[p].state = "IN_GAME"], g)

end_game(w, g) ==
  [w EXCEPT !.game[g].game_over = TRUE, !.game[g].state = "FINISHED"]

\* Slip: the loser of a round loses a point.
end_round_zero_sum(w, g, result) ==
  LET p1 == w.game[g].player1
      p2 == w.game[g].player2
  IN  CASE result = "player1" -> [w EXCEPT !.player[p1].score = @ + 1,
                                           !.player[p2].score = @ - 1]
        [] result = "player2" -> [w EXCEPT !.player[p2].score = @ + 1,
                                           !.player[p1].score = @ - 1]
        [] OTHER -> w

\* One player in both seats draws with himself.
end_round(w, g, result) ==
  LET p1 == w.game[g].player1
      p2 == w.game[g].player2
      v  == IF result \in {"player1", "draw"} \/ p1 = p2
              THEN [w EXCEPT !.player[p1].score = @ + 1] ELSE w
      u  == IF result \in {"player2", "draw"} \/ p1 = p2
              THEN [v EXCEPT !.player[p2].score = @ + 1] ELSE v
  IN  IF BEST_OF \in {u.player[p1].score, u.player[p2].score}
        THEN end_game(u, g)
        ELSE [u EXCEPT !.game[g].is_end_round = TRUE,
                       !.game[g].send_end_of_round = TRUE]

\* The seats are read through their pointers, player2 only when player1 has
\* played.
check_if_all_players_played(w, g) ==
  LET Played(q) == q # nullptr /\ ~w.player[q].can_play
  IN  Played(w.game[g].player1) /\ Played(w.game[g].player2)

check_dereferences_null(w, g) ==
  LET p1 == w.game[g].player1
      p2 == w.game[g].player2
  IN  \/ g = nullptr
      \/ p1 = nullptr
      \/ p1 # nullptr /\ ~w.player[p1].can_play /\ p2 = nullptr

\* Player::reroll_hand
reroll_hand(w, p, result) ==
  LET g == w.player[p].game
      v == [w EXCEPT !.player[p].can_play = FALSE]
  IN  IF check_dereferences_null(v, g) THEN Crash(v)
      ELSE IF check_if_all_players_played(v, g) THEN end_round(v, g, result)
      ELSE v
=============================================================================
