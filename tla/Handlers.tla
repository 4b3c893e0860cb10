------------------------------ MODULE Handlers ------------------------------
(***************************************************************************)
(* The methods of class Server (server/Server.cpp) that answer a client:   *)
(* each takes the world and the player object of the connection the        *)
(* command came from, and gives the world the method leaves.               *)
(*                                                                         *)
(* The code passes file descriptors around and looks the player up again   *)
(* in every method: get_player_by_fd is that lookup, and a call made on    *)
(* opponent->socket goes through it (AtSocketOf).  A wrong number of       *)
(* parameters is an error like any other and is action Server!Reject.      *)
(***************************************************************************)
EXTENDS Game

get_player_by_fd(w, fd) ==
  IF \E o \in w.players : w.player[o].socket = fd
    THEN CHOOSE o \in w.players : w.player[o].socket = fd
    ELSE nullptr

AtSocketOf(w, o) == get_player_by_fd(w, w.player[o].socket)

Dropped(w) == {w.disconnected_players[k] : k \in DOMAIN w.disconnected_players}

Known(w) == w.players \cup Dropped(w)

\* "opponent && opponent->state != P_S_DISCONNECTED"
Present(w, o) == o # nullptr /\ w.player[o].state # "DISCONNECTED"

\* Slip: the dropped players are forgotten.
is_name_taken_online(w, name) == \E o \in w.players : w.player[o].name = name

is_name_taken(w, name) == \E o \in Known(w) : w.player[o].name = name

\* The entry of disconnected_players that reconnect() finds by name: the first.
DroppedAs(w, name) ==
  LET Named(k) == w.player[w.disconnected_players[k]].name = name
  IN  {k \in DOMAIN w.disconnected_players :
         Named(k) /\ \A j \in 1 .. k - 1 : ~Named(j)}

WithoutEntry(s, k) == SubSeq(s, 1, k - 1) \o SubSeq(s, k + 1, Len(s))

\* close(fd); FD_CLR(fd); players.erase(...)
erase(w, p) == [w EXCEPT !.players = @ \ {p}]

\* "if (player1 == player) player1 = nullptr; else player2 = nullptr"
free_seat(w, g, p) ==
  IF w.game[g].player1 = p THEN [w EXCEPT !.game[g].player1 = nullptr]
                           ELSE [w EXCEPT !.game[g].player2 = nullptr]

-----------------------------------------------------------------------------
(* Errors and forced disconnection.                                        *)

\* The opponent is asked for only after the player's seat has been cleared,
\* so get_opponent finds none and the lines that would tell him are never
\* run: ServerProofs!DisconnectFindsNoOpponent.
disconnect_player(w, p) ==
  LET g == w.player[p].game
      v == [w EXCEPT !.player[p].game = nullptr]
      seated == g # nullptr /\ p \in {w.game[g].player1, w.game[g].player2}
  IN  erase(IF seated THEN free_seat(v, g, p) ELSE v, p)

player_error_message_inc(w, p) ==
  LET v == [w EXCEPT !.player[p].number_of_error_messages = @ + 1]
  IN  IF v.player[p].number_of_error_messages >= MAX_ERRORS
        THEN disconnect_player(v, p) ELSE v

forgive(w, p) == [w EXCEPT !.player[p].number_of_error_messages = 0]

-----------------------------------------------------------------------------
(* Session commands.                                                       *)

alive(w, p) == forgive(w, p)

handshake(w, p) == [forgive(w, p) EXCEPT !.player[p].handshake = TRUE]

login(w, p, name) ==
  IF w.player[p].logged_in THEN player_error_message_inc(w, p)
  ELSE IF is_name_taken(w, name) THEN w
  ELSE [forgive(w, p) EXCEPT !.player[p] =
          [@ EXCEPT !.name = name, !.logged_in = TRUE]]

-----------------------------------------------------------------------------
(* Methods also called for another player, through his socket.             *)

HasGame(w, p) == p # nullptr /\ w.player[p].game # nullptr

game_status(w, p) ==
  IF p = nullptr THEN Crash(w)
  ELSE IF w.player[p].state # "IN_GAME" THEN player_error_message_inc(w, p)
  ELSE IF ~HasGame(w, p) THEN Crash(w)
  ELSE IF get_opponent(w, w.player[p].game, p) = nullptr THEN w
  ELSE forgive(w, p)

Verdict(w, p) ==
  LET q == get_opponent(w, w.player[p].game, p)
  IN  IF ~Present(w, q) \/ w.player[p].score > w.player[q].score THEN "WIN"
      ELSE IF w.player[p].score < w.player[q].score THEN "LOSS"
      ELSE "DRAW"

game_over(w, p) ==
  IF HasGame(w, p) THEN Notify(w, Verdict(w, p), p) ELSE Crash(w)

-----------------------------------------------------------------------------
(* Lobby commands.                                                         *)

create_game(w, p, g) ==
  IF w.player[p].state # "IN_MAIN_MENU" THEN player_error_message_inc(w, p)
  ELSE LET v == construct_game(forgive(w, p), g, p)
       IN  [v EXCEPT !.player[p].game = g, !.games = @ \cup {g}]

\* Slip: "is the lobby full" is not asked.
join_any_game(w, p, g) ==
  IF w.player[p].state # "IN_MAIN_MENU" \/ g \notin w.games
    THEN player_error_message_inc(w, p)
  ELSE LET v == take_seat(forgive(w, p), g, p)
           q == get_opponent(v, g, p)
       IN  IF q = nullptr THEN Crash(v) ELSE Notify(v, "JOIN_GAME", q)

join_game(w, p, g) ==
  IF \/ w.player[p].state # "IN_MAIN_MENU"
     \/ g \notin w.games
     \/ w.game[g].state # "WAITING_FOR_PLAYERS"
    THEN player_error_message_inc(w, p)
  ELSE LET v == take_seat(forgive(w, p), g, p)
           q == get_opponent(v, g, p)
       IN  IF q = nullptr THEN Crash(v) ELSE Notify(v, "JOIN_GAME", q)

\* The line of every open lobby names its host.
list_games(w, p) ==
  IF w.player[p].state # "IN_MAIN_MENU" THEN player_error_message_inc(w, p)
  ELSE IF \E g \in w.games : /\ w.game[g].state = "WAITING_FOR_PLAYERS"
                             /\ w.game[g].player1 = nullptr
    THEN Crash(w)
  ELSE forgive(w, p)

\* Slip: the host's state is not reset.
leave_lobby_unreset(w, p, g) == [w EXCEPT !.game[g].player1 = nullptr]

\* A lobby is left by clearing its host's seat; the host keeps its pointer to
\* the game.
leave_lobby(w, p, g) ==
  [w EXCEPT !.game[g].player1 = nullptr, !.player[p].state = "IN_MAIN_MENU"]

\* Slip: the verdict is sent before the game is finished.
leave_running_match(w, p, g) ==
  LET q == get_opponent(w, g, p)
      v == [free_seat(w, g, p) EXCEPT !.player[p].game = nullptr,
                                      !.player[p].state = "IN_MAIN_MENU",
                                      !.player[p].can_play = FALSE]
  IN  IF Present(v, q) THEN game_over(v, AtSocketOf(v, q)) ELSE v

leave_match(w, p, g) ==
  LET q  == get_opponent(w, g, p)
      v1 == IF Present(w, q) THEN game_status(w, AtSocketOf(w, q)) ELSE w
      v2 == [free_seat(v1, g, p) EXCEPT !.player[p].game = nullptr,
                                        !.player[p].state = "IN_MAIN_MENU",
                                        !.player[p].can_play = FALSE]
      v3 == Notify(v2, "LEAVE_GAME_OPPONENT", q)
      v4 == [v3 EXCEPT !.game[g].state = "FINISHED", !.game[g].game_over = FALSE]
  IN  IF ~Present(v2, q) THEN v2
      ELSE IF v2.game[g].state = "FINISHED" THEN v3
      ELSE game_over(v4, AtSocketOf(v4, q))

leave_game(w, p) ==
  LET g == w.player[p].game
  IN  IF w.player[p].state \notin {"IN_LOBBY", "IN_GAME"}
        THEN player_error_message_inc(w, p)
      ELSE IF g = nullptr THEN Crash(w)
      ELSE IF w.game[g].state = "WAITING_FOR_PLAYERS"
        THEN leave_lobby(forgive(w, p), p, g)
      ELSE leave_match(forgive(w, p), p, g)

\* Slip: the game is not left before the connection is closed.
logout_in_game(w, p) == erase(w, p)

\* GOODBYE: the connection is closed even when leave_game has refused.
logout(w, p) ==
  erase(IF HasGame(w, p) THEN leave_game(w, p) ELSE w, p)

-----------------------------------------------------------------------------
(* RECONNECT: the connection p takes over the session of the dropped       *)
(* player q.                                                               *)

\* Slips: the roll or the points not copied.
copy_session_no_roll(w, p, q) ==
  [forgive(w, p) EXCEPT !.player[p] =
     [@ EXCEPT !.name = w.player[q].name,
               !.game = w.player[q].game,
               !.score = w.player[q].score,
               !.logged_in = TRUE,
               !.accepted_end_of_round = w.player[q].accepted_end_of_round]]

copy_session_no_score(w, p, q) ==
  [forgive(w, p) EXCEPT !.player[p] =
     [@ EXCEPT !.name = w.player[q].name,
               !.game = w.player[q].game,
               !.can_play = w.player[q].can_play,
               !.logged_in = TRUE,
               !.accepted_end_of_round = w.player[q].accepted_end_of_round]]

copy_session(w, p, q) ==
  [forgive(w, p) EXCEPT !.player[p] =
     [@ EXCEPT !.name = w.player[q].name,
               !.game = w.player[q].game,
               !.score = w.player[q].score,
               !.can_play = w.player[q].can_play,
               !.logged_in = TRUE,
               !.accepted_end_of_round = w.player[q].accepted_end_of_round]]

\* Slip: every returning player is given the host's seat.
take_over_host_seat(w, g, p, q) ==
  [w EXCEPT !.game[g].paused = FALSE, !.player[p].state = "IN_GAME",
            !.game[g].player1 = p]

\* The player's seat is q's, or player2's when q has none.
take_over_seat(w, g, p, q) ==
  LET state == IF w.game[g].state = "WAITING_FOR_PLAYERS" THEN "IN_LOBBY"
                                                          ELSE "IN_GAME"
      v == [w EXCEPT !.game[g].paused = FALSE, !.player[p].state = state]
  IN  IF v.game[g].player1 = q THEN [v EXCEPT !.game[g].player1 = p]
                               ELSE [v EXCEPT !.game[g].player2 = p]

\* The dropped session is entry k of disconnected_players.
restore_session(w, p, k) ==
  LET q == w.disconnected_players[k]
      g == w.player[q].game
      v == [copy_session(w, p, q) EXCEPT !.disconnected_players = WithoutEntry(@, k)]
      u == take_over_seat(v, g, p, q)
      opponent == get_opponent(u, g, p)
  IN  IF g = nullptr THEN [v EXCEPT !.player[p].state = "IN_MAIN_MENU"]
      ELSE IF opponent = nullptr THEN leave_game(u, p)
      ELSE game_status(Notify(u, "OPPONENT_RECONNECTED", opponent), p)

\* A name that is unknown, or the name of a player who is connected, logged in
\* again or not in state DISCONNECTED, is refused.
reconnect(w, p, name) ==
  IF DroppedAs(w, name) = {} THEN player_error_message_inc(w, p)
  ELSE LET k == CHOOSE k \in DroppedAs(w, name) : TRUE
           q == w.disconnected_players[k]
       IN  IF w.player[q].logged_in \/ w.player[q].state # "DISCONNECTED"
             THEN player_error_message_inc(w, p)
             ELSE restore_session(w, p, k)

-----------------------------------------------------------------------------
(* A connection that ends without GOODBYE: the player waits in             *)
(* disconnected_players, in his seat, for RECONNECT or for his timeout.    *)

\* Slip: the player stays in the vector players.
drop_unerased(w, p) ==
  [w EXCEPT !.player[p] = [@ EXCEPT !.logged_in = FALSE, !.state = "DISCONNECTED"],
            !.disconnected_players = Append(@, p)]

drop(w, p) ==
  LET g == w.player[p].game
      v == [w EXCEPT !.player[p] =
                       [@ EXCEPT !.logged_in = FALSE, !.state = "DISCONNECTED"],
                     !.disconnected_players = Append(@, p)]
      u == [v EXCEPT !.game[g].paused = TRUE]
      q == get_opponent(u, g, p)
  IN  IF g = nullptr THEN erase(v, p)
      ELSE IF Present(u, q) THEN erase(Notify(u, "OPPONENT_DISCONNECTED", q), p)
      ELSE erase(u, p)

-----------------------------------------------------------------------------
(* Playing a round.                                                        *)

\* REROLL with five flags; result is how the hands compare if this was the
\* last roll of the round.
reroll(w, p, result) ==
  IF w.player[p].state # "IN_GAME" \/ ~w.player[p].can_play
    THEN player_error_message_inc(w, p)
  ELSE LET v == reroll_hand(forgive(w, p), p, result)
           g == w.player[p].game
           q == get_opponent(v, g, p)
       IN  IF v.crashed \/ v.game[g].paused THEN v
           ELSE IF q = nullptr THEN Crash(v)
           ELSE Notify(v, "REROLL_OPPONENT", q)

\* Slip: "is it the end of the round" is not asked.
accept_any_time(w, p) ==
  LET g == w.player[p].game
      v == [forgive(w, p) EXCEPT !.player[p].accepted_end_of_round = TRUE]
      q == get_opponent(v, g, p)
  IN  IF w.player[p].state # "IN_GAME" \/ w.player[p].accepted_end_of_round
        THEN player_error_message_inc(w, p)
      ELSE IF Present(v, q) /\ v.player[q].accepted_end_of_round
        THEN start_round(v, g)
      ELSE v

accept_end_of_round(w, p) ==
  LET g == w.player[p].game
      v == [forgive(w, p) EXCEPT !.player[p].accepted_end_of_round = TRUE]
      q == get_opponent(v, g, p)
  IN  IF w.player[p].state # "IN_GAME" THEN player_error_message_inc(w, p)
      ELSE IF g = nullptr THEN Crash(w)
      ELSE IF ~w.game[g].is_end_round \/ w.player[p].accepted_end_of_round
        THEN player_error_message_inc(w, p)
      ELSE IF Present(v, q) /\ v.player[q].accepted_end_of_round
        THEN start_round(v, g)
      ELSE v
=============================================================================
