-------------------------------- MODULE Seats --------------------------------
(***************************************************************************)
(* The invariant that seats, rounds and points of module Server rest on,   *)
(* for clients that RECONNECT only before they are logged in.  Module      *)
(* SeatProofs shows that it is inductive.                                  *)
(***************************************************************************)
EXTENDS ServerProperties

Sits(w, g) == {w.game[g].player1, w.game[g].player2} \ {nullptr}

Filled(w, g) == w.game[g].player1 # nullptr /\ w.game[g].player2 # nullptr

Waits(w, g) == w.game[g].state = "WAITING_FOR_PLAYERS"

\* Who sits in a game is known to the server and points back to it; a lobby
\* has no second player, and its host no points.
GameAgrees(w, g) ==
  /\ \A p \in Sits(w, g) : p \in Known(w) /\ w.player[p].game = g
  /\ Filled(w, g) => w.game[g].player1 # w.game[g].player2
  /\ Waits(w, g) => /\ w.game[g].player2 = nullptr
                    /\ \A p \in Sits(w, g) : w.player[p].score = 0

\* A lobby is left by clearing the seat only: its last host is in the menu and
\* still points to it.
Left(w, p) ==
  /\ p \in w.players
  /\ w.player[p].state = "IN_MAIN_MENU" /\ w.player[p].game \in w.games

\* What a connected player's state says of his game.
PlayerAgrees(w, p) ==
  LET g == w.player[p].game IN
  /\ w.player[p].state = "IN_LOBBY" =>
       g \in w.games /\ Waits(w, g) /\ w.game[g].player1 = p
  /\ w.player[p].state = "IN_GAME" =>
       g \in w.games /\ ~Waits(w, g) /\ p \in Sits(w, g)
  /\ Left(w, p) => Waits(w, g) /\ w.game[g].player1 = nullptr
  /\ ~w.player[p].logged_in => g = nullptr /\ w.player[p].state = "IN_MAIN_MENU"

\* A dropped player keeps his seat.  His state is DISCONNECTED, unless he was
\* the host of a lobby and another has joined it: then he may roll.
DroppedAgrees(w, p) ==
  LET g == w.player[p].game IN
  /\ g \in w.games => p \in Sits(w, g)
  /\ w.player[p].state # "DISCONNECTED" =>
       /\ g \in w.games /\ ~Waits(w, g)
       /\ w.game[g].player1 = p /\ w.player[p].can_play

\* A game that is deleted or about to be has no first player.
ClosedAgrees(w, p) ==
  LET g == w.player[p].game IN
  g \notin w.games \cup {nullptr} => w.game[g].player1 = nullptr

\* As long as both seats are taken.
RoundAgrees(w, g) ==
  Filled(w, g) =>
    LET open == \E p \in Sits(w, g) : w.player[p].can_play IN
    /\ w.game[g].state = "PLAYING" =>
         /\ w.game[g].is_end_round <=> ~open
         /\ \A p \in Sits(w, g) : w.player[p].score < BEST_OF
    /\ w.game[g].state = "FINISHED" =>
         /\ ~open /\ ~w.game[g].is_end_round
         /\ \E p \in Sits(w, g) : w.player[p].score = BEST_OF

Seated(w) ==
  /\ \A g \in w.games : GameAgrees(w, g) /\ RoundAgrees(w, g)
  /\ \A p \in w.players : PlayerAgrees(w, p)
  /\ \A p \in Dropped(w) : DroppedAgrees(w, p)
  /\ \A p \in Known(w) : ClosedAgrees(w, p)

\* Who has left a lobby is not served again before it is deleted.
LeftIsServed ==
  \A p \in Objects :
    Left(srv, p) =>
      \/ phase = "sweep"
      \/ phase = "serve" /\ srv.player[p].socket \notin read_fds

\* Between two turns every game has a player.
GamesAreInhabited ==
  phase = "select" => \A g \in srv.games : Sits(srv, g) # {}

SeatInv == Seated(srv) /\ LeftIsServed /\ GamesAreInhabited
=============================================================================
