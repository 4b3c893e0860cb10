------------------------------- MODULE Server -------------------------------
(***************************************************************************)
(* Server::run (server/Server.cpp): one thread that waits in select(),     *)
(* serves every readable descriptor once, in ascending order, announces    *)
(* what happened in the games, drops the players whose 30 seconds are over *)
(* and deletes the games nobody is in.                                     *)
(*                                                                         *)
(* What a client sends is chosen anew at every step, so any number of      *)
(* clients sending any commands, dropping their connections and coming     *)
(* back are behaviours of this module.                                     *)
(***************************************************************************)
EXTENDS Handlers, FiniteSets

CONSTANTS
  MaxReady,    \* bound: descriptors readable in one turn of the loop
  MaxPoints,   \* bound: nobody rolls once a player has more points
  Liberties    \* what clients do beyond the stock client, see below

(***************************************************************************)
(* client/client.py:71-100 sends HELLO once, then LOGIN or RECONNECT with  *)
(* a nickname, then commands that are well formed.  What a client does     *)
(* beyond that is a liberty:                                               *)
(*   "malformed"  commands that are unknown, too early or ill formed;      *)
(*   "unordered"  HELLO again, LOGIN or RECONNECT before HELLO, LOGIN      *)
(*                again;                                                   *)
(*   "takeover"   RECONNECT on a connection that is logged in, or as the   *)
(*                player without a name.                                   *)
(***************************************************************************)
ASSUME LoopAssumption == /\ MaxReady \in Nat \ {0}
                         /\ MaxPoints \in Nat /\ MaxPoints >= BEST_OF
                         /\ Liberties \subseteq {"malformed", "unordered", "takeover"}

server_socket == 3
ASSUME SocketsAssumption == \A fd \in Sockets : fd > server_socket

VARIABLES
  srv,         \* the memory of the server, a World
  read_fds,    \* readable descriptors select() returned, not yet served
  phase        \* where run() is

vars == <<srv, read_fds, phase>>

Phase == {"select", "serve", "sweep", "stopped"}

TypeOK ==
  /\ srv \in World
  /\ read_fds \subseteq Nat
  /\ phase \in Phase

Init == srv = InitWorld /\ read_fds = {} /\ phase = "select"

-----------------------------------------------------------------------------
(* Memory.  An object lives as long as a vector, a live player or a live   *)
(* game points to it (std::shared_ptr); a freed one is as good as new.     *)

LiveGames(w) == w.games \cup {w.player[o].game : o \in Known(w)}

Live(w) == Known(w) \cup {w.game[g].player1 : g \in LiveGames(w) \ {nullptr}}
                    \cup {w.game[g].player2 : g \in LiveGames(w) \ {nullptr}}

Collect(w) ==
  [w EXCEPT
     !.player = [o \in Objects |-> IF o \in Live(w) THEN @[o] ELSE NewPlayer(0)],
     !.game = [g \in GameIds |-> IF g \in LiveGames(w) THEN @[g] ELSE NewGame(nullptr)]]

Quiet(w) == [w EXCEPT !.sent = {}]

\* A crashed process leaves nothing behind but the fact that it crashed.
Settle(w) == IF w.crashed THEN Crash(InitWorld) ELSE Collect(w)

-----------------------------------------------------------------------------
(* The turn of the loop: select, serve, sweep.                             *)

Used == {srv.player[o].socket : o \in srv.players}

Running == ~srv.crashed /\ phase # "stopped"

\* Bound: one more client connects only while the model has a descriptor and a
\* Player object left.
Room == Sockets \ Used # {} /\ Objects \ Live(srv) # {}

\* select() returns; a turn that only a command on stdin woke up serves nobody.
Select ==
  /\ Running /\ phase = "select"
  /\ \E ready \in SUBSET ({server_socket} \cup Used) :
       /\ Cardinality(ready) <= MaxReady
       /\ server_socket \in ready => Room
       /\ read_fds' = ready
       /\ phase' = IF ready = {} THEN "sweep" ELSE "serve"
  /\ srv' = Quiet(srv)

\* "exit" on stdin: run() ends and with it every game.
Exit ==
  /\ Running /\ phase = "select"
  /\ phase' = "stopped"
  /\ srv' = InitWorld
  /\ UNCHANGED read_fds

\* Slip: a descriptor that has become readable meanwhile is served before the
\* sweep.
Served_and_polled(fd, w) ==
  /\ srv' = Settle(w)
  /\ \E more \in SUBSET {w.player[o].socket : o \in w.players} :
       /\ Cardinality(more) <= MaxReady
       /\ read_fds' = IF w.crashed THEN {} ELSE (read_fds \cup more) \ {fd}
  /\ phase' = IF ~w.crashed /\ read_fds' = {} THEN "sweep" ELSE phase

\* One descriptor has been served and left w.
Served(fd, w) ==
  /\ srv' = Settle(w)
  /\ read_fds' = IF w.crashed THEN {} ELSE read_fds \ {fd}
  /\ phase' = IF ~w.crashed /\ read_fds = {fd} THEN "sweep" ELSE phase

\* The next descriptor of the loop "for (fd = 3; ...) if (FD_ISSET(...))".
Turn(fd) ==
  /\ Running /\ phase = "serve"
  /\ fd \in read_fds /\ \A other \in read_fds : fd <= other

\* accept() returns the lowest free descriptor.
Accept ==
  /\ Turn(server_socket)
  /\ \E o \in Objects \ Live(srv), fd \in Sockets \ Used :
       /\ \A other \in Sockets \ Used : fd <= other
       /\ Served(server_socket,
                 [Quiet(srv) EXCEPT !.player[o] = NewPlayer(fd),
                                    !.players = @ \cup {o}])

\* The owner of fd was disconnected earlier in this turn: FIONREAD on the
\* closed descriptor fails, and the null player is asked for its name.
ServeClosed(fd) ==
  /\ Turn(fd) /\ fd # server_socket
  /\ get_player_by_fd(srv, fd) = nullptr
  /\ Served(fd, Crash(srv))

\* Player p is the owner of the descriptor being served, and w what serving
\* him leaves.
Serve(p, w) ==
  /\ p \in srv.players
  /\ Turn(srv.player[p].socket)
  /\ Served(srv.player[p].socket, w)

\* handle_incoming_message lets a command other than HELLO, LOGIN, RECONNECT
\* and ALIVE through.
MayCommand(p) == srv.player[p].handshake /\ srv.player[p].logged_in

\* An unknown command, a command before login, a wrong number of parameters, a
\* nickname that is too long or flags that are not five bits: any connection
\* may send one at any time.  (LOGIN and RECONNECT without a parameter copy
\* params[0] of an empty vector before they count: the copy is not used.)
Reject(p) == "malformed" \in Liberties /\ Serve(p, player_error_message_inc(Quiet(srv), p))

\* JOIN_GAME with a lobby that is no number, or REROLL with a flag out of the
\* range of int: std::stoi throws what nobody catches.
NotANumber(p) ==
  /\ "malformed" \in Liberties
  /\ MayCommand(p)
  /\ \/ srv.player[p].state = "IN_MAIN_MENU"
     \/ srv.player[p].state = "IN_GAME" /\ srv.player[p].can_play
  /\ Serve(p, Crash(Quiet(srv)))

\* recv_message: BUFFER_LEN bytes or more are waiting.
TooLong(p) == "malformed" \in Liberties /\ Serve(p, disconnect_player(Quiet(srv), p))

Alive(p) == Serve(p, alive(Quiet(srv), p))

Hello(p) ==
  /\ "unordered" \notin Liberties => ~srv.player[p].handshake
  /\ Serve(p, handshake(Quiet(srv), p))

Login(p, name) ==
  /\ "unordered" \notin Liberties => srv.player[p].handshake /\ ~srv.player[p].logged_in
  /\ Serve(p, login(Quiet(srv), p, name))

Reconnect(p, name) ==
  /\ "takeover" \notin Liberties => ~srv.player[p].logged_in /\ name # NoName
  /\ "unordered" \notin Liberties => srv.player[p].handshake
  /\ Serve(p, reconnect(Quiet(srv), p, name))

OkResponse(p) == MayCommand(p) /\ Serve(p, Quiet(srv))

Logout(p) == MayCommand(p) /\ Serve(p, logout(Quiet(srv), p))

CreateGame(p) ==
  /\ MayCommand(p)
  /\ \E g \in GameIds \ LiveGames(srv) : Serve(p, create_game(Quiet(srv), p, g))

JoinGame(p, g) == MayCommand(p) /\ Serve(p, join_game(Quiet(srv), p, g))

LeaveGame(p) == MayCommand(p) /\ Serve(p, leave_game(Quiet(srv), p))

ListGames(p) == MayCommand(p) /\ Serve(p, list_games(Quiet(srv), p))

GameStatus(p) == MayCommand(p) /\ Serve(p, game_status(Quiet(srv), p))

\* Bound: a "takeover" carries points into another game, past BEST_OF.
Reroll(p, result) ==
  /\ MayCommand(p)
  /\ \A o \in Objects : srv.player[o].score <= MaxPoints
  /\ Serve(p, reroll(Quiet(srv), p, result))

AcceptEndOfRound(p) == MayCommand(p) /\ Serve(p, accept_end_of_round(Quiet(srv), p))

\* The connection has ended without GOODBYE (a2read = 0).
Drop(p) == Serve(p, drop(Quiet(srv), p))

-----------------------------------------------------------------------------
(* The sweep over the games and the dropped players.                       *)

\* "if (player && player->state != P_S_DISCONNECTED) game_status(...)"
tell_status(w, p) ==
  IF Present(w, p) THEN game_status(w, AtSocketOf(w, p)) ELSE w

tell_verdict(w, p) ==
  IF Present(w, p) THEN game_over(w, AtSocketOf(w, p)) ELSE w

tell_both(w, g) ==
  tell_status(tell_status(w, w.game[g].player1), w.game[g].player2)

announce_game_over(w, g) ==
  LET v == tell_both([w EXCEPT !.game[g].game_over = FALSE], g)
  IN  tell_verdict(tell_verdict(v, w.game[g].player1), w.game[g].player2)

\* Slip: the entry is not erased.
time_out_unerased(w) ==
  LET p == Head(w.disconnected_players)
      g == w.player[p].game
      v == [w EXCEPT !.game[g].state = "FINISHED"]
      q == get_opponent(v, g, p)
  IN  IF g = nullptr THEN w ELSE tell_verdict(v, q)

\* The 30 seconds of the player who dropped first are over.
time_out(w) ==
  LET p  == Head(w.disconnected_players)
      g  == w.player[p].game
      v1 == [w EXCEPT !.disconnected_players = Tail(@)]
      v2 == [v1 EXCEPT !.game[g].paused = FALSE, !.game[g].game_over = FALSE,
                       !.game[g].state = "FINISHED"]
      q  == get_opponent(v2, g, p)
      v3 == free_seat(tell_status(v2, q), g, p)
  IN  IF g = nullptr THEN v1 ELSE tell_verdict(v3, q)

\* Slip: who has dropped is forgotten.
Inhabited_online(w, g) == {w.game[g].player1, w.game[g].player2} \cap w.players # {}

\* Games whose seats are held by nobody the server knows are deleted.
Inhabited(w, g) == {w.game[g].player1, w.game[g].player2} \cap Known(w) # {}

\* Slip: only finished games are looked at.
delete_finished_games(w) ==
  [w EXCEPT !.games = {g \in @ : w.game[g].state # "FINISHED" \/ Inhabited(w, g)}]

delete_empty_games(w) == [w EXCEPT !.games = {g \in @ : Inhabited(w, g)}]

NewRounds  == {g \in srv.games : srv.game[g].state = "PLAYING" /\ srv.game[g].is_new_round}
EndRounds  == {g \in srv.games : srv.game[g].state = "PLAYING" /\ srv.game[g].send_end_of_round}
GamesOver  == {g \in srv.games : srv.game[g].state = "FINISHED" /\ srv.game[g].game_over}

Sweeping == Running /\ phase = "sweep"

Swept(w) == srv' = Settle(w) /\ UNCHANGED <<read_fds, phase>>

AnnounceNewRound(g) ==
  /\ Sweeping
  /\ g \in NewRounds
  /\ Swept(tell_both([Quiet(srv) EXCEPT !.game[g].is_new_round = FALSE], g))

AnnounceEndOfRound(g) ==
  /\ Sweeping
  /\ NewRounds = {} /\ g \in EndRounds
  /\ Swept(tell_both([Quiet(srv) EXCEPT !.game[g].send_end_of_round = FALSE], g))

AnnounceGameOver(g) ==
  /\ Sweeping
  /\ NewRounds = {} /\ EndRounds = {} /\ g \in GamesOver
  /\ Swept(announce_game_over(Quiet(srv), g))

Announced == NewRounds = {} /\ EndRounds = {} /\ GamesOver = {}

MayExpire == Sweeping /\ Announced /\ srv.disconnected_players # << >>

Expire ==
  /\ MayExpire
  /\ Swept(time_out(Quiet(srv)))

Reap ==
  /\ Sweeping
  /\ Announced
  /\ srv' = Settle(delete_empty_games(Quiet(srv)))
  /\ phase' = "select"
  /\ UNCHANGED read_fds

\* The process has exited or crashed.
Stopped == ~Running /\ UNCHANGED vars

-----------------------------------------------------------------------------

Next ==
  \/ Select \/ Exit \/ Accept
  \/ \E fd \in Sockets : ServeClosed(fd)
  \/ \E p \in Objects :
       \/ Reject(p) \/ NotANumber(p) \/ TooLong(p) \/ Alive(p) \/ Hello(p)
       \/ \E name \in Names : Login(p, name)
       \/ \E name \in Names \cup {NoName} : Reconnect(p, name)
       \/ OkResponse(p) \/ Logout(p) \/ CreateGame(p)
       \/ \E g \in GameIds : JoinGame(p, g)
       \/ LeaveGame(p) \/ ListGames(p) \/ GameStatus(p)
       \/ \E result \in Result : Reroll(p, result)
       \/ AcceptEndOfRound(p) \/ Drop(p)
  \/ \E g \in GameIds :
       AnnounceNewRound(g) \/ AnnounceEndOfRound(g) \/ AnnounceGameOver(g)
  \/ Expire \/ Reap
  \/ Stopped

Spec == Init /\ [][Next]_vars

(***************************************************************************)
(* The thread of run() keeps running: select() waits a second at most and  *)
(* no handler waits for a client.  This is WF_vars(Next), with ENABLED     *)
(* written out: a step of Next is possible as long as the process runs.    *)
(*                                                                         *)
(* The clock runs too: a player who stays in disconnected_players is found *)
(* over his time in some later sweep, and those who dropped before him in  *)
(* that sweep at the latest.  Nothing is assumed of a player who comes     *)
(* back, however often he drops again.                                     *)
(***************************************************************************)
TimeRunsOut(o) == []<>(o \notin Dropped(srv)) \/ []<><<Expire>>_vars

Fairness ==
  /\ []<>~Running \/ []<><<Next>>_vars
  /\ \A o \in Objects : TimeRunsOut(o)

FairSpec == Spec /\ Fairness
=============================================================================
