---------------------------- MODULE ServerProofs ----------------------------
(***************************************************************************)
(* Theorems about module Server, for any number of players, games, names   *)
(* and descriptors, any MaxReady and any clients: types, one owner per     *)
(* descriptor, one session per nickname.                                   *)
(*                                                                         *)
(* A method is an operator on worlds, so the proof is about operators      *)
(* first.  Most of them only move a world as Keeps allows; the few that do *)
(* not (login, reconnect, a dropped connection, its timeout, accept) are   *)
(* treated one by one against the invariant Sound.                         *)
(***************************************************************************)
EXTENDS ServerProperties, SequenceTheorems, TLAPS

-----------------------------------------------------------------------------
(* Types.  A world stays a world when one part of it is given a value of   *)
(* its type.                                                               *)

LEMMA NewTypes ==
  ASSUME NEW p \in Objects \cup {nullptr}, NEW fd \in Nat
  PROVE  NewPlayer(fd) \in Player /\ NewGame(p) \in Game
BY DEF NewPlayer, NewGame, Player, Game, PlayerState, GameState

LEMMA InitWorldType == InitWorld \in World
BY NewTypes, 0 \in Nat DEF InitWorld, World

LEMMA WorldFields ==
  ASSUME NEW w \in World
  PROVE  /\ w.player \in [Objects -> Player]
         /\ w.game \in [GameIds -> Game]
         /\ w.players \in SUBSET Objects
         /\ w.disconnected_players \in Seq(Objects)
         /\ w.games \in SUBSET GameIds
BY DEF World

LEMMA SetPlayer ==
  ASSUME NEW w \in World, NEW p \in Objects, NEW r \in Player
  PROVE  [w EXCEPT !.player[p] = r] \in World
BY DEF World

LEMMA SetGame ==
  ASSUME NEW w \in World, NEW g \in GameIds, NEW r \in Game
  PROVE  [w EXCEPT !.game[g] = r] \in World
BY DEF World

LEMMA SetVectors ==
  ASSUME NEW w \in World
  PROVE  /\ \A S \in SUBSET Objects : [w EXCEPT !.players = S] \in World
         /\ \A s \in Seq(Objects) : [w EXCEPT !.disconnected_players = s] \in World
         /\ \A G \in SUBSET GameIds : [w EXCEPT !.games = G] \in World
<1>1. \A S \in SUBSET Objects : [w EXCEPT !.players = S] \in World
  BY DEF World
<1>2. \A s \in Seq(Objects) : [w EXCEPT !.disconnected_players = s] \in World
  BY DEF World
<1>3. \A G \in SUBSET GameIds : [w EXCEPT !.games = G] \in World
  BY DEF World
<1> QED
  BY <1>1, <1>2, <1>3

-----------------------------------------------------------------------------
(* Most methods leave connections and names alone: they may erase players  *)
(* from the vector players, but keep who has which descriptor and nickname *)
(* and who waits in disconnected_players, and put nobody in state          *)
(* DISCONNECTED.  v is a world a world like w may become in this way.      *)

Keeps(w, v) ==
  /\ v \in World
  /\ v.players \subseteq w.players
  /\ v.disconnected_players = w.disconnected_players
  /\ \A o \in Objects :
       /\ v.player[o].socket = w.player[o].socket
       /\ v.player[o].name = w.player[o].name
       /\ v.player[o].state = "DISCONNECTED" => w.player[o].state = "DISCONNECTED"

LEMMA KeepsSelf ==
  ASSUME NEW w \in World
  PROVE  Keeps(w, w)
BY DEF Keeps

LEMMA KeepsType ==
  ASSUME NEW w0, NEW w, Keeps(w0, w)
  PROVE  w \in World
BY DEF Keeps

LEMMA PlayerKeeps ==
  ASSUME NEW w0, NEW w, Keeps(w0, w), NEW p \in Objects, NEW r \in Player,
         r.socket = w.player[p].socket, r.name = w.player[p].name,
         r.state = "DISCONNECTED" => w.player[p].state = "DISCONNECTED"
  PROVE  Keeps(w0, [w EXCEPT !.player[p] = r])
<1> DEFINE v == [w EXCEPT !.player[p] = r]
<1>1. w \in World
  BY DEF Keeps
<1>2. v \in World
  BY <1>1, SetPlayer
<1>3. v.player = [w.player EXCEPT ![p] = r] /\ w.player \in [Objects -> Player]
  BY <1>1 DEF World
<1>4. v.players = w.players /\ v.disconnected_players = w.disconnected_players
  BY <1>1 DEF World
<1> HIDE DEF v
<1>5. \A o \in Objects : v.player[o] = IF o = p THEN r ELSE w.player[o]
  BY <1>3
<1>6. Keeps(w0, v)
  BY <1>2, <1>4, <1>5 DEF Keeps
<1> QED
  BY <1>6 DEF v

LEMMA GameKeeps ==
  ASSUME NEW w0, NEW w, Keeps(w0, w), NEW g \in GameIds, NEW r \in Game
  PROVE  Keeps(w0, [w EXCEPT !.game[g] = r])
<1> DEFINE v == [w EXCEPT !.game[g] = r]
<1>1. w \in World
  BY DEF Keeps
<1>2. v \in World
  BY <1>1, SetGame
<1>3. /\ v.player = w.player /\ v.players = w.players
      /\ v.disconnected_players = w.disconnected_players
  BY <1>1 DEF World
<1> HIDE DEF v
<1>4. Keeps(w0, v)
  BY <1>2, <1>3 DEF Keeps
<1> QED
  BY <1>4 DEF v

LEMMA PlayerFields ==
  ASSUME NEW w0, NEW w, Keeps(w0, w)
  PROVE  \A p \in Objects :
           /\ \A b \in BOOLEAN : /\ Keeps(w0, [w EXCEPT !.player[p].can_play = b])
                                 /\ Keeps(w0, [w EXCEPT !.player[p].handshake = b])
                                 /\ Keeps(w0, [w EXCEPT !.player[p].accepted_end_of_round = b])
           /\ \A n \in Nat : /\ Keeps(w0, [w EXCEPT !.player[p].score = n])
                             /\ Keeps(w0, [w EXCEPT !.player[p].number_of_error_messages = n])
           /\ \A s \in PlayerState \ {"DISCONNECTED"} :
                Keeps(w0, [w EXCEPT !.player[p].state = s])
           /\ \A g \in GameIds \cup {nullptr} : Keeps(w0, [w EXCEPT !.player[p].game = g])
<1> TAKE p \in Objects
<1> DEFINE r0 == w.player[p]
           Same(r) == /\ r \in Player
                      /\ r.socket = r0.socket /\ r.name = r0.name
                      /\ r.state = "DISCONNECTED" => r0.state = "DISCONNECTED"
<1>1. r0 \in Player
  BY KeepsType, WorldFields
<1> HIDE DEF r0
<1>2. \A b \in BOOLEAN : /\ Same([r0 EXCEPT !.can_play = b])
                         /\ Same([r0 EXCEPT !.handshake = b])
                         /\ Same([r0 EXCEPT !.accepted_end_of_round = b])
  BY <1>1 DEF Player
<1>3. \A n \in Nat : /\ Same([r0 EXCEPT !.score = n])
                     /\ Same([r0 EXCEPT !.number_of_error_messages = n])
  BY <1>1 DEF Player
<1>4. \A s \in PlayerState \ {"DISCONNECTED"} : Same([r0 EXCEPT !.state = s])
  BY <1>1 DEF Player
<1>5. \A g \in GameIds \cup {nullptr} : Same([r0 EXCEPT !.game = g])
  BY <1>1 DEF Player
<1>6. \A r : Same(r) => Keeps(w0, [w EXCEPT !.player[p] = r])
  BY PlayerKeeps DEF r0
<1> HIDE DEF Same
<1> QED
  BY <1>2, <1>3, <1>4, <1>5, <1>6 DEF r0

LEMMA GameFields ==
  ASSUME NEW w0, NEW w, Keeps(w0, w)
  PROVE  \A g \in GameIds :
           /\ \A b \in BOOLEAN : /\ Keeps(w0, [w EXCEPT !.game[g].is_new_round = b])
                                 /\ Keeps(w0, [w EXCEPT !.game[g].is_end_round = b])
                                 /\ Keeps(w0, [w EXCEPT !.game[g].send_end_of_round = b])
                                 /\ Keeps(w0, [w EXCEPT !.game[g].paused = b])
                                 /\ Keeps(w0, [w EXCEPT !.game[g].game_over = b])
           /\ \A s \in GameState : Keeps(w0, [w EXCEPT !.game[g].state = s])
           /\ \A p \in Objects \cup {nullptr} :
                /\ Keeps(w0, [w EXCEPT !.game[g].player1 = p])
                /\ Keeps(w0, [w EXCEPT !.game[g].player2 = p])
<1> TAKE g \in GameIds
<1>1. w.game[g] \in Game
  BY KeepsType, WorldFields
<1>2. \A b \in BOOLEAN : /\ [w.game[g] EXCEPT !.is_new_round = b] \in Game
                         /\ [w.game[g] EXCEPT !.is_end_round = b] \in Game
                         /\ [w.game[g] EXCEPT !.send_end_of_round = b] \in Game
                         /\ [w.game[g] EXCEPT !.paused = b] \in Game
                         /\ [w.game[g] EXCEPT !.game_over = b] \in Game
  BY <1>1 DEF Game
<1>3. /\ \A s \in GameState : [w.game[g] EXCEPT !.state = s] \in Game
      /\ \A p \in Objects \cup {nullptr} : /\ [w.game[g] EXCEPT !.player1 = p] \in Game
                                           /\ [w.game[g] EXCEPT !.player2 = p] \in Game
  BY <1>1 DEF Game
<1> QED
  BY <1>2, <1>3, GameKeeps

LEMMA MemoryFields ==
  ASSUME NEW w0, NEW w, Keeps(w0, w)
  PROVE  /\ \A S \in SUBSET w.players : Keeps(w0, [w EXCEPT !.players = S])
         /\ \A G \in SUBSET GameIds : Keeps(w0, [w EXCEPT !.games = G])
         /\ Keeps(w0, Crash(w))
         /\ Keeps(w0, Quiet(w))
         /\ \A n \in Notice, p \in Objects : Keeps(w0, Notify(w, n, p))
<1>1. w \in World /\ w.players \subseteq Objects
  BY DEF Keeps, World
<1>2. ASSUME NEW S \in SUBSET w.players
      PROVE  Keeps(w0, [w EXCEPT !.players = S])
  <2> DEFINE v == [w EXCEPT !.players = S]
  <2>1. v \in World
    BY <1>1, SetVectors
  <2>2. v.player = w.player /\ v.players = S
        /\ v.disconnected_players = w.disconnected_players
    BY <1>1 DEF World
  <2> HIDE DEF v
  <2>3. Keeps(w0, v)
    BY <2>1, <2>2 DEF Keeps
  <2> QED
    BY <2>3 DEF v
<1>3. \A v \in World :
        v.player = w.player /\ v.players = w.players
          /\ v.disconnected_players = w.disconnected_players => Keeps(w0, v)
  BY DEF Keeps
<1>4. ASSUME NEW G \in SUBSET GameIds
      PROVE  Keeps(w0, [w EXCEPT !.games = G])
  <2>1. [w EXCEPT !.games = G] \in World
    BY <1>1, SetVectors
  <2> QED
    BY <1>1, <1>3, <2>1 DEF World
<1>5. Keeps(w0, Crash(w))
  <2>1. Crash(w) \in World
    BY <1>1 DEF World, Crash
  <2> QED
    BY <1>1, <1>3, <2>1 DEF World, Crash
<1>6. Keeps(w0, Quiet(w))
  <2>1. Quiet(w) \in World
    BY <1>1 DEF World, Quiet
  <2> QED
    BY <1>1, <1>3, <2>1 DEF World, Quiet
<1>7. ASSUME NEW n \in Notice, NEW p \in Objects
      PROVE  Keeps(w0, Notify(w, n, p))
  <2>1. w.sent \cup {[notice |-> n, to |-> p]} \in SUBSET [notice : Notice, to : Objects]
    BY <1>1 DEF World
  <2>2. Notify(w, n, p) \in World
    BY <1>1, <2>1 DEF World, Notify
  <2> QED
    BY <1>1, <1>3, <2>2 DEF World, Notify
<1> QED
  BY <1>2, <1>4, <1>5, <1>6, <1>7

LEMMA OpponentType ==
  ASSUME NEW w \in World, NEW g \in GameIds, NEW p
  PROVE  get_opponent(w, g, p) \in Objects \cup {nullptr}
BY DEF get_opponent, World, Game

LEMMA LookupType ==
  ASSUME NEW w \in World, NEW fd
  PROVE  get_player_by_fd(w, fd) \in Objects \cup {nullptr}
BY DEF get_player_by_fd, World

\* The socket of any object leads to an object or to nobody.
LEMMA AtSocketType ==
  ASSUME NEW w \in World, NEW o
  PROVE  AtSocketOf(w, o) \in Objects \cup {nullptr}
BY LookupType DEF AtSocketOf

LEMMA FreeSeatKeeps ==
  ASSUME NEW w0, NEW w, Keeps(w0, w), NEW g \in GameIds, NEW p
  PROVE  Keeps(w0, free_seat(w, g, p))
BY GameFields DEF free_seat

LEMMA EraseKeeps ==
  ASSUME NEW w0, NEW w, Keeps(w0, w), NEW p
  PROVE  Keeps(w0, erase(w, p))
BY MemoryFields, KeepsType, WorldFields DEF erase

LEMMA ForgiveKeeps ==
  ASSUME NEW w0, NEW w, Keeps(w0, w), NEW p \in Objects
  PROVE  Keeps(w0, forgive(w, p))
BY PlayerFields DEF forgive

-----------------------------------------------------------------------------
(* class Game.                                                             *)

LEMMA FreshRollKeeps ==
  ASSUME NEW w0, NEW w, Keeps(w0, w), NEW p \in Objects
  PROVE  Keeps(w0, fresh_roll(w, p))
BY PlayerFields DEF fresh_roll

LEMMA StartRoundKeeps ==
  ASSUME NEW w0, NEW w, Keeps(w0, w), NEW g \in GameIds
  PROVE  Keeps(w0, start_round(w, g))
<1> DEFINE p1 == w.game[g].player1
           p2 == w.game[g].player2
           v  == fresh_roll(fresh_roll(w, p1), p2)
<1>1. CASE nullptr \in {p1, p2}
  BY <1>1, MemoryFields DEF start_round
<1>2. CASE nullptr \notin {p1, p2}
  <2>1. p1 \in Objects /\ p2 \in Objects
    BY <1>2, KeepsType, WorldFields DEF Game
  <2>2. Keeps(w0, v)
    BY <2>1, FreshRollKeeps
  <2> QED
    BY <1>2, <2>2, GameFields DEF start_round
<1> QED
  BY <1>1, <1>2

LEMMA TakeSeatKeeps ==
  ASSUME NEW w0, NEW w, Keeps(w0, w), NEW g \in GameIds, NEW p \in Objects
  PROVE  Keeps(w0, take_seat(w, g, p))
<1> DEFINE p1 == w.game[g].player1
           v1 == [w EXCEPT !.game[g].player2 = p, !.game[g].state = "PLAYING"]
           v2 == [v1 EXCEPT !.player[p].game = g, !.player[p].score = 0]
           v3 == [v2 EXCEPT !.player[p1].state = "IN_GAME", !.player[p].state = "IN_GAME"]
<1>1. CASE p1 = nullptr
  BY <1>1, MemoryFields DEF take_seat
<1>2. CASE p1 # nullptr
  <2>1. p1 \in Objects
    BY <1>2, KeepsType, WorldFields DEF Game
  <2>2. Keeps(w0, v1)
    BY GameFields DEF GameState
  <2>3. Keeps(w0, v2)
    BY <2>2, PlayerFields
  <2>4. Keeps(w0, v3)
    BY <2>1, <2>3, PlayerFields DEF PlayerState
  <2> QED
    BY <1>2, <2>4, StartRoundKeeps DEF take_seat
<1> QED
  BY <1>1, <1>2

LEMMA EndRoundKeeps ==
  ASSUME NEW w0, NEW w, Keeps(w0, w), NEW g \in GameIds, NEW result,
         w.game[g].player1 \in Objects, w.game[g].player2 \in Objects
  PROVE  Keeps(w0, end_round(w, g, result))
<1> DEFINE p1 == w.game[g].player1
           p2 == w.game[g].player2
           v  == IF result \in {"player1", "draw"} \/ p1 = p2
                   THEN [w EXCEPT !.player[p1].score = @ + 1] ELSE w
           u  == IF result \in {"player2", "draw"} \/ p1 = p2
                   THEN [v EXCEPT !.player[p2].score = @ + 1] ELSE v
<1>1. Keeps(w0, v)
  <2>1. w.player[p1].score + 1 \in Nat
    BY KeepsType, WorldFields DEF Player
  <2> QED
    BY <2>1, PlayerFields
<1> HIDE DEF v
<1>2. Keeps(w0, u)
  <2>1. v.player[p2].score + 1 \in Nat
    BY <1>1, KeepsType, WorldFields DEF Player
  <2> QED
    BY <1>1, <2>1, PlayerFields
<1> HIDE DEF u
<1>3. Keeps(w0, end_game(u, g))
  BY <1>2, GameFields DEF end_game, GameState
<1>4. Keeps(w0, [u EXCEPT !.game[g].is_end_round = TRUE, !.game[g].send_end_of_round = TRUE])
  BY <1>2, GameFields
<1> QED
  BY <1>3, <1>4 DEF end_round, u, v

LEMMA RerollHandKeeps ==
  ASSUME NEW w0, NEW w, Keeps(w0, w), NEW p \in Objects, NEW result
  PROVE  Keeps(w0, reroll_hand(w, p, result))
<1> DEFINE g == w.player[p].game
           v == [w EXCEPT !.player[p].can_play = FALSE]
<1>1. Keeps(w0, v)
  BY PlayerFields
<1>2. CASE check_dereferences_null(v, g)
  BY <1>1, <1>2, MemoryFields DEF reroll_hand
<1>3. CASE ~check_dereferences_null(v, g) /\ check_if_all_players_played(v, g)
  <2>1. g \in GameIds
    BY <1>3, KeepsType, WorldFields DEF check_dereferences_null, Player
  <2>2. v.game[g].player1 \in Objects /\ v.game[g].player2 \in Objects
    BY <1>1, <1>3, <2>1, KeepsType, WorldFields DEF check_if_all_players_played, Game
  <2> QED
    BY <1>1, <1>3, <2>1, <2>2, EndRoundKeeps DEF reroll_hand
<1> QED
  BY <1>1, <1>2, <1>3 DEF reroll_hand

-----------------------------------------------------------------------------
(* class Server: the handlers.                                             *)

LEMMA DisconnectKeeps ==
  ASSUME NEW w0, NEW w, Keeps(w0, w), NEW p \in Objects
  PROVE  Keeps(w0, disconnect_player(w, p))
<1> DEFINE g == w.player[p].game
           v == [w EXCEPT !.player[p].game = nullptr]
<1>1. Keeps(w0, v)
  BY PlayerFields
<1>2. g \in GameIds \cup {nullptr}
  BY KeepsType, WorldFields DEF Player
<1>3. g # nullptr => Keeps(w0, free_seat(v, g, p))
  BY <1>1, <1>2, FreeSeatKeeps
<1> HIDE DEF v
<1> QED
  BY <1>1, <1>3, EraseKeeps DEF disconnect_player, v

LEMMA ErrorKeeps ==
  ASSUME NEW w0, NEW w, Keeps(w0, w), NEW p \in Objects
  PROVE  Keeps(w0, player_error_message_inc(w, p))
<1> DEFINE v == [w EXCEPT !.player[p].number_of_error_messages = @ + 1]
<1>1. w.player[p].number_of_error_messages + 1 \in Nat
  BY KeepsType, WorldFields DEF Player
<1>2. Keeps(w0, v)
  BY <1>1, PlayerFields
<1> HIDE DEF v
<1>3. Keeps(w0, disconnect_player(v, p))
  BY <1>2, DisconnectKeeps
<1> QED
  BY <1>2, <1>3 DEF player_error_message_inc, v

LEMMA HelloKeeps ==
  ASSUME NEW w0, NEW w, Keeps(w0, w), NEW p \in Objects
  PROVE  Keeps(w0, alive(w, p)) /\ Keeps(w0, handshake(w, p))
BY ForgiveKeeps, PlayerFields DEF alive, handshake

LEMMA GameStatusKeeps ==
  ASSUME NEW w0, NEW w, Keeps(w0, w), NEW p \in Objects \cup {nullptr}
  PROVE  Keeps(w0, game_status(w, p))
<1>1. CASE p = nullptr
  BY <1>1, MemoryFields DEF game_status
<1>2. CASE p \in Objects
  BY <1>2, MemoryFields, ErrorKeeps, ForgiveKeeps, ObjectsAssumption DEF game_status
<1> QED
  BY <1>1, <1>2

LEMMA GameOverKeeps ==
  ASSUME NEW w0, NEW w, Keeps(w0, w), NEW p \in Objects \cup {nullptr}
  PROVE  Keeps(w0, game_over(w, p))
<1>1. CASE ~HasGame(w, p)
  BY <1>1, MemoryFields DEF game_over
<1>2. CASE HasGame(w, p)
  <2>1. p \in Objects
    BY <1>2 DEF HasGame
  <2>2. Verdict(w, p) \in Notice
    BY DEF Verdict, Notice
  <2> QED
    BY <1>2, <2>1, <2>2, MemoryFields DEF game_over
<1> QED
  BY <1>1, <1>2

LEMMA CreateGameKeeps ==
  ASSUME NEW w0, NEW w, Keeps(w0, w), NEW p \in Objects, NEW g \in GameIds
  PROVE  Keeps(w0, create_game(w, p, g))
<1> DEFINE u == forgive(w, p)
           v == construct_game(u, g, p)
<1>1. Keeps(w0, u)
  BY ForgiveKeeps
<1> HIDE DEF u
<1>2. Keeps(w0, v)
  <2>1. Keeps(w0, [u EXCEPT !.player[p].state = "IN_LOBBY"])
    BY <1>1, PlayerFields DEF PlayerState
  <2>2. Keeps(w0, [u EXCEPT !.player[p].state = "IN_LOBBY", !.player[p].score = 0])
    BY <2>1, PlayerFields
  <2> QED
    BY <2>2, GameKeeps, NewTypes, 0 \in Nat DEF construct_game
<1> HIDE DEF v
<1>3. Keeps(w0, [v EXCEPT !.player[p].game = g])
  BY <1>2, PlayerFields
<1>4. [v EXCEPT !.player[p].game = g].games \cup {g} \in SUBSET GameIds
  BY <1>3, KeepsType, WorldFields
<1>5. Keeps(w0, [v EXCEPT !.player[p].game = g, !.games = @ \cup {g}])
  BY <1>3, <1>4, MemoryFields
<1> QED
  BY <1>5, ErrorKeeps DEF create_game, v, u

LEMMA JoinGameKeeps ==
  ASSUME NEW w0, NEW w, Keeps(w0, w), NEW p \in Objects, NEW g \in GameIds
  PROVE  Keeps(w0, join_game(w, p, g))
<1> DEFINE v == take_seat(forgive(w, p), g, p)
           q == get_opponent(v, g, p)
<1>1. Keeps(w0, v)
  BY ForgiveKeeps, TakeSeatKeeps
<1>2. q \in Objects \cup {nullptr}
  BY <1>1, KeepsType, OpponentType
<1>3. "JOIN_GAME" \in Notice
  BY DEF Notice
<1>4. q # nullptr => Keeps(w0, Notify(v, "JOIN_GAME", q))
  BY <1>1, <1>2, <1>3, MemoryFields
<1>5. Keeps(w0, Crash(v))
  BY <1>1, MemoryFields
<1> QED
  BY <1>4, <1>5, ErrorKeeps DEF join_game

LEMMA ListGamesKeeps ==
  ASSUME NEW w0, NEW w, Keeps(w0, w), NEW p \in Objects
  PROVE  Keeps(w0, list_games(w, p))
BY MemoryFields, ErrorKeeps, ForgiveKeeps DEF list_games

LEMMA LeaveLobbyKeeps ==
  ASSUME NEW w0, NEW w, Keeps(w0, w), NEW p \in Objects, NEW g \in GameIds
  PROVE  Keeps(w0, leave_lobby(w, p, g))
<1>1. Keeps(w0, [w EXCEPT !.game[g].player1 = nullptr])
  BY GameFields
<1> QED
  BY <1>1, PlayerFields DEF leave_lobby, PlayerState

LEMMA LeaveMatchKeeps ==
  ASSUME NEW w0, NEW w, Keeps(w0, w), NEW p \in Objects, NEW g \in GameIds
  PROVE  Keeps(w0, leave_match(w, p, g))
<1> DEFINE q  == get_opponent(w, g, p)
           v1 == IF Present(w, q) THEN game_status(w, AtSocketOf(w, q)) ELSE w
           u  == free_seat(v1, g, p)
           v2 == [u EXCEPT !.player[p].game = nullptr,
                           !.player[p].state = "IN_MAIN_MENU",
                           !.player[p].can_play = FALSE]
           v3 == Notify(v2, "LEAVE_GAME_OPPONENT", q)
           v4 == [v3 EXCEPT !.game[g].state = "FINISHED", !.game[g].game_over = FALSE]
<1>1. q \in Objects \cup {nullptr}
  BY KeepsType, OpponentType
<1> HIDE DEF q
<1>2. Keeps(w0, v1)
  BY KeepsType, AtSocketType, GameStatusKeeps
<1> HIDE DEF v1
<1>3. Keeps(w0, u)
  BY <1>2, FreeSeatKeeps
<1> HIDE DEF u
<1>4. Keeps(w0, v2)
  <2>1. Keeps(w0, [u EXCEPT !.player[p].game = nullptr])
    BY <1>3, PlayerFields
  <2>2. Keeps(w0, [u EXCEPT !.player[p].game = nullptr,
                  !.player[p].state = "IN_MAIN_MENU"])
    BY <2>1, PlayerFields DEF PlayerState
  <2> QED
    BY <2>2, PlayerFields
<1> HIDE DEF v2
<1>5. CASE ~Present(v2, q)
  BY <1>4, <1>5 DEF leave_match, q, v1, u, v2
<1>6. CASE Present(v2, q)
  <2>1. q \in Objects /\ "LEAVE_GAME_OPPONENT" \in Notice
    BY <1>1, <1>6 DEF Present, Notice
  <2>2. Keeps(w0, v3)
    BY <1>4, <2>1, MemoryFields
  <2> HIDE DEF v3
  <2>3. Keeps(w0, v4)
    <3>1. Keeps(w0, [v3 EXCEPT !.game[g].state = "FINISHED"])
      BY <2>2, GameFields DEF GameState
    <3> QED
      BY <3>1, GameFields
  <2> HIDE DEF v4
  <2>4. Keeps(w0, game_over(v4, AtSocketOf(v4, q)))
    BY <2>3, KeepsType, AtSocketType, GameOverKeeps
  <2> QED
    BY <1>6, <2>2, <2>4 DEF leave_match, q, v1, u, v2, v3, v4
<1> QED
  BY <1>5, <1>6

LEMMA LeaveGameKeeps ==
  ASSUME NEW w0, NEW w, Keeps(w0, w), NEW p \in Objects
  PROVE  Keeps(w0, leave_game(w, p))
<1> DEFINE g == w.player[p].game
<1>1. g \in GameIds \cup {nullptr}
  BY KeepsType, WorldFields DEF Player
<1>2. g # nullptr => /\ Keeps(w0, leave_lobby(forgive(w, p), p, g))
                     /\ Keeps(w0, leave_match(forgive(w, p), p, g))
  BY <1>1, ForgiveKeeps, LeaveLobbyKeeps, LeaveMatchKeeps
<1>3. Keeps(w0, Crash(w))
  BY MemoryFields
<1> QED
  BY <1>2, <1>3, ErrorKeeps DEF leave_game

LEMMA LogoutKeeps ==
  ASSUME NEW w0, NEW w, Keeps(w0, w), NEW p \in Objects
  PROVE  Keeps(w0, logout(w, p))
BY LeaveGameKeeps, EraseKeeps DEF logout

LEMMA TakeOverSeatKeeps ==
  ASSUME NEW w0, NEW w, Keeps(w0, w), NEW g \in GameIds, NEW p \in Objects, NEW q
  PROVE  Keeps(w0, take_over_seat(w, g, p, q))
<1> DEFINE state == IF w.game[g].state = "WAITING_FOR_PLAYERS" THEN "IN_LOBBY"
                                                              ELSE "IN_GAME"
           v1 == [w EXCEPT !.game[g].paused = FALSE]
           v2 == [v1 EXCEPT !.player[p].state = state]
<1>1. Keeps(w0, v1)
  BY GameFields
<1>2. state \in PlayerState \ {"DISCONNECTED"}
  BY DEF PlayerState
<1> HIDE DEF v1, state
<1>3. Keeps(w0, v2)
  BY <1>1, <1>2, PlayerFields
<1> HIDE DEF v2
<1>4. /\ Keeps(w0, [v2 EXCEPT !.game[g].player1 = p])
      /\ Keeps(w0, [v2 EXCEPT !.game[g].player2 = p])
  BY <1>3, GameFields
<1> QED
  BY <1>4 DEF take_over_seat, v1, v2, state

LEMMA RerollKeeps ==
  ASSUME NEW w0, NEW w, Keeps(w0, w), NEW p \in Objects, NEW result
  PROVE  Keeps(w0, reroll(w, p, result))
<1> DEFINE u == forgive(w, p)
           v == reroll_hand(u, p, result)
           g == w.player[p].game
           q == get_opponent(v, g, p)
<1>1. Keeps(w0, u) /\ u.player[p].game = g
  <2>1. u.player = [w.player EXCEPT ![p].number_of_error_messages = 0]
    BY KeepsType DEF forgive, World
  <2>2. w.player \in [Objects -> Player]
    BY KeepsType, WorldFields
  <2>3. u.player[p] = [w.player[p] EXCEPT !.number_of_error_messages = 0]
    BY <2>1, <2>2
  <2>4. u.player[p].game = g
    BY <2>2, <2>3 DEF Player
  <2> QED
    BY <2>4, ForgiveKeeps
<1>2. g \in GameIds \cup {nullptr}
  BY KeepsType, WorldFields DEF Player
<1> HIDE DEF u, g
<1>3. Keeps(w0, v)
  BY <1>1, RerollHandKeeps
<1>4. g = nullptr => v.crashed
  <2> DEFINE z == [u EXCEPT !.player[p].can_play = FALSE]
  <2>1. Keeps(w0, z)
    BY <1>1, PlayerFields
  <2>2. Keeps(w0, z) => Crash(z).crashed
    BY DEF Crash, World
  <2>3. g = nullptr => v = Crash(z)
    BY <1>1 DEF reroll_hand, check_dereferences_null
  <2> HIDE DEF z, v
  <2> QED
    BY <2>1, <2>2, <2>3
<1> HIDE DEF v
<1>5. g # nullptr => q \in Objects \cup {nullptr}
  BY <1>2, <1>3, KeepsType, OpponentType
<1>6. g # nullptr /\ q # nullptr => Keeps(w0, Notify(v, "REROLL_OPPONENT", q))
  BY <1>3, <1>5, MemoryFields DEF Notice
<1>7. Keeps(w0, Crash(v))
  BY <1>3, MemoryFields
<1> QED
  BY <1>3, <1>4, <1>6, <1>7, ErrorKeeps DEF reroll, u, v, g

LEMMA AcceptEndOfRoundKeeps ==
  ASSUME NEW w0, NEW w, Keeps(w0, w), NEW p \in Objects
  PROVE  Keeps(w0, accept_end_of_round(w, p))
<1> DEFINE g == w.player[p].game
           v == [forgive(w, p) EXCEPT !.player[p].accepted_end_of_round = TRUE]
<1>1. Keeps(w0, v)
  BY ForgiveKeeps, PlayerFields
<1>2. g \in GameIds \cup {nullptr}
  BY KeepsType, WorldFields DEF Player
<1>3. g # nullptr => Keeps(w0, start_round(v, g))
  BY <1>1, <1>2, StartRoundKeeps
<1>4. Keeps(w0, Crash(w))
  BY MemoryFields
<1> QED
  BY <1>1, <1>3, <1>4, ErrorKeeps DEF accept_end_of_round

LEMMA TellKeeps ==
  ASSUME NEW w0, NEW w, Keeps(w0, w), NEW p \in Objects \cup {nullptr}
  PROVE  Keeps(w0, tell_status(w, p)) /\ Keeps(w0, tell_verdict(w, p))
BY KeepsType, AtSocketType, GameStatusKeeps, GameOverKeeps DEF tell_status, tell_verdict

LEMMA SeatTypes ==
  ASSUME NEW w0, NEW w, Keeps(w0, w), NEW g \in GameIds
  PROVE  /\ w.game[g].player1 \in Objects \cup {nullptr}
         /\ w.game[g].player2 \in Objects \cup {nullptr}
BY KeepsType, WorldFields DEF Game

LEMMA TellBothKeeps ==
  ASSUME NEW w0, NEW w, Keeps(w0, w), NEW g \in GameIds
  PROVE  Keeps(w0, tell_both(w, g))
BY KeepsType, SeatTypes, TellKeeps DEF tell_both

LEMMA AnnounceGameOverKeeps ==
  ASSUME NEW w0, NEW w, Keeps(w0, w), NEW g \in GameIds
  PROVE  Keeps(w0, announce_game_over(w, g))
<1> DEFINE v == tell_both([w EXCEPT !.game[g].game_over = FALSE], g)
<1>1. Keeps(w0, v)
  BY GameFields, TellBothKeeps
<1> HIDE DEF v
<1>2. Keeps(w0, tell_verdict(tell_verdict(v, w.game[g].player1), w.game[g].player2))
  BY <1>1, KeepsType, SeatTypes, TellKeeps
<1> QED
  BY <1>2 DEF announce_game_over, v

LEMMA DeleteKeeps ==
  ASSUME NEW w0, NEW w, Keeps(w0, w)
  PROVE  Keeps(w0, delete_empty_games(w))
BY KeepsType, WorldFields, MemoryFields DEF delete_empty_games

-----------------------------------------------------------------------------
(* The inductive invariant, of a world.  That names are unique is not      *)
(* inductive alone: RECONNECT takes a name over from an entry of           *)
(* disconnected_players, so that entry has to be the player's only one and *)
(* the player may not be in the vector players as well.                    *)

OneOwner(w) ==
  \A p \in w.players :
    /\ w.player[p].state # "DISCONNECTED"
    /\ \A q \in w.players : w.player[p].socket = w.player[q].socket => p = q

OneSession(w) ==
  \A p, q \in Known(w) :
    w.player[p].name = w.player[q].name /\ w.player[p].name # NoName => p = q

\* A player is connected or dropped, never both.
Apart(w) == \A p \in w.players : p \notin Dropped(w)

\* A player dropped once.
OneEntry(w) ==
  \A i, j \in DOMAIN w.disconnected_players :
    w.disconnected_players[i] = w.disconnected_players[j] => i = j

Sound(w) == w \in World /\ OneOwner(w) /\ OneSession(w) /\ Apart(w) /\ OneEntry(w)

\* A step that connects and drops nobody and gives one player p at most a name
\* nobody has keeps a world sound.
LEMMA SoundStep ==
  ASSUME NEW w, Sound(w), NEW v \in World, NEW p,
         v.players \subseteq w.players, Dropped(v) \subseteq Dropped(w), OneEntry(v),
         \A o \in Objects :
           /\ v.player[o].socket = w.player[o].socket
           /\ v.player[o].state = "DISCONNECTED" => w.player[o].state = "DISCONNECTED"
           /\ o # p => v.player[o].name = w.player[o].name,
         \A o \in Known(v) \ {p} :
           v.player[p].name # NoName => v.player[p].name # w.player[o].name
  PROVE  Sound(v)
<1>1. v.players \subseteq Objects /\ Dropped(v) \subseteq Objects
  BY WorldFields, LenProperties DEF Dropped
<1>2. Known(v) \subseteq Known(w) /\ Known(v) \subseteq Objects
  BY <1>1 DEF Known
<1>3. OneOwner(v)
  BY <1>1 DEF Sound, OneOwner
<1>4. OneSession(v)
  BY <1>2 DEF Sound, OneSession
<1>5. Apart(v)
  BY DEF Sound, Apart
<1> QED
  BY <1>3, <1>4, <1>5 DEF Sound

LEMMA KeepsSound ==
  ASSUME NEW w, Sound(w), NEW v, Keeps(w, v)
  PROVE  Sound(v)
<1>1. v \in World
  BY KeepsType
<1>2. Dropped(v) = Dropped(w) /\ Known(v) \subseteq Known(w)
  BY DEF Keeps, Dropped, Known
<1>3. v.players \subseteq Objects /\ Known(v) \subseteq Objects
  BY <1>1, WorldFields, LenProperties DEF Known, Dropped
<1>4. OneOwner(v)
  BY <1>3 DEF Sound, OneOwner, Keeps
<1>5. OneSession(v)
  BY <1>2, <1>3 DEF Sound, OneSession, Keeps
<1>6. Apart(v) /\ OneEntry(v)
  BY <1>2 DEF Sound, Apart, OneEntry, Keeps
<1> QED
  BY <1>1, <1>4, <1>5, <1>6 DEF Sound

LEMMA InitWorldSound == Sound(InitWorld)
<1>1. /\ InitWorld.players = {} /\ InitWorld.disconnected_players = << >>
      /\ Known(InitWorld) = {}
  BY DEF InitWorld, Known, Dropped
<1> QED
  BY <1>1, InitWorldType DEF Sound, OneOwner, OneSession, Apart, OneEntry

-----------------------------------------------------------------------------
(* The handlers that give a name, drop a player or bring one back.         *)

LEMMA LoginSound ==
  ASSUME NEW w, Sound(w), NEW p \in Objects, NEW name \in Names
  PROVE  Sound(login(w, p, name))
<1> DEFINE u == forgive(w, p)
           r == [u.player[p] EXCEPT !.name = name, !.logged_in = TRUE]
           v == [u EXCEPT !.player[p] = r]
<1>0. w \in World
  BY DEF Sound
<1>1. CASE w.player[p].logged_in
  BY <1>0, <1>1, ErrorKeeps, KeepsSelf, KeepsSound DEF login
<1>2. CASE ~w.player[p].logged_in /\ is_name_taken(w, name)
  BY <1>2 DEF login
<1>3. CASE ~w.player[p].logged_in /\ ~is_name_taken(w, name)
  <2>1. Keeps(w, u)
    BY <1>0, ForgiveKeeps, KeepsSelf
  <2>2. Sound(u)
    BY <2>1, KeepsSound
  <2>3. u \in World /\ u.player \in [Objects -> Player]
    BY <2>2, WorldFields DEF Sound
  <2>4. \A o \in Known(u) : u.player[o].name # name
    <3>1. Known(u) \subseteq Known(w) /\ Known(u) \subseteq Objects
      BY <2>1, <2>3, WorldFields, LenProperties DEF Keeps, Known, Dropped
    <3> QED
      BY <1>3, <2>1, <3>1 DEF is_name_taken, Keeps
  <2> HIDE DEF u
  <2>5. /\ r \in Player /\ r.name = name
        /\ r.socket = u.player[p].socket /\ r.state = u.player[p].state
    BY <2>3 DEF Player
  <2> HIDE DEF r
  <2>6. v \in World
    BY <2>3, <2>5, SetPlayer
  <2>7. /\ v.players = u.players /\ v.disconnected_players = u.disconnected_players
        /\ v.player = [u.player EXCEPT ![p] = r]
    BY <2>3 DEF World
  <2> HIDE DEF v
  <2>8. Known(v) = Known(u) /\ Dropped(v) = Dropped(u)
    BY <2>7 DEF Known, Dropped
  <2>9. OneEntry(v)
    BY <2>2, <2>7 DEF Sound, OneEntry
  <2>10. \A o \in Objects : v.player[o] = IF o = p THEN r ELSE u.player[o]
    BY <2>3, <2>7
  <2>11. \A o \in Objects :
           /\ v.player[o].socket = u.player[o].socket
           /\ v.player[o].state = u.player[o].state
           /\ o # p => v.player[o].name = u.player[o].name
    BY <2>5, <2>10
  <2>12. \A o \in Known(v) : v.player[p].name # u.player[o].name
    BY <2>4, <2>5, <2>8, <2>10
  <2>13. v.players \subseteq u.players /\ Dropped(v) \subseteq Dropped(u)
    BY <2>7, <2>8
  <2>14. Sound(v)
    BY <2>2, <2>6, <2>9, <2>11, <2>12, <2>13, SoundStep
  <2> QED
    BY <1>3, <2>14 DEF login, u, r, v
<1> QED
  BY <1>1, <1>2, <1>3

LEMMA WithoutEntryProperties ==
  ASSUME NEW s \in Seq(Objects), NEW k \in DOMAIN s
  PROVE  /\ WithoutEntry(s, k) \in Seq(Objects)
         /\ Len(WithoutEntry(s, k)) = Len(s) - 1
         /\ \A i \in 1 .. Len(s) - 1 :
              WithoutEntry(s, k)[i] = s[IF i < k THEN i ELSE i + 1]
<1> DEFINE a == SubSeq(s, 1, k - 1)
           b == SubSeq(s, k + 1, Len(s))
<1>1. k \in 1 .. Len(s) /\ Len(s) \in Nat /\ \A i \in 1 .. Len(s) : s[i] \in Objects
  BY LenProperties
<1>2. /\ a \in Seq(Objects) /\ Len(a) = k - 1
      /\ \A i \in 1 .. k - 1 : a[i] = s[i]
  BY <1>1, SubSeqProperties
<1>3. /\ b \in Seq(Objects) /\ Len(b) = Len(s) - k
      /\ \A i \in 1 .. Len(s) - k : b[i] = s[k + i]
  BY <1>1, SubSeqProperties
<1> HIDE DEF a, b
<1>4. /\ a \o b \in Seq(Objects)
      /\ Len(a \o b) = Len(a) + Len(b)
      /\ \A i \in 1 .. Len(a) + Len(b) :
           (a \o b)[i] = IF i <= Len(a) THEN a[i] ELSE b[i - Len(a)]
  BY <1>2, <1>3, ConcatProperties
<1>5. Len(a) + Len(b) = Len(s) - 1
  BY <1>1, <1>2, <1>3
<1>6. ASSUME NEW i \in 1 .. Len(s) - 1
      PROVE  (a \o b)[i] = s[IF i < k THEN i ELSE i + 1]
  <2>1. CASE i < k
    <3>1. i \in 1 .. k - 1 /\ i <= Len(a)
      BY <1>1, <1>2, <2>1
    <3> QED
      BY <1>2, <1>4, <1>5, <2>1, <3>1
  <2>2. CASE ~(i < k)
    <3>1. /\ i - Len(a) \in 1 .. Len(s) - k /\ ~(i <= Len(a))
          /\ k + (i - Len(a)) = i + 1
      BY <1>1, <1>2, <2>2
    <3>2. b[i - Len(a)] = s[i + 1]
      BY <1>3, <3>1
    <3> QED
      BY <1>4, <1>5, <2>2, <3>1, <3>2
  <2> QED
    BY <2>1, <2>2
<1> QED
  BY <1>4, <1>5, <1>6 DEF WithoutEntry, a, b

LEMMA CopySessionCopies ==
  ASSUME NEW w \in World, NEW p \in Objects, NEW q \in Objects
  PROVE  LET c == copy_session(w, p, q) IN
           /\ c \in World
           /\ c.players = w.players
           /\ c.disconnected_players = w.disconnected_players
           /\ \A o \in Objects :
                /\ c.player[o].socket = w.player[o].socket
                /\ c.player[o].state = w.player[o].state
                /\ c.player[o].name = IF o = p THEN w.player[q].name ELSE w.player[o].name
<1> DEFINE u == forgive(w, p)
           r == [u.player[p] EXCEPT
                   !.name = w.player[q].name, !.game = w.player[q].game,
                   !.score = w.player[q].score, !.can_play = w.player[q].can_play,
                   !.logged_in = TRUE,
                   !.accepted_end_of_round = w.player[q].accepted_end_of_round]
           c == [u EXCEPT !.player[p] = r]
<1>1. u \in World /\ w.player \in [Objects -> Player]
  BY ForgiveKeeps, KeepsSelf, KeepsType, WorldFields
<1>2. /\ u.players = w.players /\ u.disconnected_players = w.disconnected_players
      /\ u.player = [w.player EXCEPT ![p].number_of_error_messages = 0]
  BY DEF forgive, World
<1> HIDE DEF u
<1>3. \A o \in Objects : /\ u.player[o] \in Player
                         /\ u.player[o].socket = w.player[o].socket
                         /\ u.player[o].state = w.player[o].state
                         /\ u.player[o].name = w.player[o].name
  BY <1>1, <1>2 DEF Player
<1>4. u.player[p] \in Player /\ w.player[q] \in Player
  BY <1>1, <1>3
<1>5. /\ r \in Player /\ r.name = w.player[q].name
      /\ r.socket = u.player[p].socket /\ r.state = u.player[p].state
  BY <1>4 DEF Player
<1> HIDE DEF r
<1>6. c \in World
  BY <1>1, <1>5, SetPlayer
<1>7. /\ c.players = u.players /\ c.disconnected_players = u.disconnected_players
      /\ c.player = [u.player EXCEPT ![p] = r] /\ u.player \in [Objects -> Player]
  BY <1>1 DEF World
<1>8. c = copy_session(w, p, q)
  BY DEF copy_session, c, u, r
<1> HIDE DEF c
<1>9. \A o \in Objects : c.player[o] = IF o = p THEN r ELSE u.player[o]
  BY <1>7
<1>10. \A o \in Objects :
         /\ c.player[o].socket = w.player[o].socket
         /\ c.player[o].state = w.player[o].state
         /\ c.player[o].name = IF o = p THEN w.player[q].name ELSE w.player[o].name
  BY <1>3, <1>5, <1>9
<1> QED
  BY <1>2, <1>6, <1>7, <1>8, <1>10

LEMMA RestoreSessionSound ==
  ASSUME NEW w, Sound(w), NEW p \in w.players, NEW k \in DOMAIN w.disconnected_players
  PROVE  Sound(restore_session(w, p, k))
<1> DEFINE s == w.disconnected_players
           q == s[k]
           g == w.player[q].game
           c == copy_session(w, p, q)
           v == [c EXCEPT !.disconnected_players = WithoutEntry(@, k)]
           u == take_over_seat(v, g, p, q)
           o == get_opponent(u, g, p)
<1>0. w \in World /\ p \in Objects
  BY WorldFields DEF Sound
<1>1. s \in Seq(Objects) /\ q \in Objects
  BY <1>0, WorldFields, LenProperties
<1>2. g \in GameIds \cup {nullptr}
  BY <1>0, <1>1, WorldFields DEF Player
<1> HIDE DEF q, g
<1>3. /\ c \in World /\ c.players = w.players /\ c.disconnected_players = s
      /\ \A x \in Objects :
           /\ c.player[x].socket = w.player[x].socket
           /\ c.player[x].state = w.player[x].state
           /\ c.player[x].name = IF x = p THEN w.player[q].name ELSE w.player[x].name
  BY <1>0, <1>1, CopySessionCopies
<1> HIDE DEF c
<1> USE DEF q
<1>4. Sound(v)
  <2> DEFINE t == WithoutEntry(s, k)
  <2>1. /\ t \in Seq(Objects) /\ Len(t) = Len(s) - 1
        /\ \A i \in 1 .. Len(s) - 1 : t[i] = s[IF i < k THEN i ELSE i + 1]
    BY <1>1, WithoutEntryProperties
  <2>2. DOMAIN s = 1 .. Len(s) /\ Len(s) \in Nat /\ k \in 1 .. Len(s)
    BY <1>1, LenProperties
  <2>3. DOMAIN t = 1 .. Len(s) - 1
    BY <2>1, LenProperties
  <2> HIDE DEF t
  <2>4. \A i, j \in DOMAIN s : s[i] = s[j] => i = j
    BY DEF Sound, OneEntry
  <2>5. \A i, j \in DOMAIN t : t[i] = t[j] => i = j
    <3>1. ASSUME NEW i \in DOMAIN t, NEW j \in DOMAIN t, t[i] = t[j]
          PROVE  i = j
      <4> DEFINE i1 == IF i < k THEN i ELSE i + 1
                 j1 == IF j < k THEN j ELSE j + 1
      <4>1. i1 \in DOMAIN s /\ j1 \in DOMAIN s /\ i \in Int /\ j \in Int
        BY <2>2, <2>3
      <4>2. s[i1] = s[j1]
        BY <2>1, <2>3, <3>1
      <4>3. i1 = j1
        BY <2>4, <4>1, <4>2
      <4> QED
        BY <2>2, <4>1, <4>3
    <3> QED
      BY <3>1
  <2>6. \A i \in DOMAIN t : t[i] \in Dropped(w) /\ t[i] # q
    <3> SUFFICES ASSUME NEW i \in DOMAIN t
                 PROVE  t[i] \in Dropped(w) /\ t[i] # q
      OBVIOUS
    <3> DEFINE i1 == IF i < k THEN i ELSE i + 1
    <3>1. i1 \in DOMAIN s /\ i1 # k
      BY <2>2, <2>3
    <3>2. t[i] = s[i1]
      BY <2>1, <2>3
    <3> QED
      BY <2>2, <2>4, <3>1, <3>2 DEF Dropped
  <2>7. v \in World
    BY <1>3, <2>1, SetVectors DEF t
  <2>8. v.players = w.players /\ v.disconnected_players = t /\ v.player = c.player
    BY <1>3 DEF World, t
  <2> HIDE DEF v
  <2>9. Dropped(v) \subseteq Dropped(w) \ {q}
    BY <2>6, <2>8 DEF Dropped
  <2>10. OneEntry(v)
    BY <2>5, <2>8 DEF OneEntry
  <2>11. q \in Dropped(w)
    BY DEF Dropped
  <2>12. Known(v) \subseteq Known(w) \ {q}
    BY <2>8, <2>9, <2>11 DEF Known, Sound, Apart
  <2>13. v.player[p].name = w.player[q].name
    BY <1>0, <1>3, <2>8
  <2>14. \A x \in Known(v) \ {p} :
           v.player[p].name # NoName => v.player[p].name # w.player[x].name
    BY <2>11, <2>12, <2>13 DEF Known, Sound, OneSession
  <2>15. \A x \in Objects :
           /\ v.player[x].socket = w.player[x].socket
           /\ v.player[x].state = "DISCONNECTED" => w.player[x].state = "DISCONNECTED"
           /\ x # p => v.player[x].name = w.player[x].name
    BY <1>3, <2>8
  <2>16. v.players \subseteq w.players /\ Dropped(v) \subseteq Dropped(w)
    BY <2>8, <2>9
  <2> QED
    BY <2>7, <2>10, <2>14, <2>15, <2>16, SoundStep
<1> HIDE DEF q
<1>5. v \in World /\ Keeps(v, v)
  BY <1>4, KeepsSelf DEF Sound
<1> HIDE DEF v
<1>6. Keeps(v, restore_session(w, p, k))
  <2>1. CASE g = nullptr
    BY <1>0, <1>5, <2>1, PlayerFields DEF restore_session, PlayerState, v, c, g, q, s
  <2>2. CASE g # nullptr
    <3>1. Keeps(v, u)
      BY <1>0, <1>2, <1>5, <2>2, TakeOverSeatKeeps
    <3>2. o \in Objects \cup {nullptr}
      BY <1>2, <2>2, <3>1, KeepsType, OpponentType
    <3> HIDE DEF u, o
    <3>3. Keeps(v, leave_game(u, p))
      BY <1>0, <3>1, LeaveGameKeeps
    <3>4. o # nullptr => Keeps(v, game_status(Notify(u, "OPPONENT_RECONNECTED", o), p))
      BY <1>0, <3>1, <3>2, MemoryFields, GameStatusKeeps DEF Notice
    <3> QED
      BY <2>2, <3>3, <3>4 DEF restore_session, v, c, g, q, s, u, o
  <2> QED
    BY <2>1, <2>2
<1> QED
  BY <1>4, <1>6, KeepsSound

LEMMA ReconnectSound ==
  ASSUME NEW w, Sound(w), NEW p \in w.players, NEW name
  PROVE  Sound(reconnect(w, p, name))
<1>1. DroppedAs(w, name) # {} =>
        (CHOOSE k \in DroppedAs(w, name) : TRUE) \in DOMAIN w.disconnected_players
  BY DEF DroppedAs
<1>2. Sound(player_error_message_inc(w, p))
  BY WorldFields, KeepsSelf, ErrorKeeps, KeepsSound DEF Sound
<1> QED
  BY <1>1, <1>2, RestoreSessionSound DEF reconnect

LEMMA DropSound ==
  ASSUME NEW w, Sound(w), NEW p \in w.players
  PROVE  Sound(drop(w, p))
<1> DEFINE s == w.disconnected_players
           g == w.player[p].game
           r == [w.player[p] EXCEPT !.logged_in = FALSE, !.state = "DISCONNECTED"]
           x == [w EXCEPT !.player[p] = r]
           v == [x EXCEPT !.disconnected_players = Append(@, p)]
           u == [v EXCEPT !.game[g].paused = TRUE]
           q == get_opponent(u, g, p)
           z == IF g = nullptr THEN v
                ELSE IF Present(u, q) THEN Notify(u, "OPPONENT_DISCONNECTED", q) ELSE u
<1>0. w \in World /\ p \in Objects
  BY WorldFields DEF Sound
<1>1. g \in GameIds \cup {nullptr} /\ w.player[p] \in Player
  BY <1>0, WorldFields DEF Player
<1>2. /\ r \in Player /\ r.state = "DISCONNECTED"
      /\ r.socket = w.player[p].socket /\ r.name = w.player[p].name
  BY <1>1 DEF Player, PlayerState
<1> HIDE DEF g, r
<1>3. x \in World /\ x.disconnected_players = s /\ s \in Seq(Objects)
  BY <1>0, <1>2, SetPlayer DEF World
<1>4. Append(s, p) \in Seq(Objects)
  BY <1>0, <1>3, AppendProperties
<1>5. v \in World
  BY <1>3, <1>4, SetVectors
<1>6. /\ v.players = w.players /\ v.disconnected_players = Append(s, p)
      /\ v.player = [w.player EXCEPT ![p] = r] /\ w.player \in [Objects -> Player]
  BY <1>0 DEF World
<1>7. drop(w, p) = erase(z, p)
  BY DEF drop, g, r
<1> HIDE DEF v
<1>8. \A o \in Objects :
        /\ v.player[o].socket = w.player[o].socket
        /\ v.player[o].name = w.player[o].name
        /\ o # p => v.player[o].state = w.player[o].state
  BY <1>2, <1>6
<1>9. Keeps(v, z)
  <2>1. Keeps(v, v)
    BY <1>5, KeepsSelf
  <2>2. CASE g = nullptr
    BY <2>1, <2>2
  <2>3. CASE g # nullptr
    <3>1. Keeps(v, u)
      BY <1>1, <2>1, <2>3, GameFields
    <3>2. q \in Objects \cup {nullptr}
      BY <1>1, <2>3, <3>1, KeepsType, OpponentType
    <3> HIDE DEF u, q
    <3>3. Present(u, q) => Keeps(v, Notify(u, "OPPONENT_DISCONNECTED", q))
      BY <3>1, <3>2, MemoryFields DEF Present, Notice
    <3> QED
      BY <2>3, <3>1, <3>3
  <2> QED
    BY <2>2, <2>3
<1> DEFINE e == erase(z, p)
<1>10. Keeps(v, e)
  BY <1>9, EraseKeeps
<1>11. p \notin e.players
  BY <1>9, KeepsType DEF erase, World
<1> HIDE DEF z, e
<1>12. e.players \subseteq w.players \ {p} /\ e.disconnected_players = Append(s, p)
  BY <1>6, <1>10, <1>11 DEF Keeps
<1>13. /\ Len(s) \in Nat /\ DOMAIN s = 1 .. Len(s)
       /\ DOMAIN Append(s, p) = 1 .. Len(s) + 1
       /\ \A i \in 1 .. Len(s) : Append(s, p)[i] = s[i]
       /\ Append(s, p)[Len(s) + 1] = p
  BY <1>0, <1>3, <1>4, AppendProperties, LenProperties
<1>14. p \notin Dropped(w)
  BY DEF Sound, Apart
<1>15. Dropped(e) \subseteq Dropped(w) \cup {p}
  <2>1. ASSUME NEW i \in DOMAIN Append(s, p)
        PROVE  Append(s, p)[i] \in Dropped(w) \cup {p}
    <3>1. i \in 1 .. Len(s) \/ i = Len(s) + 1
      BY <1>13
    <3> QED
      BY <1>13, <3>1 DEF Dropped
  <2> QED
    BY <1>12, <2>1 DEF Dropped
<1>16. Known(e) \subseteq Known(w) /\ Known(w) \subseteq Objects
  <2>1. Known(w) \subseteq Objects
    BY <1>0, WorldFields, LenProperties DEF Known, Dropped
  <2> QED
    BY <1>12, <1>15, <2>1 DEF Known
<1>17. \A o \in Objects :
         /\ e.player[o].socket = w.player[o].socket
         /\ e.player[o].name = w.player[o].name
         /\ o # p /\ e.player[o].state = "DISCONNECTED" => w.player[o].state = "DISCONNECTED"
  BY <1>8, <1>10 DEF Keeps
<1>18. OneOwner(e)
  BY <1>12, <1>16, <1>17 DEF Sound, OneOwner, Known
<1>19. OneSession(e)
  BY <1>16, <1>17 DEF Sound, OneSession
<1>20. Apart(e)
  BY <1>12, <1>15 DEF Sound, Apart
<1>21. OneEntry(e)
  <2>1. \A i, j \in DOMAIN s : s[i] = s[j] => i = j
    BY DEF Sound, OneEntry
  <2>2. \A i \in DOMAIN s : s[i] # p
    BY <1>14 DEF Dropped
  <2> SUFFICES ASSUME NEW i \in 1 .. Len(s) + 1, NEW j \in 1 .. Len(s) + 1,
                      Append(s, p)[i] = Append(s, p)[j]
               PROVE  i = j
    BY <1>12, <1>13 DEF OneEntry
  <2>3. (i \in 1 .. Len(s) \/ i = Len(s) + 1) /\ (j \in 1 .. Len(s) \/ j = Len(s) + 1)
    BY <1>13
  <2> QED
    BY <1>13, <2>1, <2>2, <2>3
<1> QED
  BY <1>7, <1>10, <1>18, <1>19, <1>20, <1>21, KeepsType DEF Sound, e

-----------------------------------------------------------------------------
(* The loop.                                                               *)

LEMMA TimeOutSound ==
  ASSUME NEW w, Sound(w), w.disconnected_players # << >>
  PROVE  Sound(time_out(w))
<1> DEFINE s  == w.disconnected_players
           p  == Head(s)
           g  == w.player[p].game
           v1 == [w EXCEPT !.disconnected_players = Tail(@)]
           x1 == [v1 EXCEPT !.game[g].paused = FALSE]
           x2 == [x1 EXCEPT !.game[g].game_over = FALSE]
           v2 == [x2 EXCEPT !.game[g].state = "FINISHED"]
           q  == get_opponent(v2, g, p)
           v3 == free_seat(tell_status(v2, q), g, p)
<1>0. w \in World /\ s \in Seq(Objects) /\ s # << >>
  BY WorldFields DEF Sound
<1>1. /\ p \in Objects /\ Tail(s) \in Seq(Objects) /\ Len(Tail(s)) = Len(s) - 1
      /\ \A i \in 1 .. Len(Tail(s)) : Tail(s)[i] = s[i + 1]
      /\ Len(s) \in Nat /\ DOMAIN s = 1 .. Len(s)
      /\ DOMAIN Tail(s) = 1 .. Len(s) - 1
  BY <1>0, HeadTailProperties, LenProperties
<1>2. g \in GameIds \cup {nullptr}
  BY <1>0, <1>1, WorldFields DEF Player
<1> HIDE DEF p, g
<1>3. v1 \in World
  BY <1>0, <1>1, SetVectors
<1>4. /\ v1.players = w.players /\ v1.player = w.player
      /\ v1.disconnected_players = Tail(s)
  BY <1>0 DEF World
<1> HIDE DEF v1
<1>5. Sound(v1)
  <2>1. \A i \in DOMAIN Tail(s) : i + 1 \in DOMAIN s /\ Tail(s)[i] = s[i + 1] /\ i \in Int
    BY <1>1
  <2>2. Dropped(v1) \subseteq Dropped(w)
    BY <1>4, <2>1 DEF Dropped
  <2>3. OneEntry(v1)
    <3>1. \A i, j \in DOMAIN s : s[i] = s[j] => i = j
      BY DEF Sound, OneEntry
    <3>2. ASSUME NEW i \in DOMAIN Tail(s), NEW j \in DOMAIN Tail(s), Tail(s)[i] = Tail(s)[j]
          PROVE  i = j
      <4>1. i + 1 = j + 1
        BY <2>1, <3>1, <3>2
      <4> QED
        BY <2>1, <4>1
    <3> QED
      BY <1>4, <3>2 DEF OneEntry
  <2>4. Known(v1) \subseteq Known(w)
    BY <1>4, <2>2 DEF Known
  <2>5. OneOwner(v1) /\ OneSession(v1) /\ Apart(v1)
    BY <1>4, <2>2, <2>4 DEF Sound, OneOwner, OneSession, Apart
  <2> QED
    BY <1>3, <2>3, <2>5 DEF Sound
<1>6. Keeps(v1, v1)
  BY <1>3, KeepsSelf
<1>7. CASE g = nullptr
  BY <1>5, <1>7 DEF time_out, p, g, v1
<1>8. CASE g # nullptr
  <2>1. Keeps(v1, x1)
    BY <1>2, <1>6, <1>8, GameFields
  <2> HIDE DEF x1
  <2>2. Keeps(v1, x2)
    BY <1>2, <1>8, <2>1, GameFields
  <2> HIDE DEF x2
  <2>3. Keeps(v1, v2)
    BY <1>2, <1>8, <2>2, GameFields DEF GameState
  <2> HIDE DEF v2
  <2>4. q \in Objects \cup {nullptr}
    BY <1>2, <1>8, <2>3, KeepsType, OpponentType
  <2> HIDE DEF q
  <2>5. Keeps(v1, v3)
    BY <1>2, <1>8, <2>3, <2>4, TellKeeps, FreeSeatKeeps
  <2> HIDE DEF v3
  <2>6. Keeps(v1, tell_verdict(v3, q))
    BY <2>4, <2>5, TellKeeps
  <2> QED
    BY <1>5, <1>8, <2>6, KeepsSound DEF time_out, p, g, v1, x1, x2, v2, q, v3
<1> QED
  BY <1>7, <1>8

LEMMA CollectSound ==
  ASSUME NEW w, Sound(w)
  PROVE  Sound(Collect(w))
<1> DEFINE f == [o \in Objects |-> IF o \in Live(w) THEN w.player[o] ELSE NewPlayer(0)]
           h == [g \in GameIds |-> IF g \in LiveGames(w) THEN w.game[g] ELSE NewGame(nullptr)]
           v == [w EXCEPT !.player = f, !.game = h]
<1>0. w \in World
  BY DEF Sound
<1>1. f \in [Objects -> Player]
  BY <1>0, NewTypes, WorldFields, 0 \in Nat
<1>2. h \in [GameIds -> Game]
  BY <1>0, NewTypes, WorldFields, 0 \in Nat
<1>3. \A o \in Known(w) : o \in Objects /\ f[o] = w.player[o]
  BY <1>0, WorldFields, LenProperties DEF Live, Known, Dropped
<1>4. v = Collect(w)
  BY DEF Collect
<1> HIDE DEF f, h
<1>5. v \in World
  BY <1>0, <1>1, <1>2 DEF World
<1>6. /\ v.player = f /\ v.players = w.players
      /\ v.disconnected_players = w.disconnected_players
  BY <1>0 DEF World
<1> HIDE DEF v
<1>7. Known(v) = Known(w) /\ Dropped(v) = Dropped(w)
  BY <1>6 DEF Known, Dropped
<1>8. OneOwner(v)
  BY <1>3, <1>6 DEF Sound, OneOwner, Known
<1>9. OneSession(v)
  BY <1>3, <1>6, <1>7 DEF Sound, OneSession
<1>10. Apart(v) /\ OneEntry(v)
  BY <1>6, <1>7 DEF Sound, Apart, OneEntry
<1> QED
  BY <1>4, <1>5, <1>8, <1>9, <1>10 DEF Sound

LEMMA SettleSound ==
  ASSUME NEW w, Sound(w)
  PROVE  Sound(Settle(w))
<1>1. Sound(Crash(InitWorld))
  BY InitWorldSound, KeepsSelf, MemoryFields, KeepsSound DEF Sound
<1> QED
  BY <1>1, CollectSound DEF Settle

\* The inductive invariant.
Inv == TypeOK /\ Sound(srv)

LEMMA ServedInv ==
  ASSUME Inv, NEW w, Sound(w), NEW fd, Served(fd, w)
  PROVE  Inv'
<1>1. Sound(srv')
  BY SettleSound DEF Served
<1>2. read_fds' \subseteq Nat /\ phase' \in Phase
  BY DEF Served, Inv, TypeOK, Phase
<1>3. (Sound(srv))'
  BY <1>1 DEF Sound, OneOwner, OneSession, Apart, OneEntry, Known, Dropped
<1> QED
  BY <1>1, <1>2, <1>3 DEF Inv, TypeOK, Sound

LEMMA ServeInv ==
  ASSUME Inv, NEW w, Sound(w), NEW p, Serve(p, w)
  PROVE  Inv'
BY ServedInv DEF Serve

LEMMA SweptInv ==
  ASSUME Inv, NEW w, Sound(w), Swept(w)
  PROVE  Inv'
<1>1. Sound(srv')
  BY SettleSound DEF Swept
<1>2. (Sound(srv))'
  BY <1>1 DEF Sound, OneOwner, OneSession, Apart, OneEntry, Known, Dropped
<1> QED
  BY <1>1, <1>2 DEF Swept, Inv, TypeOK, Sound

\* Next, for player p.
Client(p) ==
  \/ Reject(p) \/ NotANumber(p) \/ TooLong(p) \/ Alive(p) \/ Hello(p)
  \/ \E name \in Names : Login(p, name)
  \/ \E name \in Names \cup {NoName} : Reconnect(p, name)
  \/ OkResponse(p) \/ Logout(p) \/ CreateGame(p)
  \/ \E g \in GameIds : JoinGame(p, g)
  \/ LeaveGame(p) \/ ListGames(p) \/ GameStatus(p)
  \/ \E result \in Result : Reroll(p, result)
  \/ AcceptEndOfRound(p) \/ Drop(p)

LEMMA ClientInv ==
  ASSUME Inv, NEW p \in Objects, Client(p)
  PROVE  Inv'
<1> DEFINE w == Quiet(srv)
<1>0. Sound(w) /\ w \in World /\ Keeps(w, w) /\ w.players = srv.players
  BY KeepsSelf, MemoryFields, KeepsSound, KeepsType DEF Inv, Sound, Quiet, World
<1> HIDE DEF w
<1>a. \A v : Keeps(w, v) => Sound(v)
  BY <1>0, KeepsSound
<1>0a. CASE NotANumber(p)
  BY <1>0, <1>a, <1>0a, MemoryFields, ServeInv DEF NotANumber, w
<1>1. CASE Reject(p)
  BY <1>0, <1>a, <1>1, ErrorKeeps, ServeInv DEF Reject, w
<1>2. CASE TooLong(p)
  BY <1>0, <1>a, <1>2, DisconnectKeeps, ServeInv DEF TooLong, w
<1>3. CASE Alive(p)
  BY <1>0, <1>a, <1>3, HelloKeeps, ServeInv DEF Alive, w
<1>4. CASE Hello(p)
  BY <1>0, <1>a, <1>4, HelloKeeps, ServeInv DEF Hello, w
<1>5. CASE \E name \in Names : Login(p, name)
  BY <1>0, <1>5, LoginSound, ServeInv DEF Login, w
<1>6. CASE \E name \in Names \cup {NoName} : Reconnect(p, name)
  BY <1>0, <1>6, ReconnectSound, ServeInv DEF Reconnect, Serve, w
<1>7. CASE OkResponse(p)
  BY <1>0, <1>7, ServeInv DEF OkResponse, w
<1>8. CASE Logout(p)
  BY <1>0, <1>a, <1>8, LogoutKeeps, ServeInv DEF Logout, w
<1>9. CASE CreateGame(p)
  BY <1>0, <1>a, <1>9, CreateGameKeeps, ServeInv DEF CreateGame, w
<1>10. CASE \E g \in GameIds : JoinGame(p, g)
  BY <1>0, <1>a, <1>10, JoinGameKeeps, ServeInv DEF JoinGame, w
<1>11. CASE LeaveGame(p)
  BY <1>0, <1>a, <1>11, LeaveGameKeeps, ServeInv DEF LeaveGame, w
<1>12. CASE ListGames(p)
  BY <1>0, <1>a, <1>12, ListGamesKeeps, ServeInv DEF ListGames, w
<1>13. CASE GameStatus(p)
  BY <1>0, <1>a, <1>13, GameStatusKeeps, ServeInv DEF GameStatus, w
<1>14. CASE \E result \in Result : Reroll(p, result)
  BY <1>0, <1>a, <1>14, RerollKeeps, ServeInv DEF Reroll, w
<1>15. CASE AcceptEndOfRound(p)
  BY <1>0, <1>a, <1>15, AcceptEndOfRoundKeeps, ServeInv DEF AcceptEndOfRound, w
<1>16. CASE Drop(p)
  BY <1>0, <1>16, DropSound, ServeInv DEF Drop, Serve, w
<1> QED
  BY <1>0a, <1>1, <1>2, <1>3, <1>4, <1>5, <1>6, <1>7, <1>8, <1>9, <1>10, <1>11,
     <1>12, <1>13, <1>14, <1>15, <1>16 DEF Client

LEMMA AcceptInv ==
  ASSUME Inv, Accept
  PROVE  Inv'
<1> DEFINE w == Quiet(srv)
<1>0. Sound(w) /\ w \in World
      /\ w.player = srv.player /\ w.players = srv.players
      /\ w.disconnected_players = srv.disconnected_players
  BY KeepsSelf, MemoryFields, KeepsSound, KeepsType DEF Inv, Sound, Quiet, World
<1>1. PICK o \in Objects \ Live(srv), fd \in Sockets \ Used :
        Served(server_socket, [w EXCEPT !.player[o] = NewPlayer(fd),
                                        !.players = @ \cup {o}])
  BY DEF Accept
<1> HIDE DEF w
<1> DEFINE r == NewPlayer(fd)
           v == [w EXCEPT !.player[o] = r]
           u == [v EXCEPT !.players = @ \cup {o}]
<1>2. /\ fd \in Nat /\ r \in Player
      /\ r.socket = fd /\ r.name = NoName /\ r.state = "IN_MAIN_MENU"
  BY BoundsAssumption, NewTypes, ObjectsAssumption DEF NewPlayer
<1> HIDE DEF r
<1>3. v \in World /\ v.players = w.players /\ w.players \subseteq Objects
  BY <1>0, <1>2, SetPlayer DEF World
<1>4. u \in World
  BY <1>3, SetVectors
<1>5. /\ u.players = w.players \cup {o}
      /\ u.disconnected_players = w.disconnected_players
      /\ u.player = [w.player EXCEPT ![o] = r] /\ w.player \in [Objects -> Player]
  BY <1>0 DEF World
<1>6. o \notin Known(w) /\ \A q \in w.players : w.player[q].socket # fd
  BY <1>0 DEF Live, Known, Dropped, Used
<1>7. Served(server_socket, u)
  BY <1>1 DEF r
<1> HIDE DEF u, v
<1>8. Known(w) \subseteq Objects
  BY <1>0, WorldFields, LenProperties DEF Known, Dropped
<1>9. \A q \in Objects : u.player[q] = IF q = o THEN r ELSE w.player[q]
  BY <1>5
<1>10. Known(u) = Known(w) \cup {o} /\ Dropped(u) = Dropped(w)
  BY <1>5 DEF Known, Dropped
<1>11. OneOwner(u)
  BY <1>0, <1>2, <1>3, <1>5, <1>6, <1>9 DEF Sound, OneOwner
<1>12. OneSession(u)
  BY <1>0, <1>2, <1>8, <1>9, <1>10 DEF Sound, OneSession
<1>13. Apart(u)
  BY <1>0, <1>5, <1>6, <1>10 DEF Sound, Apart, Known
<1>14. OneEntry(u)
  BY <1>0, <1>5 DEF Sound, OneEntry
<1>15. Sound(u)
  BY <1>4, <1>11, <1>12, <1>13, <1>14 DEF Sound
<1> QED
  BY <1>7, <1>15, ServedInv

LEMMA GamesInv ==
  ASSUME Inv, NEW g \in GameIds,
         AnnounceNewRound(g) \/ AnnounceEndOfRound(g) \/ AnnounceGameOver(g)
  PROVE  Inv'
<1> DEFINE w == Quiet(srv)
<1>0. Sound(w) /\ Keeps(w, w)
  BY KeepsSelf, MemoryFields, KeepsSound, KeepsType DEF Inv, Sound
<1> HIDE DEF w
<1>a. \A v : Keeps(w, v) => Sound(v)
  BY <1>0, KeepsSound
<1>1. /\ Keeps(w, [w EXCEPT !.game[g].is_new_round = FALSE])
      /\ Keeps(w, [w EXCEPT !.game[g].send_end_of_round = FALSE])
  BY <1>0, GameFields
<1>2. CASE AnnounceNewRound(g)
  BY <1>a, <1>1, <1>2, TellBothKeeps, SweptInv DEF AnnounceNewRound, w
<1>3. CASE AnnounceEndOfRound(g)
  BY <1>a, <1>1, <1>3, TellBothKeeps, SweptInv DEF AnnounceEndOfRound, w
<1>4. CASE AnnounceGameOver(g)
  BY <1>0, <1>a, <1>4, AnnounceGameOverKeeps, SweptInv DEF AnnounceGameOver, w
<1> QED
  BY <1>2, <1>3, <1>4

LEMMA NextInv ==
  ASSUME Inv, [Next]_vars
  PROVE  Inv'
<1> DEFINE w == Quiet(srv)
<1>0. Sound(w) /\ Keeps(w, w) /\ w.disconnected_players = srv.disconnected_players
  BY KeepsSelf, MemoryFields, KeepsSound, KeepsType DEF Inv, Sound, Quiet, World
<1>a. Sound(srv') => (Sound(srv))'
  BY DEF Sound, OneOwner, OneSession, Apart, OneEntry, Known, Dropped
<1>1. CASE Select
  <2>1. Used \subseteq Nat
    BY WorldFields DEF Used, Inv, TypeOK, Player
  <2>2. read_fds' \subseteq Nat /\ phase' \in Phase /\ srv' = w
    BY <1>1, <2>1 DEF Select, Phase, server_socket
  <2> QED
    BY <1>0, <1>a, <2>2 DEF Inv, TypeOK, Sound
<1>2. CASE Exit
  BY <1>a, <1>2, InitWorldSound DEF Exit, Inv, TypeOK, Phase, Sound
<1>3. CASE Accept
  BY <1>3, AcceptInv
<1>4. CASE \E fd \in Sockets : ServeClosed(fd)
  <2>1. Sound(Crash(srv))
    BY KeepsSelf, MemoryFields, KeepsSound DEF Inv, Sound
  <2> QED
    BY <1>4, <2>1, ServedInv DEF ServeClosed
<1>5. CASE \E p \in Objects : Client(p)
  BY <1>5, ClientInv
<1>6. CASE \E g \in GameIds :
             AnnounceNewRound(g) \/ AnnounceEndOfRound(g) \/ AnnounceGameOver(g)
  BY <1>6, GamesInv
<1>7. CASE Expire
  BY <1>0, <1>7, TimeOutSound, SweptInv DEF Expire, MayExpire
<1>8. CASE Reap
  <2>1. Sound(srv')
    BY <1>0, <1>8, DeleteKeeps, KeepsSound, SettleSound DEF Reap
  <2> QED
    BY <1>8, <1>a, <2>1 DEF Reap, Inv, TypeOK, Phase, Sound
<1>9. CASE Stopped \/ UNCHANGED vars
  <2>1. srv' = srv /\ read_fds' = read_fds /\ phase' = phase
    BY <1>9 DEF Stopped, vars
  <2>2. Sound(srv')
    BY <2>1 DEF Inv
  <2> QED
    BY <1>a, <2>1, <2>2 DEF Inv, TypeOK, Sound
<1> QED
  BY <1>1, <1>2, <1>3, <1>4, <1>5, <1>6, <1>7, <1>8, <1>9 DEF Next, Client

LEMMA Invariance == Spec => []Inv
<1>1. Init => Inv
  BY InitWorldSound DEF Init, Inv, TypeOK, Phase, Sound
<1>2. Inv /\ [Next]_vars => Inv'
  BY NextInv
<1> QED
  BY <1>1, <1>2, PTL DEF Spec

-----------------------------------------------------------------------------
(* The theorems.                                                           *)

\* Every value in the server's memory keeps its type, whatever any number of
\* clients send: every seat holds a Player object or nothing, and every entry
\* of disconnected_players is an object (all handlers of Server.cpp).
THEOREM TypeCorrect == Spec => []TypeOK
<1>1. Inv => TypeOK
  BY DEF Inv
<1> QED
  BY <1>1, Invariance, PTL

\* A descriptor never has two owners, and a connected player is never in state
\* DISCONNECTED, for any number of connections and whatever they send
\* (get_player_by_fd finds the player who sent the command).
THEOREM OwnersAreUnique == Spec => []OneOwnerPerSocket
<1>1. Inv => OneOwnerPerSocket
  BY DEF Inv, Sound, OneOwner, OneOwnerPerSocket, player
<1> QED
  BY <1>1, Invariance, PTL

\* No nickname names two sessions, connected or dropped, even when clients send
\* RECONNECT on connections that are logged in (login, reconnect).
THEOREM NamesAreUnique == Spec => []UniqueNames
<1>1. Inv => UniqueNames
  BY DEF Inv, Sound, OneSession, UniqueNames, player
<1> QED
  BY <1>1, Invariance, PTL

\* disconnect_player clears the player's seat before it asks for his opponent,
\* and then finds none, in whichever seat he sat: the lines that would tell the
\* opponent of a kicked player are never run (Server.cpp:160-170).
THEOREM DisconnectFindsNoOpponent ==
  ASSUME NEW w \in World, NEW g \in GameIds, NEW p \in Objects
  PROVE  LET seated  == p \in {w.game[g].player1, w.game[g].player2}
             cleared == IF seated THEN free_seat(w, g, p) ELSE w
         IN  get_opponent(cleared, g, p) = nullptr
<1> DEFINE p1 == w.game[g].player1
           p2 == w.game[g].player2
           v1 == [w EXCEPT !.game[g].player1 = nullptr]
           v2 == [w EXCEPT !.game[g].player2 = nullptr]
<1>1. p # nullptr
  BY ObjectsAssumption
<1>2. v1.game[g].player1 = nullptr /\ v1.game[g].player2 = p2
  BY DEF World, Game
<1>3. v2.game[g].player1 = p1 /\ v2.game[g].player2 = nullptr
  BY DEF World, Game
<1> HIDE DEF v1, v2
<1>4. CASE p1 = p
  <2>1. free_seat(w, g, p) = v1
    BY <1>4 DEF free_seat, v1
  <2>2. get_opponent(v1, g, p) = nullptr
    BY <1>1, <1>2 DEF get_opponent
  <2> QED
    BY <1>4, <2>1, <2>2
<1>5. CASE p1 # p /\ p2 = p
  <2>1. free_seat(w, g, p) = v2
    BY <1>5 DEF free_seat, v2
  <2>2. get_opponent(v2, g, p) = nullptr
    BY <1>1, <1>3, <1>5 DEF get_opponent
  <2> QED
    BY <1>5, <2>1, <2>2
<1>6. CASE p1 # p /\ p2 # p
  BY <1>6 DEF get_opponent
<1> QED
  BY <1>4, <1>5, <1>6

=============================================================================
