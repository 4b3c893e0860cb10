------------------------------ MODULE SeatProofs ------------------------------
(***************************************************************************)
(* That SeatInv (module Seats) is inductive.  The first part says of any   *)
(* change of a world, whichever method makes it, when seats, rounds and    *)
(* points stay the same (Alike), how one game may change (the Changes of a *)
(* seat, a round, a lobby), how two changes compose, and that a world of   *)
(* which only some players and games have changed is Seated when those are *)
(* (FrameSeated).  Then there is for each method a lemma of what it writes *)
(* (...Fields) and one that it takes a seated world to a seated one by a   *)
(* change a match may make (...Good); they are composed as the code        *)
(* composes the methods, and the last section does the steps of the loop   *)
(* (NextSeat).                                                             *)
(***************************************************************************)
EXTENDS Seats, ServerProofs

-----------------------------------------------------------------------------
(* Worlds that differ in nothing seats, rounds and points depend on.       *)

SamePlayer(w, v, o) ==
  /\ v.player[o].socket = w.player[o].socket
  /\ v.player[o].game = w.player[o].game
  /\ v.player[o].score = w.player[o].score
  /\ v.player[o].state = w.player[o].state
  /\ v.player[o].can_play = w.player[o].can_play
  /\ v.player[o].logged_in = w.player[o].logged_in

SameBoard(w, v, g) ==
  /\ v.game[g].player1 = w.game[g].player1
  /\ v.game[g].player2 = w.game[g].player2
  /\ v.game[g].state = w.game[g].state
  /\ v.game[g].is_end_round = w.game[g].is_end_round
  /\ v.game[g].is_new_round = w.game[g].is_new_round

Alike(w, v) ==
  /\ v \in World
  /\ v.players = w.players
  /\ v.disconnected_players = w.disconnected_players
  /\ v.games = w.games
  /\ \A o \in Objects : SamePlayer(w, v, o)
  /\ \A g \in GameIds : SameBoard(w, v, g)

Holder(w, g, s) == IF s = 1 THEN w.game[g].player1 ELSE w.game[g].player2

SameSeat(w, v, g, s) ==
  LET p == Holder(w, g, s)  q == Holder(v, g, s) IN
  /\ q = nullptr <=> p = nullptr
  /\ p # nullptr => /\ v.player[q].can_play = w.player[p].can_play
                    /\ v.player[q].score = w.player[p].score

SameGame(w, v, g) ==
  /\ g \in v.games <=> g \in w.games
  /\ g \in w.games => /\ v.game[g].state = w.game[g].state
                      /\ v.game[g].is_end_round = w.game[g].is_end_round
                      /\ \A s \in {1, 2} : SameSeat(w, v, g, s)

LEMMA Types ==
  ASSUME NEW w \in World
  PROVE  /\ w.games \subseteq GameIds /\ w.players \subseteq Objects
         /\ Dropped(w) \subseteq Objects /\ Known(w) \subseteq Objects
         /\ nullptr \notin Objects /\ nullptr \notin GameIds
         /\ \A g \in GameIds : /\ w.game[g].player1 \in Objects \cup {nullptr}
                               /\ w.game[g].player2 \in Objects \cup {nullptr}
                               /\ Sits(w, g) \subseteq Objects
                               /\ w.game[g].state \in GameState
                               /\ w.game[g].is_end_round \in BOOLEAN
         /\ \A o \in Objects : /\ w.player[o].game \in GameIds \cup {nullptr}
                               /\ w.player[o].state \in PlayerState
                               /\ w.player[o].score \in Nat
                               /\ w.player[o].can_play \in BOOLEAN
                               /\ w.player[o].logged_in \in BOOLEAN
<1>1. /\ w.games \subseteq GameIds /\ w.players \subseteq Objects
      /\ Dropped(w) \subseteq Objects /\ Known(w) \subseteq Objects
  BY WorldFields, LenProperties DEF Known, Dropped
<1>2. \A g \in GameIds : w.game[g] \in Game
  BY WorldFields
<1>3. \A g \in GameIds : /\ w.game[g].player1 \in Objects \cup {nullptr}
                         /\ w.game[g].player2 \in Objects \cup {nullptr}
                         /\ w.game[g].state \in GameState
                         /\ w.game[g].is_end_round \in BOOLEAN
  BY <1>2 DEF Game
<1>4. \A o \in Objects : w.player[o] \in Player
  BY WorldFields
<1>5. \A o \in Objects : /\ w.player[o].game \in GameIds \cup {nullptr}
                         /\ w.player[o].state \in PlayerState
                         /\ w.player[o].score \in Nat
                         /\ w.player[o].can_play \in BOOLEAN
                         /\ w.player[o].logged_in \in BOOLEAN
  BY <1>4 DEF Player
<1> QED
  BY <1>1, <1>3, <1>5, ObjectsAssumption DEF Sits

LEMMA AlikeSelf ==
  ASSUME NEW w \in World
  PROVE  Alike(w, w)
BY DEF Alike, SamePlayer, SameBoard

-----------------------------------------------------------------------------
(* What a player or a game that has not changed keeps.                     *)

LEMMA GameFrame ==
  ASSUME NEW w \in World, NEW v, NEW g \in GameIds, SameBoard(w, v, g),
         \A o \in Sits(w, g) : SamePlayer(w, v, o)
  PROVE  /\ Sits(v, g) = Sits(w, g)
         /\ Filled(v, g) <=> Filled(w, g)
         /\ Waits(v, g) <=> Waits(w, g)
         /\ (Sits(w, g) \subseteq Known(v)) /\ GameAgrees(w, g) => GameAgrees(v, g)
         /\ RoundAgrees(w, g) => RoundAgrees(v, g)
         /\ (g \in v.games <=> g \in w.games) => SameGame(w, v, g)
<1>1. /\ Sits(v, g) = Sits(w, g)
      /\ Filled(v, g) <=> Filled(w, g)
      /\ Waits(v, g) <=> Waits(w, g)
  BY DEF SameBoard, Sits, Filled, Waits
<1>2. \A o \in Sits(w, g) : /\ v.player[o].game = w.player[o].game
                            /\ v.player[o].score = w.player[o].score
                            /\ v.player[o].can_play = w.player[o].can_play
  BY DEF SamePlayer
<1>3. ASSUME Sits(w, g) \subseteq Known(v), GameAgrees(w, g)
      PROVE  GameAgrees(v, g)
  BY <1>1, <1>2, <1>3 DEF GameAgrees, SameBoard
<1>4. RoundAgrees(w, g) => RoundAgrees(v, g)
  BY <1>1, <1>2 DEF RoundAgrees, SameBoard
<1>5. (g \in v.games <=> g \in w.games) => SameGame(w, v, g)
  BY <1>1, <1>2 DEF SameGame, SameSeat, Holder, SameBoard, Sits
<1> QED
  BY <1>1, <1>3, <1>4, <1>5

LEMMA PlayerFrame ==
  ASSUME NEW w, NEW v, NEW o, SamePlayer(w, v, o),
         LET g == w.player[o].game IN
           /\ g \in v.games <=> g \in w.games
           /\ g # nullptr => SameBoard(w, v, g),
         nullptr \notin w.games
  PROVE  /\ PlayerAgrees(w, o) /\ (Left(v, o) => Left(w, o)) => PlayerAgrees(v, o)
         /\ DroppedAgrees(w, o) => DroppedAgrees(v, o)
         /\ ClosedAgrees(w, o) => ClosedAgrees(v, o)
         /\ (o \in v.players <=> o \in w.players) => (Left(v, o) <=> Left(w, o))
<1> DEFINE g == w.player[o].game
<1>1. /\ v.player[o].game = g
      /\ v.player[o].state = w.player[o].state
      /\ v.player[o].can_play = w.player[o].can_play
      /\ v.player[o].logged_in = w.player[o].logged_in
  BY DEF SamePlayer
<1>2. /\ g \in v.games <=> g \in w.games
      /\ g \in w.games => g # nullptr
      /\ g # nullptr => /\ Sits(v, g) = Sits(w, g)
                        /\ Waits(v, g) <=> Waits(w, g)
                        /\ v.game[g].player1 = w.game[g].player1
  BY DEF SameBoard, Sits, Waits
<1> HIDE DEF g
<1>3. PlayerAgrees(w, o) /\ (Left(v, o) => Left(w, o)) => PlayerAgrees(v, o)
  <2> SUFFICES ASSUME PlayerAgrees(w, o), Left(v, o) => Left(w, o)
               PROVE  PlayerAgrees(v, o)
    OBVIOUS
  <2>1. /\ w.player[o].state = "IN_LOBBY" =>
             g \in w.games /\ Waits(w, g) /\ w.game[g].player1 = o
        /\ w.player[o].state = "IN_GAME" =>
             g \in w.games /\ ~Waits(w, g) /\ o \in Sits(w, g)
        /\ Left(w, o) => Waits(w, g) /\ w.game[g].player1 = nullptr /\ g \in w.games
        /\ ~w.player[o].logged_in => g = nullptr /\ w.player[o].state = "IN_MAIN_MENU"
    BY DEF PlayerAgrees, Left, g
  <2> QED
    BY <1>1, <1>2, <2>1 DEF PlayerAgrees
<1>4. DroppedAgrees(w, o) => DroppedAgrees(v, o)
  BY <1>1, <1>2 DEF DroppedAgrees, g
<1>5. ClosedAgrees(w, o) => ClosedAgrees(v, o)
  BY <1>1, <1>2 DEF ClosedAgrees, g
<1>6. (o \in v.players <=> o \in w.players) => (Left(v, o) <=> Left(w, o))
  BY <1>1, <1>2 DEF Left, g
<1> QED
  BY <1>3, <1>4, <1>5, <1>6

\* All but the players P and the games G are the same.
LEMMA Frame ==
  ASSUME NEW w \in World, Seated(w), NEW v \in World,
         NEW P, NEW G,
         \A o \in Objects \ P : SamePlayer(w, v, o),
         \A h \in GameIds \ G : SameBoard(w, v, h) /\ (h \in v.games <=> h \in w.games),
         v.players \ P = w.players \ P, Dropped(v) \ P = Dropped(w) \ P
  PROVE  /\ \A h \in GameIds \ G :
              (\A o \in Sits(w, h) : o \notin P) =>
                /\ SameGame(w, v, h)
                /\ h \in v.games => GameAgrees(v, h) /\ RoundAgrees(v, h)
         /\ \A o \in Known(v) \ P :
              w.player[o].game \notin G =>
                /\ o \in v.players => PlayerAgrees(v, o)
                /\ o \in Dropped(v) => DroppedAgrees(v, o)
                /\ ClosedAgrees(v, o)
                /\ Left(v, o) <=> Left(w, o)
<1>1. ASSUME NEW h \in GameIds \ G, \A o \in Sits(w, h) : o \notin P
      PROVE  /\ SameGame(w, v, h)
             /\ h \in v.games => GameAgrees(v, h) /\ RoundAgrees(v, h)
  <2>1. Sits(w, h) \subseteq Objects
    BY Types
  <2>2. /\ SameBoard(w, v, h) /\ (h \in v.games <=> h \in w.games)
        /\ \A o \in Sits(w, h) : SamePlayer(w, v, o)
    BY <1>1, <2>1
  <2>3. h \in w.games => GameAgrees(w, h) /\ RoundAgrees(w, h)
    BY DEF Seated
  <2>4. h \in w.games => Sits(w, h) \subseteq Known(v)
    BY <1>1, <2>3 DEF GameAgrees, Known
  <2> QED
    BY <2>2, <2>3, <2>4, GameFrame
<1>2. ASSUME NEW o \in Known(v) \ P, w.player[o].game \notin G
      PROVE  /\ o \in v.players => PlayerAgrees(v, o)
             /\ o \in Dropped(v) => DroppedAgrees(v, o)
             /\ ClosedAgrees(v, o)
             /\ Left(v, o) <=> Left(w, o)
  <2>1. /\ o \in v.players <=> o \in w.players
        /\ o \in Dropped(v) <=> o \in Dropped(w)
        /\ o \in Known(w)
    BY DEF Known
  <2>2. /\ o \in Objects /\ nullptr \notin GameIds /\ w.games \subseteq GameIds
        /\ v.games \subseteq GameIds
    BY Types
  <2>3. w.player[o].game \in GameIds \cup {nullptr}
    BY <2>2, Types
  <2>4. /\ SamePlayer(w, v, o)
        /\ w.player[o].game \in v.games <=> w.player[o].game \in w.games
        /\ w.player[o].game # nullptr => SameBoard(w, v, w.player[o].game)
        /\ nullptr \notin w.games
    BY <1>2, <2>2, <2>3
  <2>5. /\ o \in w.players => PlayerAgrees(w, o)
        /\ o \in Dropped(w) => DroppedAgrees(w, o)
        /\ ClosedAgrees(w, o)
    BY <2>1 DEF Seated
  <2>6. /\ PlayerAgrees(w, o) /\ (Left(v, o) => Left(w, o)) => PlayerAgrees(v, o)
        /\ DroppedAgrees(w, o) => DroppedAgrees(v, o)
        /\ ClosedAgrees(w, o) => ClosedAgrees(v, o)
        /\ (o \in v.players <=> o \in w.players) => (Left(v, o) <=> Left(w, o))
    BY <2>4, PlayerFrame
  <2> QED
    BY <2>1, <2>5, <2>6
<1> QED
  BY <1>1, <1>2

LEMMA AlikeSeated ==
  ASSUME NEW w \in World, Seated(w), NEW v, Alike(w, v)
  PROVE  /\ Seated(v)
         /\ \A g \in GameIds : SameGame(w, v, g)
         /\ \A o : Left(v, o) <=> Left(w, o)
<1>1. /\ v.players = w.players /\ Dropped(v) = Dropped(w) /\ Known(v) = Known(w)
      /\ v.games = w.games /\ v \in World
      /\ \A o \in Objects : SamePlayer(w, v, o)
      /\ \A g \in GameIds : SameBoard(w, v, g)
  BY DEF Alike, Dropped, Known
<1>2. /\ \A h \in GameIds :
           /\ SameGame(w, v, h)
           /\ h \in v.games => GameAgrees(v, h) /\ RoundAgrees(v, h)
      /\ \A o \in Known(v) :
           /\ o \in v.players => PlayerAgrees(v, o)
           /\ o \in Dropped(v) => DroppedAgrees(v, o)
           /\ ClosedAgrees(v, o)
           /\ Left(v, o) <=> Left(w, o)
  <2> DEFINE none == {}
  <2>1. \A x : x \notin none
    OBVIOUS
  <2> HIDE DEF none
  <2>2. /\ \A o \in Objects \ none : SamePlayer(w, v, o)
        /\ \A h \in GameIds \ none : SameBoard(w, v, h) /\ (h \in v.games <=> h \in w.games)
        /\ v.players \ none = w.players \ none
        /\ Dropped(v) \ none = Dropped(w) \ none
    BY <1>1
  <2>3. /\ \A h \in GameIds \ none :
             (\A o \in Sits(w, h) : o \notin none) =>
               /\ SameGame(w, v, h)
               /\ h \in v.games => GameAgrees(v, h) /\ RoundAgrees(v, h)
        /\ \A o \in Known(v) \ none :
             w.player[o].game \notin none =>
               /\ o \in v.players => PlayerAgrees(v, o)
               /\ o \in Dropped(v) => DroppedAgrees(v, o)
               /\ ClosedAgrees(v, o)
               /\ Left(v, o) <=> Left(w, o)
    BY <1>1, <2>2, Frame
  <2> QED
    BY <2>1, <2>3
<1>3. \A o : Left(v, o) <=> Left(w, o)
  BY <1>1, <1>2 DEF Left, Known
<1>4. v.games \subseteq GameIds
  BY Types, <1>1
<1> QED
  BY <1>2, <1>3, <1>4 DEF Seated, Known

LEMMA PlayerAlike ==
  ASSUME NEW w0, NEW w \in World, Alike(w0, w), NEW p \in Objects, NEW r \in Player,
         r.socket = w.player[p].socket, r.game = w.player[p].game,
         r.score = w.player[p].score, r.state = w.player[p].state,
         r.can_play = w.player[p].can_play, r.logged_in = w.player[p].logged_in
  PROVE  Alike(w0, [w EXCEPT !.player[p] = r])
<1> DEFINE v == [w EXCEPT !.player[p] = r]
<1>1. v \in World
  BY SetPlayer
<1>2. /\ v.player = [w.player EXCEPT ![p] = r] /\ w.player \in [Objects -> Player]
      /\ v.players = w.players /\ v.disconnected_players = w.disconnected_players
      /\ v.games = w.games /\ v.game = w.game
  BY DEF World
<1> HIDE DEF v
<1>3. \A o \in Objects : v.player[o] = IF o = p THEN r ELSE w.player[o]
  BY <1>2
<1>4. Alike(w0, v)
  BY <1>1, <1>2, <1>3 DEF Alike, SamePlayer, SameBoard
<1> QED
  BY <1>4 DEF v

LEMMA GameAlike ==
  ASSUME NEW w0, NEW w \in World, Alike(w0, w), NEW g \in GameIds, NEW r \in Game,
         r.player1 = w.game[g].player1, r.player2 = w.game[g].player2,
         r.state = w.game[g].state, r.is_end_round = w.game[g].is_end_round,
         r.is_new_round = w.game[g].is_new_round
  PROVE  Alike(w0, [w EXCEPT !.game[g] = r])
<1> DEFINE v == [w EXCEPT !.game[g] = r]
<1>1. v \in World
  BY SetGame
<1>2. /\ v.game = [w.game EXCEPT ![g] = r] /\ w.game \in [GameIds -> Game]
      /\ v.players = w.players /\ v.disconnected_players = w.disconnected_players
      /\ v.games = w.games /\ v.player = w.player
  BY DEF World
<1> HIDE DEF v
<1>3. \A h \in GameIds : v.game[h] = IF h = g THEN r ELSE w.game[h]
  BY <1>2
<1>4. Alike(w0, v)
  BY <1>1, <1>2, <1>3 DEF Alike, SamePlayer, SameBoard
<1> QED
  BY <1>4 DEF v

\* What the handlers write that seats, rounds and points do not depend on.
LEMMA FieldsAlike ==
  ASSUME NEW w0, NEW w \in World, Alike(w0, w)
  PROVE  /\ \A p \in Objects :
              /\ \A b \in BOOLEAN :
                   /\ Alike(w0, [w EXCEPT !.player[p].handshake = b])
                   /\ Alike(w0, [w EXCEPT !.player[p].accepted_end_of_round = b])
              /\ \A n \in Nat : Alike(w0, [w EXCEPT !.player[p].number_of_error_messages = n])
         /\ \A g \in GameIds, b \in BOOLEAN :
              /\ Alike(w0, [w EXCEPT !.game[g].send_end_of_round = b])
              /\ Alike(w0, [w EXCEPT !.game[g].paused = b])
              /\ Alike(w0, [w EXCEPT !.game[g].game_over = b])
<1>1. ASSUME NEW p \in Objects, NEW b \in BOOLEAN
      PROVE  /\ Alike(w0, [w EXCEPT !.player[p].handshake = b])
             /\ Alike(w0, [w EXCEPT !.player[p].accepted_end_of_round = b])
  <2> DEFINE r0 == w.player[p]
  <2>1. r0 \in Player
    BY WorldFields
  <2> HIDE DEF r0
  <2>2. LET r == [r0 EXCEPT !.handshake = b] IN
        /\ r \in Player /\ r.socket = r0.socket /\ r.game = r0.game /\ r.score = r0.score
        /\ r.state = r0.state /\ r.can_play = r0.can_play /\ r.logged_in = r0.logged_in
    BY <2>1 DEF Player
  <2>3. LET r == [r0 EXCEPT !.accepted_end_of_round = b] IN
        /\ r \in Player /\ r.socket = r0.socket /\ r.game = r0.game /\ r.score = r0.score
        /\ r.state = r0.state /\ r.can_play = r0.can_play /\ r.logged_in = r0.logged_in
    BY <2>1 DEF Player
  <2> QED
    BY <2>2, <2>3, PlayerAlike DEF r0
<1>2. ASSUME NEW p \in Objects, NEW n \in Nat
      PROVE  Alike(w0, [w EXCEPT !.player[p].number_of_error_messages = n])
  <2> DEFINE r0 == w.player[p]
  <2>1. r0 \in Player
    BY WorldFields
  <2> HIDE DEF r0
  <2>2. LET r == [r0 EXCEPT !.number_of_error_messages = n] IN
        /\ r \in Player /\ r.socket = r0.socket /\ r.game = r0.game /\ r.score = r0.score
        /\ r.state = r0.state /\ r.can_play = r0.can_play /\ r.logged_in = r0.logged_in
    BY <2>1 DEF Player
  <2> QED
    BY <2>2, PlayerAlike DEF r0
<1>3. ASSUME NEW g \in GameIds, NEW b \in BOOLEAN
      PROVE  /\ Alike(w0, [w EXCEPT !.game[g].send_end_of_round = b])
             /\ Alike(w0, [w EXCEPT !.game[g].paused = b])
             /\ Alike(w0, [w EXCEPT !.game[g].game_over = b])
  <2> DEFINE r0 == w.game[g]
             Same(r) == /\ r \in Game
                        /\ r.player1 = r0.player1 /\ r.player2 = r0.player2
                        /\ r.state = r0.state /\ r.is_end_round = r0.is_end_round
                        /\ r.is_new_round = r0.is_new_round
  <2>1. r0 \in Game
    BY WorldFields
  <2> HIDE DEF r0
  <2>2. /\ Same([r0 EXCEPT !.send_end_of_round = b])
        /\ Same([r0 EXCEPT !.paused = b])
        /\ Same([r0 EXCEPT !.game_over = b])
    BY <2>1 DEF Game
  <2>3. \A r : Same(r) => Alike(w0, [w EXCEPT !.game[g] = r])
    BY GameAlike DEF r0
  <2> HIDE DEF Same
  <2> QED
    BY <2>2, <2>3 DEF r0
<1> QED
  BY <1>1, <1>2, <1>3

LEMMA MemoryAlike ==
  ASSUME NEW w0, NEW w \in World, Alike(w0, w)
  PROVE  /\ Alike(w0, Crash(w)) /\ Alike(w0, Quiet(w))
         /\ \A n \in Notice, p \in Objects : Alike(w0, Notify(w, n, p))
         /\ Crash(w).crashed
<1>1. \A v \in World :
        v.player = w.player /\ v.players = w.players /\ v.game = w.game
          /\ v.disconnected_players = w.disconnected_players /\ v.games = w.games
          => Alike(w0, v)
  BY DEF Alike, SamePlayer, SameBoard
<1>2. /\ Crash(w) \in World /\ Quiet(w) \in World
      /\ \A n \in Notice, p \in Objects : Notify(w, n, p) \in World
  BY KeepsSelf, MemoryFields, KeepsType
<1>3. Alike(w0, Crash(w)) /\ Crash(w).crashed
  BY <1>1, <1>2 DEF World, Crash
<1>4. Alike(w0, Quiet(w))
  BY <1>1, <1>2 DEF World, Quiet
<1>5. ASSUME NEW n \in Notice, NEW p \in Objects
      PROVE  Alike(w0, Notify(w, n, p))
  <2> DEFINE v == Notify(w, n, p)
  <2>1. /\ v.player = w.player /\ v.players = w.players /\ v.game = w.game
        /\ v.disconnected_players = w.disconnected_players /\ v.games = w.games
    BY DEF World, Notify
  <2> HIDE DEF v
  <2>2. v \in World
    BY <1>2 DEF v
  <2>3. Alike(w0, v)
    BY <1>1, <2>1, <2>2
  <2> QED
    BY <2>3 DEF v
<1> QED
  BY <1>3, <1>4, <1>5

LEMMA ForgiveAlike ==
  ASSUME NEW w0, NEW w \in World, Alike(w0, w), NEW p \in Objects
  PROVE  Alike(w0, forgive(w, p)) /\ forgive(w, p) \in World
BY FieldsAlike DEF forgive, Alike

LEMMA GameOverAlike ==
  ASSUME NEW w0, NEW w \in World, Alike(w0, w), NEW p \in Objects \cup {nullptr}
  PROVE  /\ Alike(w0, game_over(w, p))
         /\ p = nullptr => game_over(w, p).crashed
<1>1. CASE ~HasGame(w, p)
  BY <1>1, MemoryAlike DEF game_over
<1>2. CASE HasGame(w, p)
  <2>1. p \in Objects /\ p # nullptr
    BY <1>2 DEF HasGame
  <2>2. Verdict(w, p) \in Notice
    BY DEF Verdict, Notice
  <2> QED
    BY <1>2, <2>1, <2>2, MemoryAlike DEF game_over
<1> QED
  BY <1>1, <1>2

-----------------------------------------------------------------------------
(* What a step may do to one game, in the words of module Match, and to    *)
(* all of them.                                                            *)

Opens(w, v, g) ==
  /\ g \notin w.games /\ g \in v.games
  /\ Waits(v, g) /\ v.game[g].player1 # nullptr /\ v.game[g].player2 = nullptr
  /\ v.player[v.game[g].player1].score = 0

Joins(w, v, g) ==
  /\ g \in w.games /\ g \in v.games
  /\ Waits(w, g) /\ w.game[g].player1 # nullptr /\ w.game[g].player2 = nullptr
  /\ w.player[w.game[g].player1].score = 0
  /\ v.game[g].state = "PLAYING" /\ Filled(v, g)
  /\ ~v.game[g].is_end_round /\ v.game[g].is_new_round
  /\ \A s \in {1, 2} : /\ v.player[Holder(v, g, s)].can_play
                       /\ v.player[Holder(v, g, s)].score = 0

\* Both seats are taken before and after, and the game is being played.
Plays(w, v, g) ==
  /\ g \in w.games /\ g \in v.games
  /\ w.game[g].state = "PLAYING" /\ Filled(w, g) /\ Filled(v, g)

Starts(w, v, g) ==
  /\ Plays(w, v, g)
  /\ w.game[g].is_end_round
  /\ v.game[g].state = "PLAYING"
  /\ ~v.game[g].is_end_round /\ v.game[g].is_new_round
  /\ \A s \in {1, 2} :
       /\ v.player[Holder(v, g, s)].can_play
       /\ v.player[Holder(v, g, s)].score = w.player[Holder(w, g, s)].score

Rolls(w, v, g, s) ==
  /\ Plays(w, v, g)
  /\ w.player[Holder(w, g, s)].can_play
  /\ ~v.player[Holder(v, g, s)].can_play
  /\ SameSeat(w, v, g, 3 - s)
  /\ w.player[Holder(w, g, 3 - s)].can_play
  /\ v.player[Holder(v, g, s)].score = w.player[Holder(w, g, s)].score
  /\ v.game[g].state = "PLAYING"
  /\ v.game[g].is_end_round = w.game[g].is_end_round

\* The winners of the round get a point each.
Awards(w, v, g, winners) ==
  \A t \in {1, 2} : v.player[Holder(v, g, t)].score =
                      IF t \in winners THEN w.player[Holder(w, g, t)].score + 1
                                       ELSE w.player[Holder(w, g, t)].score

RollsLast(w, v, g, s) ==
  /\ Plays(w, v, g)
  /\ w.player[Holder(w, g, s)].can_play
  /\ ~w.player[Holder(w, g, 3 - s)].can_play
  /\ \A t \in {1, 2} : ~v.player[Holder(v, g, t)].can_play
  /\ \E winners \in (SUBSET {1, 2}) \ {{}} : Awards(w, v, g, winners)
  /\ IF \E t \in {1, 2} : v.player[Holder(v, g, t)].score = BEST_OF
       THEN /\ v.game[g].state = "FINISHED"
            /\ v.game[g].is_end_round = w.game[g].is_end_round
       ELSE v.game[g].state = "PLAYING" /\ v.game[g].is_end_round

Vacates(w, v, g, s) ==
  /\ g \in w.games /\ g \in v.games
  /\ Holder(w, g, s) # nullptr /\ Holder(v, g, s) = nullptr
  /\ SameSeat(w, v, g, 3 - s)
  /\ v.game[g].state \in {w.game[g].state, "FINISHED"}
  /\ v.game[g].is_end_round = w.game[g].is_end_round

Changes(w, v, g) ==
  \/ Opens(w, v, g) \/ Joins(w, v, g) \/ Starts(w, v, g)
  \/ \E s \in {1, 2} : Rolls(w, v, g, s) \/ RollsLast(w, v, g, s) \/ Vacates(w, v, g, s)

OthersSame(w, v, g) == \A h \in GameIds \ {g} : SameGame(w, v, h)

AllSame(w, v) == \A g \in GameIds : SameGame(w, v, g)

Moves(w, v) ==
  \/ AllSame(w, v)
  \/ \E g \in GameIds : Changes(w, v, g) /\ OthersSame(w, v, g)

LEMMA FilledHolders ==
  ASSUME NEW w, NEW g
  PROVE  Filled(w, g) <=> \A s \in {1, 2} : Holder(w, g, s) # nullptr
BY DEF Filled, Holder

LEMMA SameGameTransitive ==
  ASSUME NEW w, NEW u, NEW v, NEW g, SameGame(w, u, g), SameGame(u, v, g)
  PROVE  SameGame(w, v, g)
BY DEF SameGame, SameSeat

\* A change is the same change when the game was the same before.
LEMMA ChangesAfterSame ==
  ASSUME NEW w, NEW u, NEW v, NEW g, SameGame(w, u, g), Changes(u, v, g)
  PROVE  Changes(w, v, g)
<1>1. /\ g \in u.games <=> g \in w.games
      /\ g \in w.games => /\ u.game[g].state = w.game[g].state
                          /\ u.game[g].is_end_round = w.game[g].is_end_round
  BY DEF SameGame
<1>2. \A s \in {1, 2} : g \in w.games => SameSeat(w, u, g, s)
  BY DEF SameGame
<1>3. ASSUME NEW s \in {1, 2}, g \in w.games
      PROVE  /\ Holder(u, g, s) = nullptr <=> Holder(w, g, s) = nullptr
             /\ Holder(w, g, s) # nullptr =>
                  /\ u.player[Holder(u, g, s)].can_play = w.player[Holder(w, g, s)].can_play
                  /\ u.player[Holder(u, g, s)].score = w.player[Holder(w, g, s)].score
             /\ SameSeat(u, v, g, s) => SameSeat(w, v, g, s)
  BY <1>2, <1>3 DEF SameSeat
<1>4. g \in w.games => /\ Filled(u, g) <=> Filled(w, g)
                       /\ Filled(w, g) => \A s \in {1, 2} : Holder(w, g, s) # nullptr
  BY <1>3, FilledHolders
<1>5. \A s \in {1, 2} : 3 - s \in {1, 2}
  OBVIOUS
<1>6. g \in u.games /\ Plays(u, v, g) => Plays(w, v, g)
  BY <1>1, <1>4 DEF Plays
<1>7. CASE Opens(u, v, g)
  BY <1>1, <1>7 DEF Opens, Changes
<1>8. CASE Joins(u, v, g)
  <2>1. g \in w.games /\ Waits(w, g)
    BY <1>1, <1>8 DEF Joins, Waits
  <2>2. /\ w.game[g].player1 # nullptr /\ w.game[g].player2 = nullptr
        /\ w.player[w.game[g].player1].score = 0
    BY <1>3, <1>8, <2>1 DEF Joins, Holder
  <2> QED
    BY <1>8, <2>1, <2>2 DEF Joins, Changes
<1>9. CASE Starts(u, v, g)
  <2>1. Plays(u, v, g) /\ Plays(w, v, g) /\ g \in w.games
    BY <1>6, <1>9 DEF Starts, Plays
  <2> QED
    BY <1>1, <1>3, <1>4, <1>9, <2>1 DEF Starts, Plays, Changes
<1>10. ASSUME NEW s \in {1, 2}, Rolls(u, v, g, s)
      PROVE  Changes(w, v, g)
  <2>1. Plays(u, v, g) /\ Plays(w, v, g) /\ g \in w.games
    BY <1>6, <1>10 DEF Rolls, Plays
  <2>2. Rolls(w, v, g, s)
    BY <1>1, <1>3, <1>4, <1>5, <1>10, <2>1 DEF Rolls, Plays
  <2> QED
    BY <2>2 DEF Changes
<1>11. ASSUME NEW s \in {1, 2}, RollsLast(u, v, g, s)
      PROVE  Changes(w, v, g)
  <2>1. Plays(u, v, g) /\ Plays(w, v, g) /\ g \in w.games
    BY <1>6, <1>11 DEF RollsLast, Plays
  <2>2. \A t \in {1, 2} : /\ u.player[Holder(u, g, t)].can_play = w.player[Holder(w, g, t)].can_play
                          /\ u.player[Holder(u, g, t)].score = w.player[Holder(w, g, t)].score
    BY <1>3, <1>4, <2>1 DEF Plays
  <2>3. PICK winners \in (SUBSET {1, 2}) \ {{}} : Awards(u, v, g, winners)
    BY <1>11 DEF RollsLast
  <2>4. Awards(w, v, g, winners)
    BY <2>2, <2>3 DEF Awards
  <2>5. RollsLast(w, v, g, s)
    BY <1>1, <1>5, <1>11, <2>1, <2>2, <2>4 DEF RollsLast
  <2> QED
    BY <2>5 DEF Changes
<1>12. ASSUME NEW s \in {1, 2}, Vacates(u, v, g, s)
      PROVE  Changes(w, v, g)
  <2>1. Vacates(w, v, g, s)
    BY <1>1, <1>3, <1>5, <1>12 DEF Vacates
  <2> QED
    BY <2>1 DEF Changes
<1> QED
  BY <1>7, <1>8, <1>9, <1>10, <1>11, <1>12 DEF Changes

\* And when it is the same afterwards.
LEMMA ChangesBeforeSame ==
  ASSUME NEW w, NEW u, NEW v, NEW g, Changes(w, u, g), SameGame(u, v, g),
         v.game[g].is_new_round = u.game[g].is_new_round
  PROVE  Changes(w, v, g)
<1>1. /\ g \in u.games <=> g \in v.games
      /\ g \in u.games => /\ v.game[g].state = u.game[g].state
                          /\ v.game[g].is_end_round = u.game[g].is_end_round
                          /\ Waits(v, g) <=> Waits(u, g)
  BY DEF SameGame, Waits
<1>2. \A s \in {1, 2} : g \in u.games => SameSeat(u, v, g, s)
  BY DEF SameGame
<1>3. ASSUME NEW s \in {1, 2}, g \in u.games
      PROVE  /\ Holder(v, g, s) = nullptr <=> Holder(u, g, s) = nullptr
             /\ Holder(u, g, s) # nullptr =>
                  /\ v.player[Holder(v, g, s)].can_play = u.player[Holder(u, g, s)].can_play
                  /\ v.player[Holder(v, g, s)].score = u.player[Holder(u, g, s)].score
             /\ SameSeat(w, u, g, s) => SameSeat(w, v, g, s)
  BY <1>2, <1>3 DEF SameSeat
<1>4. g \in u.games => /\ Filled(v, g) <=> Filled(u, g)
                       /\ Filled(u, g) => \A s \in {1, 2} : Holder(u, g, s) # nullptr
  BY <1>3, FilledHolders
<1>5. \A s \in {1, 2} : 3 - s \in {1, 2}
  OBVIOUS
<1>6. Plays(w, u, g) => Plays(w, v, g)
  BY <1>1, <1>4 DEF Plays
<1>7. CASE Opens(w, u, g)
  <2>1. /\ v.game[g].player1 # nullptr /\ v.game[g].player2 = nullptr
        /\ v.player[v.game[g].player1].score = 0
    BY <1>3, <1>7 DEF Opens, Holder
  <2> QED
    BY <1>1, <1>7, <2>1 DEF Opens, Changes
<1>8. CASE Joins(w, u, g)
  <2>1. g \in u.games /\ g \in v.games /\ Filled(u, g) /\ Filled(v, g)
    BY <1>1, <1>4, <1>8 DEF Joins
  <2>2. \A s \in {1, 2} : /\ v.player[Holder(v, g, s)].can_play
                          /\ v.player[Holder(v, g, s)].score = 0
    BY <1>3, <1>4, <1>8, <2>1 DEF Joins
  <2> QED
    BY <1>1, <1>8, <2>1, <2>2 DEF Joins, Changes
<1>9. CASE Starts(w, u, g)
  <2>1. Plays(w, u, g) /\ Plays(w, v, g) /\ g \in u.games
    BY <1>6, <1>9 DEF Starts, Plays
  <2> QED
    BY <1>1, <1>3, <1>4, <1>9, <2>1 DEF Starts, Plays, Changes
<1>10. ASSUME NEW s \in {1, 2}, Rolls(w, u, g, s)
      PROVE  Changes(w, v, g)
  <2>1. Plays(w, u, g) /\ Plays(w, v, g) /\ g \in u.games
    BY <1>6, <1>10 DEF Rolls, Plays
  <2>2. Rolls(w, v, g, s)
    BY <1>1, <1>3, <1>4, <1>5, <1>10, <2>1 DEF Rolls, Plays
  <2> QED
    BY <2>2 DEF Changes
<1>11. ASSUME NEW s \in {1, 2}, RollsLast(w, u, g, s)
      PROVE  Changes(w, v, g)
  <2>1. Plays(w, u, g) /\ Plays(w, v, g) /\ g \in u.games
    BY <1>6, <1>11 DEF RollsLast, Plays
  <2>2. \A t \in {1, 2} : /\ v.player[Holder(v, g, t)].can_play = u.player[Holder(u, g, t)].can_play
                          /\ v.player[Holder(v, g, t)].score = u.player[Holder(u, g, t)].score
    BY <1>3, <1>4, <2>1 DEF Plays
  <2>3. PICK winners \in (SUBSET {1, 2}) \ {{}} : Awards(w, u, g, winners)
    BY <1>11 DEF RollsLast
  <2>4. Awards(w, v, g, winners)
    BY <2>2, <2>3 DEF Awards
  <2>5. /\ \A t \in {1, 2} : ~v.player[Holder(v, g, t)].can_play
        /\ (\E t \in {1, 2} : v.player[Holder(v, g, t)].score = BEST_OF)
             <=> \E t \in {1, 2} : u.player[Holder(u, g, t)].score = BEST_OF
    BY <1>11, <2>2 DEF RollsLast
  <2>6. RollsLast(w, v, g, s)
    BY <1>1, <1>11, <2>1, <2>4, <2>5 DEF RollsLast
  <2> QED
    BY <2>6 DEF Changes
<1>12. ASSUME NEW s \in {1, 2}, Vacates(w, u, g, s)
      PROVE  Changes(w, v, g)
  <2>1. Vacates(w, v, g, s)
    BY <1>1, <1>3, <1>5, <1>12 DEF Vacates
  <2> QED
    BY <2>1 DEF Changes
<1> QED
  BY <1>7, <1>8, <1>9, <1>10, <1>11, <1>12 DEF Changes

\* u is as good as w.
Mild(w, u) ==
  /\ u \in World /\ Seated(u) /\ AllSame(w, u)
  /\ \A o : Left(u, o) => Left(w, o)

\* What a handler makes of a world: the process dies, or one game moves on and
\* only the player who was served may have left a lobby.
Good(w, v, p) ==
  \/ v.crashed
  \/ /\ Seated(v)
     /\ \A o : Left(v, o) => o = p \/ Left(w, o)
     /\ Moves(w, v)

LEMMA GoodAfterMild ==
  ASSUME NEW w, NEW u, NEW v, NEW p, Mild(w, u), Good(u, v, p)
  PROVE  Good(w, v, p)
<1>1. AllSame(u, v) => AllSame(w, v)
  BY SameGameTransitive DEF Mild, AllSame
<1>2. ASSUME NEW g \in GameIds, Changes(u, v, g), OthersSame(u, v, g)
      PROVE  Changes(w, v, g) /\ OthersSame(w, v, g)
  BY <1>2, SameGameTransitive, ChangesAfterSame DEF Mild, AllSame, OthersSame
<1> QED
  BY <1>1, <1>2 DEF Good, Moves, Mild

LEMMA AlikeMild ==
  ASSUME NEW w \in World, Seated(w), NEW u, Alike(w, u)
  PROVE  Mild(w, u)
BY AlikeSeated DEF Mild, AllSame, Alike

LEMMA GoodBeforeAlike ==
  ASSUME NEW w, NEW u \in World, NEW v, NEW p, Good(w, u, p), Alike(u, v),
         u.crashed => v.crashed
  PROVE  Good(w, v, p)
<1>1. CASE u.crashed
  BY <1>1 DEF Good
<1>2. CASE ~u.crashed
  <2>1. /\ Seated(u) /\ Moves(w, u)
        /\ \A o : Left(u, o) => o = p \/ Left(w, o)
    BY <1>2 DEF Good
  <2>2. Seated(v) /\ AllSame(u, v) /\ \A o : Left(v, o) <=> Left(u, o)
    BY <2>1, AlikeSeated DEF AllSame
  <2>3. \A g \in GameIds : v.game[g].is_new_round = u.game[g].is_new_round
    BY DEF Alike, SameBoard
  <2>4. AllSame(w, u) => AllSame(w, v)
    BY <2>2, SameGameTransitive DEF AllSame
  <2>5. ASSUME NEW g \in GameIds, Changes(w, u, g), OthersSame(w, u, g)
        PROVE  Changes(w, v, g) /\ OthersSame(w, v, g)
    BY <2>2, <2>3, <2>5, SameGameTransitive, ChangesBeforeSame DEF AllSame, OthersSame
  <2> QED
    BY <2>1, <2>2, <2>4, <2>5 DEF Good, Moves
<1> QED
  BY <1>1, <1>2

-----------------------------------------------------------------------------
(* Three things a step may do to the seats: a player loses his seat, a     *)
(* player without one is forgotten, a round goes on.                       *)

\* Player p is unknown, or in the menu without a seat.
Rid(v, p, g) ==
  \/ p \notin Known(v)
  \/ /\ p \in v.players /\ p \notin Dropped(v)
     /\ v.player[p].state = "IN_MAIN_MENU" /\ v.player[p].logged_in
     /\ \/ v.player[p].game = nullptr
        \/ v.player[p].game = g /\ Waits(v, g)
\* What Seated says of player o.
Agrees(v, o) ==
  /\ o \in v.players => PlayerAgrees(v, o)
  /\ o \in Dropped(v) => DroppedAgrees(v, o)
  /\ ClosedAgrees(v, o)

\* A step that changes the players P and the games G keeps the worlds seated
\* if it does so for them and for those who point to G.
Framed(w, v, P, G, p) ==
  /\ \A o \in Objects \ P : SamePlayer(w, v, o)
  /\ \A h \in GameIds \ G : SameBoard(w, v, h) /\ (h \in v.games <=> h \in w.games)
  /\ v.players \ P = w.players \ P
  /\ Dropped(v) \ P = Dropped(w) \ P
  /\ \A h \in w.games \ G : \A o \in Sits(w, h) : o \notin P
  /\ \A h \in v.games \cap G : GameAgrees(v, h) /\ RoundAgrees(v, h)
  /\ \A o \in Known(v) : o \in P \/ w.player[o].game \in G =>
       /\ Agrees(v, o)
       /\ Left(v, o) => o = p \/ Left(w, o)

LEMMA FrameSeated ==
  ASSUME NEW w \in World, Seated(w), NEW v \in World, NEW P, NEW G, NEW p,
         Framed(w, v, P, G, p)
  PROVE  /\ Seated(v)
         /\ \A o : Left(v, o) => o = p \/ Left(w, o)
         /\ \A h \in GameIds \ G : SameGame(w, v, h)
<1>1. /\ \A h \in GameIds \ G :
           (\A o \in Sits(w, h) : o \notin P) =>
             /\ SameGame(w, v, h)
             /\ h \in v.games => GameAgrees(v, h) /\ RoundAgrees(v, h)
      /\ \A o \in Known(v) \ P :
           w.player[o].game \notin G =>
             /\ o \in v.players => PlayerAgrees(v, o)
             /\ o \in Dropped(v) => DroppedAgrees(v, o)
             /\ ClosedAgrees(v, o)
             /\ Left(v, o) <=> Left(w, o)
  BY Frame DEF Framed
<1>2. v.games \subseteq GameIds
  BY Types
<1>3. ASSUME NEW h \in GameIds \ G
      PROVE  SameGame(w, v, h)
  <2>1. CASE h \in w.games
    BY <1>1, <2>1 DEF Framed
  <2>2. CASE h \notin w.games
    BY <2>2 DEF SameGame, Framed
  <2> QED
    BY <2>1, <2>2
<1>4. \A h \in v.games : GameAgrees(v, h) /\ RoundAgrees(v, h)
  <2> TAKE h \in v.games
  <2>1. CASE h \in G
    BY <2>1 DEF Framed
  <2>2. CASE h \notin G
    <3>1. h \in w.games \ G /\ h \in GameIds \ G
      BY <1>2, <2>2 DEF Framed
    <3>2. \A o \in Sits(w, h) : o \notin P
      BY <3>1 DEF Framed
    <3> QED
      BY <1>1, <3>1, <3>2
  <2> QED
    BY <2>1, <2>2
<1>5. \A o \in Known(v) : Agrees(v, o) /\ (Left(v, o) => o = p \/ Left(w, o))
  <2> TAKE o \in Known(v)
  <2>1. CASE o \in P \/ w.player[o].game \in G
    BY <2>1 DEF Framed
  <2>2. CASE ~(o \in P \/ w.player[o].game \in G)
    BY <1>1, <2>2 DEF Agrees
  <2> QED
    BY <2>1, <2>2
<1>6. \A o : Left(v, o) => o = p \/ Left(w, o)
  BY <1>5 DEF Left, Known
<1> QED
  BY <1>3, <1>4, <1>5, <1>6 DEF Seated, Agrees, Known

LEMMA VacateSeated ==
  ASSUME NEW w \in World, Seated(w), NEW v \in World,
         NEW p \in Objects, NEW g \in w.games, NEW s \in {1, 2},
         Holder(w, g, s) = p, Holder(v, g, s) = nullptr,
         Holder(v, g, 3 - s) = Holder(w, g, 3 - s),
         v.game[g].state \in {w.game[g].state, "FINISHED"},
         v.game[g].is_end_round = w.game[g].is_end_round,
         \A h \in GameIds \ {g} : SameBoard(w, v, h),
         \A o \in Objects \ {p} : SamePlayer(w, v, o),
         v.games = w.games, Rid(v, p, g),
         v.players \ {p} = w.players \ {p}, Dropped(v) \ {p} = Dropped(w) \ {p}
  PROVE  /\ Seated(v)
         /\ \A o : Left(v, o) => o = p \/ Left(w, o)
         /\ Vacates(w, v, g, s) /\ OthersSame(w, v, g)
<1> DEFINE r == Holder(w, g, 3 - s)
<1>1. /\ p # nullptr /\ g \in GameIds /\ nullptr \notin GameIds /\ nullptr \notin Objects
      /\ w.games \subseteq GameIds
  BY Types
<1>2. Known(v) \ {p} = Known(w) \ {p}
  BY DEF Known
<1>3. /\ GameAgrees(w, g) /\ \A h \in w.games : GameAgrees(w, h)
      /\ Sits(w, g) = {p, r} \ {nullptr} /\ Sits(v, g) = {r} \ {nullptr}
      /\ r # nullptr => Filled(w, g)
      /\ r \in Objects \cup {nullptr}
  BY <1>1, Types DEF Seated, Sits, Holder, Filled
<1>4. /\ p \in Known(w) /\ w.player[p].game = g /\ r # p
      /\ r # nullptr => r \in Known(w) /\ w.player[r].game = g
  BY <1>1, <1>3 DEF GameAgrees, Filled, Holder
<1>5. /\ v.game[g].player1 = IF s = 1 THEN nullptr ELSE w.game[g].player1
      /\ v.game[g].player2 = IF s = 2 THEN nullptr ELSE w.game[g].player2
      /\ ~Filled(v, g)
  BY <1>1 DEF Holder, Filled
<1>6. Waits(v, g) => Waits(w, g)
  BY DEF Waits
<1>7. Waits(w, g) => w.game[g].player2 = nullptr /\ s = 1 /\ r = nullptr
  <2>1. Waits(w, g) => w.game[g].player2 = nullptr
    BY <1>3 DEF GameAgrees
  <2> QED
    BY <1>1, <2>1 DEF Holder
<1>8. GameAgrees(v, g) /\ RoundAgrees(v, g)
  <2>1. r # nullptr => r \in Known(v) /\ v.player[r].game = g
    BY <1>2, <1>3, <1>4 DEF SamePlayer
  <2>2. Waits(v, g) => v.game[g].player2 = nullptr /\ r = nullptr
    BY <1>5, <1>6, <1>7
  <2> QED
    BY <1>3, <1>5, <2>1, <2>2 DEF GameAgrees, RoundAgrees
<1>9. p \in Known(v) => Agrees(v, p)
  <2> SUFFICES ASSUME p \in Known(v)
               PROVE  Agrees(v, p)
    OBVIOUS
  <2>1. /\ p \in v.players /\ p \notin Dropped(v)
        /\ v.player[p].state = "IN_MAIN_MENU" /\ v.player[p].logged_in
        /\ \/ v.player[p].game = nullptr
           \/ v.player[p].game = g /\ Waits(v, g)
    BY DEF Rid
  <2>2. CASE v.player[p].game = nullptr
    BY <1>1, <2>1, <2>2 DEF Agrees, PlayerAgrees, ClosedAgrees, Left
  <2>3. CASE v.player[p].game = g /\ Waits(v, g)
    <3>1. v.game[g].player1 = nullptr
      BY <1>5, <1>6, <1>7, <2>3
    <3> QED
      BY <2>1, <2>3, <3>1 DEF Agrees, PlayerAgrees, ClosedAgrees, Left
  <2> QED
    BY <2>1, <2>2, <2>3
<1>10. ASSUME NEW o \in Known(v) \ {p}, w.player[o].game = g
       PROVE  Agrees(v, o) /\ ~Left(v, o)
  <2>1. /\ o \in Known(w) /\ o \in Objects /\ SamePlayer(w, v, o)
        /\ o \in v.players => o \in w.players
        /\ o \in Dropped(v) => o \in Dropped(w)
    BY <1>2, Types
  <2>2. /\ v.player[o].game = g /\ v.player[o].state = w.player[o].state
        /\ v.player[o].can_play = w.player[o].can_play
        /\ v.player[o].logged_in = w.player[o].logged_in
    BY <1>10, <2>1 DEF SamePlayer
  <2>3. o \in v.players => PlayerAgrees(v, o) /\ ~Left(v, o)
    <3> SUFFICES ASSUME o \in v.players
                 PROVE  PlayerAgrees(v, o) /\ ~Left(v, o)
      OBVIOUS
    <3>1. PlayerAgrees(w, o)
      BY <2>1 DEF Seated
    <3>2. w.player[o].state # "IN_LOBBY" /\ ~Left(w, o)
      BY <1>1, <1>7, <1>10, <3>1 DEF PlayerAgrees, Holder
    <3>3. w.player[o].state = "IN_GAME" => ~Waits(v, g) /\ o \in Sits(v, g)
      BY <1>3, <1>6, <1>10, <3>1 DEF PlayerAgrees
    <3>4. v.player[o].logged_in
      BY <1>1, <1>10, <2>2, <3>1 DEF PlayerAgrees
    <3>5. ~Left(v, o)
      <4>1. o \in w.players /\ v.games = w.games
        BY <2>1
      <4> QED
        BY <1>10, <2>2, <3>2, <4>1 DEF Left
    <3>6. v.player[o].game = g
      BY <1>10, <2>2
    <3>7. PlayerAgrees(v, o) <=>
            /\ v.player[o].state = "IN_LOBBY" =>
                 g \in v.games /\ Waits(v, g) /\ v.game[g].player1 = o
            /\ v.player[o].state = "IN_GAME" =>
                 g \in v.games /\ ~Waits(v, g) /\ o \in Sits(v, g)
            /\ Left(v, o) => Waits(v, g) /\ v.game[g].player1 = nullptr
            /\ ~v.player[o].logged_in => g = nullptr /\ v.player[o].state = "IN_MAIN_MENU"
      BY <3>6 DEF PlayerAgrees
    <3> QED
      BY <2>2, <3>2, <3>3, <3>4, <3>5, <3>7
  <2>4. o \in Dropped(v) => DroppedAgrees(v, o)
    <3> SUFFICES ASSUME o \in Dropped(v)
                 PROVE  DroppedAgrees(v, o)
      OBVIOUS
    <3>1. DroppedAgrees(w, o)
      BY <2>1 DEF Seated
    <3>2. o \in Sits(w, g) /\ o = r
      BY <1>3, <1>10, <3>1 DEF DroppedAgrees
    <3> QED
      BY <1>3, <1>4, <1>5, <1>6, <1>10, <2>2, <3>1, <3>2 DEF DroppedAgrees, Holder
  <2> QED
    BY <2>2, <2>3, <2>4 DEF Agrees, ClosedAgrees, Known, Left
<1>11. \A h \in w.games \ {g} : p \notin Sits(w, h)
  BY <1>3, <1>4 DEF GameAgrees
<1>12. /\ Seated(v)
       /\ \A o : Left(v, o) => o = p \/ Left(w, o)
       /\ \A h \in GameIds \ {g} : SameGame(w, v, h)
  <2> DEFINE P == {p}  G == {g}
  <2>1. /\ \A o \in Objects \ P : SamePlayer(w, v, o)
        /\ \A h \in GameIds \ G : SameBoard(w, v, h) /\ (h \in v.games <=> h \in w.games)
        /\ v.players \ P = w.players \ P /\ Dropped(v) \ P = Dropped(w) \ P
        /\ \A h \in w.games \ G : \A o \in Sits(w, h) : o \notin P
    BY <1>11
  <2>2. \A h \in v.games \cap G : GameAgrees(v, h) /\ RoundAgrees(v, h)
    BY <1>8
  <2>3. \A o \in Known(v) : o \in P \/ w.player[o].game \in G =>
           /\ Agrees(v, o)
           /\ Left(v, o) => o = p \/ Left(w, o)
    BY <1>9, <1>10
  <2>4. G = {g}
    OBVIOUS
  <2> HIDE DEF P, G
  <2>5. Framed(w, v, P, G, p)
    BY <2>1, <2>2, <2>3 DEF Framed
  <2>6. /\ Seated(v)
        /\ \A o : Left(v, o) => o = p \/ Left(w, o)
        /\ \A h \in GameIds \ G : SameGame(w, v, h)
    BY <2>5, FrameSeated
  <2> QED
    BY <2>4, <2>6
<1>13. Vacates(w, v, g, s)
  <2>1. r # nullptr => SamePlayer(w, v, r)
    BY <1>3, <1>4
  <2>2. SameSeat(w, v, g, 3 - s)
    BY <2>1 DEF SameSeat, SamePlayer
  <2> QED
    BY <1>1, <2>2 DEF Vacates
<1> QED
  BY <1>12, <1>13 DEF OthersSame

\* Player p, who has no seat of a game there is, is forgotten or gets no seat.
LEMMA ForgetSeated ==
  ASSUME NEW w \in World, Seated(w), NEW v \in World, NEW p \in Objects,
         \A o \in Objects \ {p} : SamePlayer(w, v, o),
         \A h \in w.games : SameBoard(w, v, h) /\ p \notin Sits(w, h),
         \A h \in GameIds : w.game[h].player1 = nullptr => v.game[h].player1 = nullptr,
         v.games = w.games,
         v.players \ {p} = w.players \ {p}, Dropped(v) \ {p} = Dropped(w) \ {p},
         p \in Known(v) => Agrees(v, p)
  PROVE  /\ Seated(v) /\ AllSame(w, v)
         /\ \A o : Left(v, o) => o = p \/ Left(w, o)
<1> DEFINE P == {p}  G == GameIds \ w.games
<1>1. /\ \A o \in Objects \ P : SamePlayer(w, v, o)
      /\ \A h \in GameIds \ G : SameBoard(w, v, h) /\ (h \in v.games <=> h \in w.games)
      /\ v.players \ P = w.players \ P /\ Dropped(v) \ P = Dropped(w) \ P
      /\ \A h \in w.games \ G : \A o \in Sits(w, h) : o \notin P
      /\ \A h \in v.games \cap G : GameAgrees(v, h) /\ RoundAgrees(v, h)
  OBVIOUS
<1>2. ASSUME NEW o \in Known(v), o # p, w.player[o].game \in G
      PROVE  Agrees(v, o) /\ (Left(v, o) => Left(w, o))
  <2>1. /\ o \in Known(w) /\ o \in Objects /\ SamePlayer(w, v, o)
        /\ o \in v.players => o \in w.players
        /\ o \in Dropped(v) => o \in Dropped(w)
        /\ nullptr \notin GameIds
    BY <1>2, Types DEF Known
  <2>2. /\ v.player[o].game = w.player[o].game /\ v.player[o].state = w.player[o].state
        /\ v.player[o].logged_in = w.player[o].logged_in
    BY <2>1 DEF SamePlayer
  <2>3. /\ o \in w.players => PlayerAgrees(w, o)
        /\ o \in Dropped(w) => DroppedAgrees(w, o)
        /\ ClosedAgrees(w, o)
    BY <2>1 DEF Seated
  <2>4. ~Left(v, o)
    BY <1>2, <2>2 DEF Left
  <2>5. o \in v.players => PlayerAgrees(v, o)
    BY <1>2, <2>1, <2>2, <2>3, <2>4 DEF PlayerAgrees
  <2>6. o \in Dropped(v) => DroppedAgrees(v, o)
    BY <1>2, <2>1, <2>2, <2>3 DEF DroppedAgrees
  <2>7. ClosedAgrees(v, o)
    BY <1>2, <2>1, <2>2, <2>3 DEF ClosedAgrees
  <2> QED
    BY <2>4, <2>5, <2>6, <2>7 DEF Agrees
<1>3. \A o \in Known(v) : o \in P \/ w.player[o].game \in G =>
        /\ Agrees(v, o)
        /\ Left(v, o) => o = p \/ Left(w, o)
  BY <1>2
<1>4. \A h \in GameIds : h \in G \/ h \in w.games
  OBVIOUS
<1>5. \A h \in G : SameGame(w, v, h)
  BY DEF SameGame
<1> HIDE DEF P, G
<1>6. Framed(w, v, P, G, p)
  BY <1>1, <1>3 DEF Framed
<1>7. /\ Seated(v)
      /\ \A o : Left(v, o) => o = p \/ Left(w, o)
      /\ \A h \in GameIds \ G : SameGame(w, v, h)
  BY <1>6, FrameSeated
<1> QED
  BY <1>4, <1>5, <1>7 DEF AllSame

-----------------------------------------------------------------------------
(* What the methods write.                                                 *)

\* The vectors, and whom the seats belong to.
SameVectors(w, v) ==
  /\ v.players = w.players
  /\ v.disconnected_players = w.disconnected_players
  /\ v.games = w.games

LEMMA SameRefl ==
  ASSUME NEW w, NEW v, NEW o
  PROVE  /\ v.player[o] = w.player[o] => SamePlayer(w, v, o)
         /\ v.game[o] = w.game[o] => SameBoard(w, v, o)
BY DEF SamePlayer, SameBoard

LEMMA FreeSeatFields ==
  ASSUME NEW w \in World, NEW g \in GameIds, NEW p
  PROVE  LET v == free_seat(w, g, p) IN
         /\ v.player = w.player /\ SameVectors(w, v) /\ v.crashed = w.crashed
         /\ \A h \in GameIds \ {g} : v.game[h] = w.game[h]
         /\ v.game[g].state = w.game[g].state
         /\ v.game[g].is_end_round = w.game[g].is_end_round
         /\ v.game[g].is_new_round = w.game[g].is_new_round
         /\ v.game[g].player1 = IF w.game[g].player1 = p THEN nullptr ELSE w.game[g].player1
         /\ v.game[g].player2 = IF w.game[g].player1 = p THEN w.game[g].player2 ELSE nullptr
<1>1. w.game \in [GameIds -> Game] /\ w.game[g] \in Game
  BY WorldFields
<1> DEFINE r == w.game[g]
           r1 == [r EXCEPT !.player1 = nullptr]
           r2 == [r EXCEPT !.player2 = nullptr]
<1>2. /\ r1.state = r.state /\ r1.is_end_round = r.is_end_round
      /\ r1.is_new_round = r.is_new_round
      /\ r1.player1 = nullptr /\ r1.player2 = r.player2
      /\ r2.state = r.state /\ r2.is_end_round = r.is_end_round
      /\ r2.is_new_round = r.is_new_round
      /\ r2.player2 = nullptr /\ r2.player1 = r.player1
  BY <1>1 DEF Game
<1>3. free_seat(w, g, p) = [w EXCEPT !.game[g] = IF r.player1 = p THEN r1 ELSE r2]
  BY DEF free_seat
<1> HIDE DEF r1, r2
<1>4. \A x : LET v == [w EXCEPT !.game[g] = x] IN
        /\ v.player = w.player /\ SameVectors(w, v) /\ v.crashed = w.crashed
        /\ \A h \in GameIds \ {g} : v.game[h] = w.game[h]
        /\ v.game[g] = x
  BY <1>1 DEF World, SameVectors
<1> DEFINE x == IF r.player1 = p THEN r1 ELSE r2
<1>5. /\ x.state = r.state /\ x.is_end_round = r.is_end_round
      /\ x.is_new_round = r.is_new_round
      /\ x.player1 = IF r.player1 = p THEN nullptr ELSE r.player1
      /\ x.player2 = IF r.player1 = p THEN r.player2 ELSE nullptr
  BY <1>2
<1>6. free_seat(w, g, p) = [w EXCEPT !.game[g] = x]
  BY <1>3
<1> HIDE DEF x
<1> QED
  BY <1>4, <1>5, <1>6

LEMMA DisconnectFields ==
  ASSUME NEW w \in World, NEW p \in Objects
  PROVE  LET v == disconnect_player(w, p)
             g == w.player[p].game
             seated == g # nullptr /\ p \in {w.game[g].player1, w.game[g].player2}
         IN
         /\ v \in World /\ v.games = w.games /\ v.players = w.players \ {p}
         /\ v.disconnected_players = w.disconnected_players
         /\ v.crashed = w.crashed
         /\ \A o \in Objects \ {p} : v.player[o] = w.player[o]
         /\ \A h \in GameIds : h # g \/ ~seated => v.game[h] = w.game[h]
         /\ seated =>
              /\ g \in GameIds
              /\ v.game[g].state = w.game[g].state
              /\ v.game[g].is_end_round = w.game[g].is_end_round
              /\ v.game[g].is_new_round = w.game[g].is_new_round
              /\ v.game[g].player1 = IF w.game[g].player1 = p THEN nullptr ELSE w.game[g].player1
              /\ v.game[g].player2 = IF w.game[g].player1 = p THEN w.game[g].player2 ELSE nullptr
<1> DEFINE g == w.player[p].game
           u == [w EXCEPT !.player[p].game = nullptr]
           seated == g # nullptr /\ p \in {w.game[g].player1, w.game[g].player2}
           f == IF seated THEN free_seat(u, g, p) ELSE u
<1>1. g \in GameIds \cup {nullptr} /\ w.player \in [Objects -> Player]
  BY Types, WorldFields
<1>2. u \in World /\ disconnect_player(w, p) \in World
  BY KeepsSelf, PlayerFields, DisconnectKeeps, KeepsType
<1>3. /\ \A o \in Objects \ {p} : u.player[o] = w.player[o]
      /\ u.game = w.game /\ SameVectors(w, u) /\ u.crashed = w.crashed
  BY <1>1 DEF World, SameVectors
<1>4. u.game[g].player1 = w.game[g].player1 /\ u.game[g].player2 = w.game[g].player2
  BY <1>3
<1>5. disconnect_player(w, p) = erase(f, p)
  BY <1>4 DEF disconnect_player
<1> HIDE DEF g, u
<1>6. /\ \A o \in Objects \ {p} : f.player[o] = w.player[o]
      /\ SameVectors(w, f) /\ f.crashed = w.crashed
      /\ \A h \in GameIds : h # g \/ ~seated => f.game[h] = w.game[h]
      /\ seated =>
           /\ g \in GameIds
           /\ f.game[g].state = w.game[g].state
           /\ f.game[g].is_end_round = w.game[g].is_end_round
           /\ f.game[g].is_new_round = w.game[g].is_new_round
           /\ f.game[g].player1 = IF w.game[g].player1 = p THEN nullptr ELSE w.game[g].player1
           /\ f.game[g].player2 = IF w.game[g].player1 = p THEN w.game[g].player2 ELSE nullptr
  <2>1. CASE ~seated
    BY <1>3, <2>1
  <2>2. CASE seated
    <3>1. g \in GameIds /\ f = free_seat(u, g, p)
      BY <1>1, <2>2
    <3> HIDE DEF f, seated
    <3> QED
      BY <1>2, <1>3, <2>2, <3>1, FreeSeatFields DEF SameVectors
  <2> QED
    BY <2>1, <2>2
<1>7. f \in World
  BY <1>1, <1>2, KeepsSelf, FreeSeatKeeps, KeepsType
<1>8. \A x \in World : LET v == erase(x, p) IN
        /\ v.player = x.player /\ v.game = x.game /\ v.games = x.games
        /\ v.disconnected_players = x.disconnected_players
        /\ v.players = x.players \ {p} /\ v.crashed = x.crashed
  BY DEF World, erase
<1> HIDE DEF f
<1>9. LET v == erase(f, p) IN
        /\ v.games = w.games /\ v.players = w.players \ {p}
        /\ v.disconnected_players = w.disconnected_players
        /\ v.crashed = w.crashed
        /\ v.player = f.player /\ v.game = f.game
  BY <1>6, <1>7, <1>8 DEF SameVectors
<1> QED
  BY <1>2, <1>5, <1>6, <1>9 DEF g
-----------------------------------------------------------------------------
(* Errors and forced disconnection.                                        *)

LEMMA SitsBelongs ==
  ASSUME NEW w \in World, Seated(w), NEW g \in w.games, NEW o \in Sits(w, g)
  PROVE  o \in Objects /\ o \in Known(w) /\ w.player[o].game = g /\ g \in GameIds
BY Types DEF Seated, GameAgrees

LEMMA KickGood ==
  ASSUME NEW w \in World, Seated(w), NEW p \in w.players, p \notin Dropped(w), NEW q
  PROVE  Good(w, disconnect_player(w, p), q)
<1> DEFINE v == disconnect_player(w, p)
           g == w.player[p].game
           seated == g # nullptr /\ p \in {w.game[g].player1, w.game[g].player2}
<1>1. /\ p \in Objects /\ nullptr \notin Objects /\ nullptr \notin GameIds
      /\ w.games \subseteq GameIds
  BY Types
<1>2. /\ v \in World /\ v.games = w.games /\ v.players = w.players \ {p}
      /\ v.disconnected_players = w.disconnected_players
      /\ \A o \in Objects \ {p} : v.player[o] = w.player[o]
      /\ \A h \in GameIds : h # g \/ ~seated => v.game[h] = w.game[h]
      /\ seated =>
           /\ g \in GameIds
           /\ v.game[g].state = w.game[g].state
           /\ v.game[g].is_end_round = w.game[g].is_end_round
           /\ v.game[g].is_new_round = w.game[g].is_new_round
           /\ v.game[g].player1 = IF w.game[g].player1 = p THEN nullptr ELSE w.game[g].player1
           /\ v.game[g].player2 = IF w.game[g].player1 = p THEN w.game[g].player2 ELSE nullptr
  BY <1>1, DisconnectFields
<1> SUFFICES Good(w, v, q)
  OBVIOUS
<1> HIDE DEF v, g, seated
<1>3. /\ Dropped(v) = Dropped(w) /\ p \notin Known(v) /\ Rid(v, p, g)
      /\ v.players \ {p} = w.players \ {p} /\ Dropped(v) \ {p} = Dropped(w) \ {p}
  BY <1>2 DEF Dropped, Known, Rid
<1>4. /\ \A o \in Objects \ {p} : SamePlayer(w, v, o)
      /\ \A h \in GameIds : h # g \/ ~seated => SameBoard(w, v, h)
  BY <1>2, SameRefl
<1>5. ~Left(v, p)
  BY <1>3 DEF Left, Known
<1>6. CASE seated /\ g \in w.games
  <2>1. p \in {w.game[g].player1, w.game[g].player2} /\ GameAgrees(w, g)
    BY <1>6 DEF seated, Seated
  <2>2. PICK s \in {1, 2} : /\ Holder(w, g, s) = p /\ Holder(v, g, s) = nullptr
                            /\ Holder(v, g, 3 - s) = Holder(w, g, 3 - s)
    <3>1. CASE w.game[g].player1 = p
      <4>1. /\ Holder(w, g, 1) = p /\ Holder(v, g, 1) = nullptr
            /\ Holder(v, g, 3 - 1) = Holder(w, g, 3 - 1)
        BY <1>2, <1>6, <3>1 DEF Holder
      <4> QED
        BY <4>1
    <3>2. CASE w.game[g].player1 # p
      <4>1. /\ Holder(w, g, 2) = p /\ Holder(v, g, 2) = nullptr
            /\ Holder(v, g, 3 - 2) = Holder(w, g, 3 - 2)
        BY <1>2, <1>6, <2>1, <3>2 DEF Holder
      <4> QED
        BY <4>1
    <3> QED
      BY <3>1, <3>2
  <2>3. /\ v.game[g].state \in {w.game[g].state, "FINISHED"}
        /\ v.game[g].is_end_round = w.game[g].is_end_round
        /\ \A h \in GameIds \ {g} : SameBoard(w, v, h)
        /\ g \in GameIds
    BY <1>2, <1>4, <1>6
  <2>4. /\ Seated(v)
        /\ \A o : Left(v, o) => o = p \/ Left(w, o)
        /\ Vacates(w, v, g, s) /\ OthersSame(w, v, g)
    BY <1>1, <1>2, <1>3, <1>4, <1>6, <2>2, <2>3, VacateSeated
  <2> QED
    BY <1>5, <2>3, <2>4 DEF Good, Moves, Changes
<1>7. CASE ~(seated /\ g \in w.games)
  <2>1. \A h \in w.games : p \notin Sits(w, h)
    <3>1. \A h \in w.games : p \in Sits(w, h) => h = g
      BY SitsBelongs DEF g
    <3>2. p \in Sits(w, g) /\ g # nullptr => seated
      BY DEF Sits, seated
    <3> QED
      BY <1>1, <1>7, <3>1, <3>2
  <2>2. \A h \in w.games : SameBoard(w, v, h)
    BY <1>1, <1>4, <1>7
  <2>3. \A h \in GameIds : w.game[h].player1 = nullptr => v.game[h].player1 = nullptr
    BY <1>2
  <2>4. /\ Seated(v) /\ AllSame(w, v)
        /\ \A o : Left(v, o) => o = p \/ Left(w, o)
    BY <1>1, <1>2, <1>3, <1>4, <2>1, <2>2, <2>3, ForgetSeated
  <2> QED
    BY <1>5, <2>4 DEF Good, Moves
<1> QED
  BY <1>6, <1>7

LEMMA ErrorCases ==
  ASSUME NEW w \in World, NEW p \in Objects
  PROVE  LET v == player_error_message_inc(w, p) IN
         /\ v.crashed = w.crashed
         /\ \/ Alike(w, v)
            \/ \E u \in World : Alike(w, u) /\ v = disconnect_player(u, p)
<1> DEFINE n == w.player[p].number_of_error_messages + 1
           u == [w EXCEPT !.player[p].number_of_error_messages = n]
<1>1. n \in Nat
  BY WorldFields DEF Player
<1>2. Alike(w, u) /\ u \in World
  <2>1. \A m \in Nat : Alike(w, [w EXCEPT !.player[p].number_of_error_messages = m])
    BY AlikeSelf, FieldsAlike
  <2> HIDE DEF n
  <2>2. Alike(w, u)
    BY <1>1, <2>1
  <2> HIDE DEF u
  <2> QED
    BY <2>2 DEF Alike
<1>3. u.crashed = w.crashed
  BY DEF World
<1>4. player_error_message_inc(w, p) =
        IF u.player[p].number_of_error_messages >= MAX_ERRORS
          THEN disconnect_player(u, p) ELSE u
  BY DEF player_error_message_inc
<1> HIDE DEF u
<1>5. disconnect_player(u, p).crashed = u.crashed
  BY <1>2, DisconnectFields
<1> QED
  BY <1>2, <1>3, <1>4, <1>5

LEMMA ErrorGood ==
  ASSUME NEW w \in World, Seated(w), NEW p \in w.players, p \notin Dropped(w), NEW q
  PROVE  Good(w, player_error_message_inc(w, p), q)
<1> DEFINE v == player_error_message_inc(w, p)
<1>1. p \in Objects
  BY Types
<1>2. \/ Alike(w, v)
      \/ \E u \in World : Alike(w, u) /\ v = disconnect_player(u, p)
  BY <1>1, ErrorCases
<1> SUFFICES Good(w, v, q)
  OBVIOUS
<1> HIDE DEF v
<1>3. CASE Alike(w, v)
  <2>1. Mild(w, v)
    BY <1>3, AlikeMild
  <2> QED
    BY <2>1 DEF Mild, Good, Moves
<1>4. ASSUME NEW u \in World, Alike(w, u), v = disconnect_player(u, p)
      PROVE  Good(w, v, q)
  <2>1. Mild(w, u)
    BY <1>4, AlikeMild
  <2>2. p \in u.players /\ p \notin Dropped(u) /\ Seated(u)
    BY <1>4, <2>1 DEF Alike, Dropped, Mild
  <2>3. Good(u, v, q)
    BY <1>4, <2>2, KickGood
  <2> QED
    BY <2>1, <2>3, GoodAfterMild
<1> QED
  BY <1>2, <1>3, <1>4

LEMMA AlikeGood ==
  ASSUME NEW w \in World, Seated(w), NEW v, Alike(w, v), NEW q
  PROVE  Good(w, v, q)
<1>1. Mild(w, v)
  BY AlikeMild
<1> QED
  BY <1>1 DEF Mild, Good, Moves

LEMMA GameStatusGood ==
  ASSUME NEW w \in World, Seated(w), NEW p \in w.players \cup {nullptr},
         p \notin Dropped(w), NEW q
  PROVE  LET v == game_status(w, p) IN
         /\ Good(w, v, q) /\ (w.crashed => v.crashed)
         /\ p # nullptr /\ w.player[p].state = "IN_GAME" => v.crashed \/ Alike(w, v)
         /\ p = nullptr => v.crashed
<1> DEFINE v == game_status(w, p)
<1>1. Alike(w, Crash(w)) /\ Crash(w).crashed /\ Alike(w, w)
  BY AlikeSelf, MemoryAlike
<1>2. Good(w, Crash(w), q) /\ Good(w, w, q)
  BY <1>1, AlikeGood DEF Good
<1>3. CASE p = nullptr
  BY <1>1, <1>2, <1>3 DEF game_status
<1>4. CASE p # nullptr
  <2>1. p \in w.players /\ p \in Objects
    BY <1>4, Types
  <2>2. CASE w.player[p].state # "IN_GAME"
    <3>1. v = player_error_message_inc(w, p)
      BY <1>4, <2>2 DEF game_status
    <3> QED
      BY <1>4, <2>1, <2>2, <3>1, ErrorGood, ErrorCases
  <2>3. CASE w.player[p].state = "IN_GAME"
    <3>1. v \in {Crash(w), w, forgive(w, p)}
      BY <1>4, <2>3 DEF game_status
    <3>2. Alike(w, forgive(w, p)) /\ forgive(w, p).crashed = w.crashed
      <4>1. forgive(w, p).crashed = w.crashed
        BY DEF forgive, World
      <4> QED
        BY <1>1, <2>1, <4>1, ForgiveAlike
    <3>3. Good(w, forgive(w, p), q)
      BY <3>2, AlikeGood
    <3> QED
      BY <1>1, <1>2, <1>4, <3>1, <3>2, <3>3
  <2> QED
    BY <2>2, <2>3
<1> QED
  BY <1>3, <1>4

\* v is as good as u.
LEMMA GoodBeforeSame ==
  ASSUME NEW w, NEW u, NEW v, NEW p, Good(w, u, p),
         u.crashed => v.crashed,
         ~u.crashed => /\ Seated(v) /\ AllSame(u, v)
                       /\ \A g \in GameIds : v.game[g].is_new_round = u.game[g].is_new_round
                       /\ \A o : Left(v, o) => o = p \/ Left(u, o)
  PROVE  Good(w, v, p)
<1>1. CASE u.crashed
  BY <1>1 DEF Good
<1>2. CASE ~u.crashed
  <2>1. Seated(v) /\ Moves(w, u) /\ \A o : Left(v, o) => o = p \/ Left(w, o)
    BY <1>2 DEF Good
  <2>2. AllSame(w, u) => AllSame(w, v)
    BY <1>2, SameGameTransitive DEF AllSame
  <2>3. ASSUME NEW g \in GameIds, Changes(w, u, g), OthersSame(w, u, g)
        PROVE  Changes(w, v, g) /\ OthersSame(w, v, g)
    BY <1>2, <2>3, SameGameTransitive, ChangesBeforeSame DEF AllSame, OthersSame
  <2> QED
    BY <2>1, <2>2, <2>3 DEF Good, Moves
<1> QED
  BY <1>1, <1>2

\* Who is in the menu has no seat.
LEMMA MenuHasNoSeat ==
  ASSUME NEW w \in World, Seated(w), NEW p \in w.players,
         w.player[p].state = "IN_MAIN_MENU", NEW g \in w.games
  PROVE  p \notin Sits(w, g)
<1> SUFFICES ASSUME p \in Sits(w, g)
             PROVE  FALSE
  OBVIOUS
<1>1. w.player[p].game = g
  BY SitsBelongs
<1>2. Left(w, p)
  BY <1>1 DEF Left
<1>3. Waits(w, g) /\ w.game[g].player1 = nullptr
  BY <1>1, <1>2 DEF Seated, PlayerAgrees
<1>4. w.game[g].player2 = nullptr
  BY <1>3 DEF Seated, GameAgrees
<1> QED
  BY <1>3, <1>4 DEF Sits

\* Who sits in a game that has begun is in the game.
LEMMA SeatedPlays ==
  ASSUME NEW w \in World, Seated(w), OneOwner(w), NEW g \in w.games, ~Waits(w, g),
         NEW p \in Sits(w, g), p \in w.players
  PROVE  w.player[p].state = "IN_GAME"
<1>1. w.player[p].game = g /\ p \in Objects
  BY SitsBelongs
<1>2. w.player[p].state # "IN_MAIN_MENU"
  BY MenuHasNoSeat
<1>3. w.player[p].state # "IN_LOBBY"
  BY <1>1 DEF Seated, PlayerAgrees
<1>4. w.player[p].state # "DISCONNECTED" /\ w.player[p].state \in PlayerState
  BY <1>1, Types DEF OneOwner
<1> QED
  BY <1>2, <1>3, <1>4 DEF PlayerState

LEMMA EraseGood ==
  ASSUME NEW w \in World, Seated(w), NEW v \in World, NEW p \in Objects,
         p \notin Dropped(v), Good(w, v, p),
         v.crashed \/ \A h \in v.games : p \notin Sits(v, h)
  PROVE  Good(w, erase(v, p), p)
<1> DEFINE x == erase(v, p)
<1>1. /\ x.player = v.player /\ x.game = v.game /\ x.games = v.games
      /\ x.disconnected_players = v.disconnected_players
      /\ x.players = v.players \ {p} /\ x.crashed = v.crashed
  BY DEF World, erase
<1>2. x \in World
  BY KeepsSelf, EraseKeeps, KeepsType
<1> SUFFICES Good(w, x, p)
  OBVIOUS
<1> HIDE DEF x
<1>3. /\ \A o \in Objects : SamePlayer(v, x, o)
      /\ \A h \in GameIds : SameBoard(v, x, h)
  BY <1>1, SameRefl
<1>4. ~v.crashed => Seated(v)
  BY DEF Good
<1>5. /\ Dropped(x) = Dropped(v) /\ p \notin Known(x)
      /\ v.games \subseteq GameIds
  BY <1>1, Types DEF Dropped, Known
<1>6. ~v.crashed => /\ Seated(x) /\ AllSame(v, x)
                    /\ \A o : Left(x, o) => o = p \/ Left(v, o)
  BY <1>1, <1>2, <1>3, <1>4, <1>5, ForgetSeated
<1> QED
  BY <1>1, <1>6, GoodBeforeSame

-----------------------------------------------------------------------------
(* The commands that leave the seats alone.                                *)

LEMMA LoginGood ==
  ASSUME NEW w \in World, Seated(w), NEW p \in w.players, p \notin Dropped(w),
         NEW name \in Names
  PROVE  Good(w, login(w, p, name), p)
<1> DEFINE v == [forgive(w, p) EXCEPT !.player[p] =
                   [@ EXCEPT !.name = name, !.logged_in = TRUE]]
<1>1. p \in Objects /\ nullptr \notin GameIds /\ w.games \subseteq GameIds
  BY Types
<1>2. CASE w.player[p].logged_in
  <2>1. login(w, p, name) = player_error_message_inc(w, p)
    BY <1>2 DEF login
  <2> QED
    BY <2>1, ErrorGood
<1>3. CASE ~w.player[p].logged_in /\ is_name_taken(w, name)
  <2>1. login(w, p, name) = w
    BY <1>3 DEF login
  <2> QED
    BY <2>1, AlikeSelf, AlikeGood
<1>4. CASE ~w.player[p].logged_in /\ ~is_name_taken(w, name)
  <2>1. login(w, p, name) = v
    BY <1>4 DEF login
  <2>2. /\ SameVectors(w, v) /\ v.game = w.game
        /\ \A o \in Objects \ {p} : v.player[o] = w.player[o]
        /\ v.player[p].game = w.player[p].game
        /\ v.player[p].state = w.player[p].state
        /\ v.player[p].logged_in
    BY <1>1, WorldFields DEF World, Player, forgive, SameVectors
  <2>3. v \in World
    <3> DEFINE r == [[w.player[p] EXCEPT !.number_of_error_messages = 0]
                       EXCEPT !.name = name, !.logged_in = TRUE]
    <3>1. r \in Player
      <4> DEFINE r0 == w.player[p]
      <4>1. r0 \in Player
        BY <1>1, WorldFields
      <4> HIDE DEF r0
      <4>2. [[r0 EXCEPT !.number_of_error_messages = 0]
               EXCEPT !.name = name, !.logged_in = TRUE] \in Player
        BY <4>1 DEF Player
      <4> QED
        BY <4>2 DEF r0
    <3>2. v = [w EXCEPT !.player[p] = r]
      BY <1>1, WorldFields DEF World, forgive
    <3> HIDE DEF v, r
    <3> QED
      BY <1>1, <3>1, <3>2, SetPlayer
  <2> HIDE DEF v
  <2>4. w.player[p].game = nullptr /\ w.player[p].state = "IN_MAIN_MENU"
    BY <1>4 DEF Seated, PlayerAgrees
  <2>5. \A h \in w.games : p \notin Sits(w, h)
    BY <1>1, <2>4, SitsBelongs
  <2>6. p \notin Dropped(v) /\ Agrees(v, p)
    BY <1>1, <2>2, <2>4
       DEF SameVectors, Dropped, Agrees, PlayerAgrees, DroppedAgrees, ClosedAgrees, Left
  <2>7. /\ \A o \in Objects \ {p} : SamePlayer(w, v, o)
        /\ \A h \in GameIds : SameBoard(w, v, h)
        /\ v.games = w.games /\ v.players = w.players /\ Dropped(v) = Dropped(w)
    BY <2>2, SameRefl DEF SameVectors, Dropped
  <2>8. /\ Seated(v) /\ AllSame(w, v)
        /\ \A o : Left(v, o) => o = p \/ Left(w, o)
    BY <1>1, <2>2, <2>3, <2>5, <2>6, <2>7, ForgetSeated
  <2> QED
    BY <2>1, <2>8 DEF Good, Moves
<1> QED
  BY <1>2, <1>3, <1>4

LEMMA HelloGood ==
  ASSUME NEW w \in World, Seated(w), NEW p \in w.players, NEW q
  PROVE  Good(w, alive(w, p), q) /\ Good(w, handshake(w, p), q) /\ Good(w, w, q)
<1>1. p \in Objects
  BY Types
<1>2. Alike(w, w) /\ Alike(w, forgive(w, p)) /\ forgive(w, p) \in World
  BY <1>1, AlikeSelf, ForgiveAlike
<1>3. Alike(w, [forgive(w, p) EXCEPT !.player[p].handshake = TRUE])
  BY <1>1, <1>2, FieldsAlike
<1> QED
  BY <1>2, <1>3, AlikeGood DEF alive, handshake

LEMMA ListGamesGood ==
  ASSUME NEW w \in World, Seated(w), NEW p \in w.players, p \notin Dropped(w), NEW q
  PROVE  Good(w, list_games(w, p), q)
<1>1. p \in Objects
  BY Types
<1>2. Good(w, forgive(w, p), q)
  BY <1>1, AlikeSelf, ForgiveAlike, AlikeGood
<1>3. Good(w, Crash(w), q)
  BY AlikeSelf, MemoryAlike DEF Good
<1> QED
  BY <1>2, <1>3, ErrorGood DEF list_games
-----------------------------------------------------------------------------
(* Leaving.                                                                *)

\* p gives up his seat of g.
LeavesSeat(w, v, p, g) ==
  /\ v \in World /\ SameVectors(w, v)
  /\ \A o \in Objects \ {p} : SamePlayer(w, v, o)
  /\ \A h \in GameIds \ {g} : SameBoard(w, v, h)
  /\ v.player[p].state = "IN_MAIN_MENU"
  /\ v.player[p].logged_in = w.player[p].logged_in
  /\ v.player[p].socket = w.player[p].socket
  /\ \/ v.player[p].game = nullptr
     \/ v.player[p].game = g /\ Waits(v, g)
  /\ v.game[g].state \in {w.game[g].state, "FINISHED"}
  /\ v.game[g].is_end_round = w.game[g].is_end_round
  /\ v.game[g].player1 = IF w.game[g].player1 = p THEN nullptr ELSE w.game[g].player1
  /\ v.game[g].player2 = IF w.game[g].player1 = p THEN w.game[g].player2 ELSE nullptr

LEMMA LeavesSeatGood ==
  ASSUME NEW w \in World, Seated(w), NEW p \in w.players, p \notin Dropped(w),
         w.player[p].logged_in, NEW g \in w.games, p \in Sits(w, g),
         NEW v, LeavesSeat(w, v, p, g)
  PROVE  Good(w, v, p) /\ Seated(v)
<1>1. p \in Objects /\ g \in GameIds
  BY SitsBelongs
<1>2. PICK s \in {1, 2} : /\ Holder(w, g, s) = p /\ Holder(v, g, s) = nullptr
                          /\ Holder(v, g, 3 - s) = Holder(w, g, 3 - s)
  <2>1. CASE w.game[g].player1 = p
    <3>1. /\ Holder(w, g, 1) = p /\ Holder(v, g, 1) = nullptr
          /\ Holder(v, g, 3 - 1) = Holder(w, g, 3 - 1)
      BY <2>1 DEF Holder, LeavesSeat
    <3> QED
      BY <3>1
  <2>2. CASE w.game[g].player1 # p
    <3>1. w.game[g].player2 = p
      BY <2>2 DEF Sits
    <3>2. /\ Holder(w, g, 2) = p /\ Holder(v, g, 2) = nullptr
          /\ Holder(v, g, 3 - 2) = Holder(w, g, 3 - 2)
      BY <2>2, <3>1 DEF Holder, LeavesSeat
    <3> QED
      BY <3>2
  <2> QED
    BY <2>1, <2>2
<1>3. /\ v \in World /\ v.games = w.games
      /\ v.players \ {p} = w.players \ {p} /\ Dropped(v) = Dropped(w)
      /\ \A o \in Objects \ {p} : SamePlayer(w, v, o)
      /\ \A h \in GameIds \ {g} : SameBoard(w, v, h)
      /\ v.game[g].state \in {w.game[g].state, "FINISHED"}
      /\ v.game[g].is_end_round = w.game[g].is_end_round
  BY DEF LeavesSeat, SameVectors, Dropped
<1>4. Rid(v, p, g)
  BY <1>3 DEF LeavesSeat, SameVectors, Rid
<1>5. /\ Seated(v)
      /\ \A o : Left(v, o) => o = p \/ Left(w, o)
      /\ Vacates(w, v, g, s) /\ OthersSame(w, v, g)
  BY <1>1, <1>2, <1>3, <1>4, VacateSeated
<1> QED
  BY <1>1, <1>5 DEF Good, Moves, Changes

LEMMA LeaveLobbyFields ==
  ASSUME NEW w \in World, NEW p \in Objects, NEW g \in GameIds
  PROVE  LET v == leave_lobby(w, p, g) IN
         /\ v \in World /\ SameVectors(w, v)
         /\ \A o \in Objects \ {p} : SamePlayer(w, v, o)
         /\ v.player[p].state = "IN_MAIN_MENU" /\ v.player[p].game = w.player[p].game
         /\ v.player[p].logged_in = w.player[p].logged_in
         /\ v.player[p].socket = w.player[p].socket
         /\ \A h \in GameIds \ {g} : SameBoard(w, v, h)
         /\ v.game[g].player1 = nullptr /\ v.game[g].player2 = w.game[g].player2
         /\ v.game[g].state = w.game[g].state
         /\ v.game[g].is_end_round = w.game[g].is_end_round
<1> DEFINE v == leave_lobby(w, p, g)
           rp == [w.player[p] EXCEPT !.state = "IN_MAIN_MENU"]
           rg == [w.game[g] EXCEPT !.player1 = nullptr]
<1>1. v \in World
  BY KeepsSelf, LeaveLobbyKeeps, KeepsType
<1>2. /\ v.player = [w.player EXCEPT ![p] = rp] /\ v.game = [w.game EXCEPT ![g] = rg]
      /\ SameVectors(w, v)
  BY DEF World, leave_lobby, SameVectors
<1>3. /\ w.player \in [Objects -> Player] /\ w.player[p] \in Player
      /\ w.game \in [GameIds -> Game] /\ w.game[g] \in Game
  BY WorldFields
<1>4. /\ rp.state = "IN_MAIN_MENU" /\ rp.game = w.player[p].game
      /\ rp.logged_in = w.player[p].logged_in /\ rp.socket = w.player[p].socket
      /\ rg.player1 = nullptr /\ rg.player2 = w.game[g].player2
      /\ rg.state = w.game[g].state /\ rg.is_end_round = w.game[g].is_end_round
  BY <1>3 DEF Player, Game
<1> HIDE DEF rp, rg, v
<1>5. /\ \A o \in Objects \ {p} : v.player[o] = w.player[o]
      /\ v.player[p] = rp
      /\ \A h \in GameIds \ {g} : v.game[h] = w.game[h]
      /\ v.game[g] = rg
  BY <1>2, <1>3
<1> QED
  BY <1>1, <1>2, <1>4, <1>5, SameRefl DEF v

LEMMA LeaveLobbyGood ==
  ASSUME NEW w \in World, Seated(w), NEW p \in w.players, p \notin Dropped(w),
         w.player[p].logged_in, NEW g \in w.games, p = w.game[g].player1, Waits(w, g)
  PROVE  LET v == leave_lobby(w, p, g) IN
         Good(w, v, p) /\ v.player[p].state = "IN_MAIN_MENU"
<1> DEFINE v == leave_lobby(w, p, g)
<1>1. p \in Objects /\ p # nullptr /\ g \in GameIds
  BY Types
<1>2. p \in Sits(w, g) /\ w.player[p].game = g
  <2>1. p \in Sits(w, g)
    BY <1>1 DEF Sits
  <2> QED
    BY <2>1, SitsBelongs
<1>3. /\ v \in World /\ SameVectors(w, v)
      /\ \A o \in Objects \ {p} : SamePlayer(w, v, o)
      /\ v.player[p].state = "IN_MAIN_MENU" /\ v.player[p].game = w.player[p].game
      /\ v.player[p].logged_in = w.player[p].logged_in
      /\ v.player[p].socket = w.player[p].socket
      /\ \A h \in GameIds \ {g} : SameBoard(w, v, h)
      /\ v.game[g].player1 = nullptr /\ v.game[g].player2 = w.game[g].player2
      /\ v.game[g].state = w.game[g].state
      /\ v.game[g].is_end_round = w.game[g].is_end_round
  BY <1>1, LeaveLobbyFields, ZenonT(60)
<1> HIDE DEF v
<1>4. LeavesSeat(w, v, p, g)
  BY <1>2, <1>3 DEF LeavesSeat, Waits
<1>5. Good(w, v, p)
  BY <1>2, <1>4, LeavesSeatGood
<1> QED
  BY <1>3, <1>5 DEF v

\* What leave_match does to the player and to his seat.
LeavingPlayer(w, p, g) ==
  [free_seat(w, g, p) EXCEPT !.player[p].game = nullptr,
                             !.player[p].state = "IN_MAIN_MENU",
                             !.player[p].can_play = FALSE]

LEMMA LeavingPlayerFields ==
  ASSUME NEW w \in World, NEW p \in Objects, NEW g \in GameIds
  PROVE  LET v == LeavingPlayer(w, p, g) IN
         /\ v \in World /\ LeavesSeat(w, v, p, g) /\ v.crashed = w.crashed
         /\ v.game[g].state = w.game[g].state
         /\ v.player[p].game = nullptr
<1> DEFINE u == free_seat(w, g, p)
           v == LeavingPlayer(w, p, g)
           r == [[[u.player[p] EXCEPT !.game = nullptr] EXCEPT !.state = "IN_MAIN_MENU"]
                   EXCEPT !.can_play = FALSE]
<1>1. u \in World
  BY KeepsSelf, FreeSeatKeeps, KeepsType
<1>2. /\ u.player = w.player /\ SameVectors(w, u) /\ u.crashed = w.crashed
      /\ \A h \in GameIds \ {g} : u.game[h] = w.game[h]
      /\ u.game[g].state = w.game[g].state
      /\ u.game[g].is_end_round = w.game[g].is_end_round
      /\ u.game[g].player1 = IF w.game[g].player1 = p THEN nullptr ELSE w.game[g].player1
      /\ u.game[g].player2 = IF w.game[g].player1 = p THEN w.game[g].player2 ELSE nullptr
  BY FreeSeatFields
<1> HIDE DEF u
<1>3. u.player \in [Objects -> Player] /\ u.player[p] \in Player
  BY <1>1, WorldFields
<1>4. /\ r \in Player /\ r.game = nullptr /\ r.state = "IN_MAIN_MENU"
      /\ r.logged_in = u.player[p].logged_in /\ r.socket = u.player[p].socket
  <2> DEFINE r0 == u.player[p]
  <2> HIDE DEF r0
  <2>1. LET x == [[[r0 EXCEPT !.game = nullptr] EXCEPT !.state = "IN_MAIN_MENU"]
                     EXCEPT !.can_play = FALSE]
        IN  r0 \in Player => /\ x \in Player /\ x.game = nullptr /\ x.state = "IN_MAIN_MENU"
                             /\ x.logged_in = r0.logged_in /\ x.socket = r0.socket
    BY DEF Player, PlayerState
  <2> QED
    BY <1>3, <2>1 DEF r0
<1>5. v = [u EXCEPT !.player[p] = r]
  BY <1>1, <1>3 DEF World, LeavingPlayer, u
<1> HIDE DEF v, r
<1>6. v \in World
  BY <1>1, <1>4, <1>5, SetPlayer
<1>7. /\ SameVectors(u, v) /\ v.game = u.game /\ v.crashed = u.crashed
      /\ \A o \in Objects \ {p} : v.player[o] = u.player[o]
      /\ v.player[p] = r
  BY <1>1, <1>3, <1>5 DEF World, SameVectors
<1>8. LeavesSeat(w, v, p, g)
  <2>1. /\ \A o \in Objects \ {p} : SamePlayer(w, v, o)
        /\ \A h \in GameIds \ {g} : SameBoard(w, v, h)
    BY <1>2, <1>7, SameRefl
  <2> QED
    BY <1>2, <1>4, <1>6, <1>7, <2>1 DEF LeavesSeat, SameVectors
<1> QED
  BY <1>2, <1>4, <1>6, <1>7, <1>8 DEF v

LEMMA Lookup ==
  ASSUME NEW w \in World, NEW fd
  PROVE  LET x == get_player_by_fd(w, fd) IN
         \/ x = nullptr /\ \A o \in w.players : w.player[o].socket # fd
         \/ x \in w.players /\ x # nullptr /\ w.player[x].socket = fd
<1>1. CASE \E o \in w.players : w.player[o].socket = fd
  <2> DEFINE x == CHOOSE o \in w.players : w.player[o].socket = fd
  <2>1. x \in w.players /\ w.player[x].socket = fd
    BY <1>1
  <2>2. get_player_by_fd(w, fd) = x
    BY <1>1 DEF get_player_by_fd
  <2> HIDE DEF x
  <2> QED
    BY <2>1, <2>2, Types
<1>2. CASE ~\E o \in w.players : w.player[o].socket = fd
  BY <1>2 DEF get_player_by_fd
<1> QED
  BY <1>1, <1>2

LEMMA FoundAtSocket ==
  ASSUME NEW w \in World, OneOwner(w), NEW o \in w.players
  PROVE  AtSocketOf(w, o) = o
BY Lookup DEF AtSocketOf, OneOwner

\* The methods called for another player do not undo a crash.
LEMMA CrashStays ==
  ASSUME NEW w \in World, w.crashed, NEW p \in Objects \cup {nullptr}
  PROVE  game_over(w, p).crashed /\ game_status(w, p).crashed
<1>1. Crash(w).crashed
  BY MemoryAlike, AlikeSelf
<1>2. \A n : Notify(w, n, p).crashed
  BY DEF Notify, World
<1>3. game_over(w, p).crashed
  BY <1>1, <1>2 DEF game_over
<1>4. p # nullptr => forgive(w, p).crashed
  BY DEF forgive, World
<1>5. p # nullptr => player_error_message_inc(w, p).crashed
  BY ErrorCases
<1> QED
  BY <1>1, <1>3, <1>4, <1>5 DEF game_status

\* The opponent is told that the player has left, and the game is finished.
FinishedByLeaving(w, p, g, q) ==
  [Notify(LeavingPlayer(w, p, g), "LEAVE_GAME_OPPONENT", q)
     EXCEPT !.game[g].state = "FINISHED", !.game[g].game_over = FALSE]

\* leave_match after the opponent has been told.
LeavingTail(w, p, g, q) ==
  LET v2 == LeavingPlayer(w, p, g)
      v3 == Notify(v2, "LEAVE_GAME_OPPONENT", q)
      v4 == [v3 EXCEPT !.game[g].state = "FINISHED", !.game[g].game_over = FALSE]
  IN  IF ~Present(v2, q) THEN v2
      ELSE IF v2.game[g].state = "FINISHED" THEN v3
      ELSE game_over(v4, AtSocketOf(v4, q))

LEMMA LeavingTailFields ==
  ASSUME NEW w \in World, NEW p \in Objects, NEW g \in GameIds,
         NEW q \in Objects \cup {nullptr}
  PROVE  LET v == LeavingTail(w, p, g, q)
             told == Present(w, q) /\ w.game[g].state # "FINISHED"
         IN
         /\ q # p /\ told =>
              \E u \in World : /\ LeavesSeat(w, u, p, g) /\ u.crashed = w.crashed
                               /\ v = game_over(u, AtSocketOf(u, q))
                               /\ u = FinishedByLeaving(w, p, g, q)
                               /\ u.game[g].state = "FINISHED"
         /\ q # p /\ ~told => LeavesSeat(w, v, p, g) /\ v.crashed = w.crashed
<1> DEFINE v2 == LeavingPlayer(w, p, g)
           v3 == Notify(v2, "LEAVE_GAME_OPPONENT", q)
           v4 == [v3 EXCEPT !.game[g].state = "FINISHED", !.game[g].game_over = FALSE]
<1>1. /\ v2 \in World /\ LeavesSeat(w, v2, p, g) /\ v2.crashed = w.crashed
      /\ v2.game[g].state = w.game[g].state
  BY LeavingPlayerFields
<1>2. q # p => (Present(v2, q) <=> Present(w, q))
  BY <1>1 DEF LeavesSeat, SamePlayer, Present
<1>3. Present(v2, q) => q \in Objects
  BY DEF Present
<1> HIDE DEF v2
<1>4. "LEAVE_GAME_OPPONENT" \in Notice
  BY DEF Notice
<1>5. Present(v2, q) => v3 \in World
  BY <1>1, <1>3, <1>4, MemoryFields, KeepsSelf, KeepsType
<1>6. /\ v3.player = v2.player /\ v3.game = v2.game /\ SameVectors(v2, v3)
      /\ v3.crashed = v2.crashed
  BY <1>1 DEF Notify, World, SameVectors
<1>7. LeavesSeat(w, v3, p, g) \/ ~Present(v2, q)
  BY <1>1, <1>5, <1>6 DEF LeavesSeat, SameVectors, SamePlayer, SameBoard, Waits
<1>8. Present(v2, q) => /\ v4 \in World /\ LeavesSeat(w, v4, p, g) /\ v4.crashed = w.crashed
                        /\ v4.game[g].state = "FINISHED"
  <2> SUFFICES ASSUME Present(v2, q)
               PROVE  /\ v4 \in World /\ LeavesSeat(w, v4, p, g) /\ v4.crashed = w.crashed
                      /\ v4.game[g].state = "FINISHED"
    OBVIOUS
  <2> DEFINE r0 == v3.game[g]
             r == [[r0 EXCEPT !.state = "FINISHED"] EXCEPT !.game_over = FALSE]
  <2>1. v3 \in World /\ v3.game \in [GameIds -> Game] /\ r0 \in Game
    BY <1>5, WorldFields
  <2> HIDE DEF r0, v3
  <2>2. /\ r \in Game /\ r.state = "FINISHED" /\ r.is_end_round = r0.is_end_round
        /\ r.player1 = r0.player1 /\ r.player2 = r0.player2
    BY <2>1 DEF Game, GameState
  <2>3. v4 = [v3 EXCEPT !.game[g] = r]
    BY <2>1 DEF World, r0
  <2> HIDE DEF r, v4
  <2>4. v4 \in World
    BY <2>1, <2>2, <2>3, SetGame
  <2>5. /\ v4.player = v3.player /\ SameVectors(v3, v4) /\ v4.crashed = v3.crashed
        /\ \A h \in GameIds \ {g} : v4.game[h] = v3.game[h]
        /\ v4.game[g] = r
    BY <2>1, <2>3 DEF World, SameVectors
  <2>6. LeavesSeat(w, v3, p, g) /\ v3.player[p].game = nullptr
    <3>1. v2.player[p].game = nullptr
      BY LeavingPlayerFields DEF v2
    <3> QED
      BY <1>6, <1>7, <3>1
  <2>7. /\ \A o \in Objects \ {p} : SamePlayer(w, v4, o)
        /\ v4.player[p] = v3.player[p]
        /\ \A h \in GameIds \ {g} : SameBoard(w, v4, h)
    BY <2>5, <2>6 DEF LeavesSeat, SamePlayer, SameBoard
  <2>8. LeavesSeat(w, v4, p, g)
    BY <2>2, <2>4, <2>5, <2>6, <2>7 DEF LeavesSeat, SameVectors, r0
  <2> QED
    BY <1>1, <1>6, <2>2, <2>4, <2>5, <2>8
<1>9. /\ ~Present(v2, q) => LeavingTail(w, p, g, q) = v2
      /\ Present(v2, q) /\ v2.game[g].state = "FINISHED" => LeavingTail(w, p, g, q) = v3
      /\ Present(v2, q) /\ v2.game[g].state # "FINISHED" =>
           LeavingTail(w, p, g, q) = game_over(v4, AtSocketOf(v4, q))
  BY DEF LeavingTail, v2
<1>10. v4 = FinishedByLeaving(w, p, g, q)
  BY DEF FinishedByLeaving, v2
<1> HIDE DEF v3, v4
<1>11. ASSUME q # p, Present(w, q), w.game[g].state # "FINISHED"
       PROVE  \E u \in World : /\ LeavesSeat(w, u, p, g) /\ u.crashed = w.crashed
                               /\ LeavingTail(w, p, g, q) = game_over(u, AtSocketOf(u, q))
                               /\ u = FinishedByLeaving(w, p, g, q)
                               /\ u.game[g].state = "FINISHED"
  BY <1>1, <1>2, <1>8, <1>9, <1>11, <1>10
<1>12. ASSUME q # p, ~(Present(w, q) /\ w.game[g].state # "FINISHED")
       PROVE  LET v == LeavingTail(w, p, g, q) IN LeavesSeat(w, v, p, g) /\ v.crashed = w.crashed
  BY <1>1, <1>2, <1>6, <1>7, <1>9, <1>12
<1> QED
  BY <1>11, <1>12

LEMMA DisconnectKeepsStates ==
  ASSUME NEW w \in World, NEW p \in Objects
  PROVE  LET v == disconnect_player(w, p) IN
         /\ v.players = w.players \ {p}
         /\ \A o \in Objects \ {p} : v.player[o] = w.player[o]
         /\ \A h \in GameIds : v.game[h].state = w.game[h].state
BY DisconnectFields

LEMMA LeavingTailGood ==
  ASSUME NEW w \in World, Seated(w), NEW p \in w.players, p \notin Dropped(w),
         w.player[p].logged_in, NEW g \in w.games, p \in Sits(w, g),
         NEW q \in Objects \cup {nullptr}, q # p
  PROVE  LET v == LeavingTail(w, p, g, q) IN
         /\ Good(w, v, p) /\ v.player[p].state = "IN_MAIN_MENU"
         /\ w.crashed => v.crashed
<1> DEFINE v == LeavingTail(w, p, g, q)
<1>1. p \in Objects /\ g \in GameIds
  BY SitsBelongs
<1>2. CASE Present(w, q) /\ w.game[g].state # "FINISHED"
  <2>1. PICK u \in World : /\ LeavesSeat(w, u, p, g) /\ u.crashed = w.crashed
                           /\ v = game_over(u, AtSocketOf(u, q))
    BY <1>1, <1>2, LeavingTailFields
  <2>2. AtSocketOf(u, q) \in Objects \cup {nullptr}
    BY AtSocketType
  <2>3. Alike(u, v) /\ (u.crashed => v.crashed)
    BY <2>1, <2>2, AlikeSelf, GameOverAlike, CrashStays
  <2>4. Good(w, u, p) /\ u.player[p].state = "IN_MAIN_MENU"
    BY <2>1, LeavesSeatGood DEF LeavesSeat
  <2> HIDE DEF v
  <2>5. Good(w, v, p)
    BY <2>3, <2>4, GoodBeforeAlike
  <2>6. v.player[p].state = "IN_MAIN_MENU"
    BY <1>1, <2>3, <2>4 DEF Alike, SamePlayer
  <2> QED
    BY <2>1, <2>3, <2>5, <2>6 DEF v
<1>3. CASE ~(Present(w, q) /\ w.game[g].state # "FINISHED")
  <2>1. LeavesSeat(w, v, p, g) /\ v.crashed = w.crashed
    BY <1>1, <1>3, LeavingTailFields
  <2> HIDE DEF v
  <2>2. Good(w, v, p) /\ v.player[p].state = "IN_MAIN_MENU"
    BY <2>1, LeavesSeatGood DEF LeavesSeat
  <2> QED
    BY <2>1, <2>2 DEF v
<1> QED
  BY <1>2, <1>3

LEMMA LeavingTailCrash ==
  ASSUME NEW w \in World, w.crashed, NEW p \in Objects, NEW g \in GameIds,
         NEW q \in Objects \cup {nullptr}, q # p
  PROVE  LeavingTail(w, p, g, q).crashed
<1>1. \A u \in World : u.crashed => game_over(u, AtSocketOf(u, q)).crashed
  BY AtSocketType, CrashStays
<1> QED
  BY <1>1, LeavingTailFields

\* A dropped player whose state is not DISCONNECTED any more is still there for
\* leave_match; whoever is at his old descriptor is asked for his game.
LEMMA LeaveMatchGood ==
  ASSUME NEW w \in World, Seated(w), OneOwner(w), Apart(w), NEW p \in w.players,
         w.player[p].logged_in, NEW g \in w.games, p \in Sits(w, g), ~Waits(w, g)
  PROVE  LET v == leave_match(w, p, g) IN
         Good(w, v, p) /\ (v.crashed \/ v.player[p].state = "IN_MAIN_MENU")
<1> DEFINE q == get_opponent(w, g, p)
           x == AtSocketOf(w, q)
           v1 == IF Present(w, q) THEN game_status(w, x) ELSE w
           v == leave_match(w, p, g)
<1>1. /\ p \in Objects /\ g \in GameIds /\ p \notin Dropped(w)
      /\ w.player[p].game = g /\ nullptr \notin Objects /\ w.players \subseteq Objects
  BY SitsBelongs, Types DEF Apart
<1>2. q \in Objects \cup {nullptr} /\ (q # nullptr => q \in Sits(w, g))
  BY <1>1, OpponentType DEF get_opponent, Sits
<1>3. q # p /\ (q # nullptr => Filled(w, g))
  <2>1. Filled(w, g) => w.game[g].player1 # w.game[g].player2
    BY DEF Seated, GameAgrees
  <2> QED
    BY <1>1, <2>1 DEF get_opponent, Filled, Sits
<1>4. v = LeavingTail(v1, p, g, q)
  BY DEF leave_match, LeavingTail, LeavingPlayer
<1> SUFFICES Good(w, v, p) /\ (v.crashed \/ v.player[p].state = "IN_MAIN_MENU")
  OBVIOUS
<1> HIDE DEF v, q
<1>5. ASSUME NEW u \in World, Alike(w, u), v1 = u
      PROVE  Good(w, v, p) /\ v.player[p].state = "IN_MAIN_MENU"
  <2>1. Mild(w, u)
    BY <1>5, AlikeMild
  <2>2. /\ Seated(u) /\ p \in u.players /\ p \notin Dropped(u) /\ g \in u.games
        /\ p \in Sits(u, g) /\ u.player[p].logged_in
    BY <1>1, <1>5, <2>1 DEF Alike, Mild, Dropped, SamePlayer, SameBoard, Sits
  <2> HIDE DEF v1
  <2>3. Good(u, v, p) /\ v.player[p].state = "IN_MAIN_MENU"
    BY <1>2, <1>3, <1>4, <1>5, <2>2, LeavingTailGood
  <2> QED
    BY <2>1, <2>3, GoodAfterMild
<1>6. ASSUME v1 \in World, v1.crashed
      PROVE  v.crashed
  <2> HIDE DEF v1
  <2> QED
    BY <1>1, <1>2, <1>3, <1>4, <1>6, LeavingTailCrash
<1>7. CASE ~Present(w, q)
  BY <1>5, <1>7, AlikeSelf
<1>8. CASE Present(w, q)
  <2>1. /\ v1 = game_status(w, x) /\ q \in Objects
        /\ w.player[q].state # "DISCONNECTED" /\ q # nullptr
    BY <1>2, <1>8 DEF Present
  <2>2. x \in w.players \cup {nullptr}
    BY Lookup DEF AtSocketOf
  <2>3. /\ x # nullptr => w.player[x].socket = w.player[q].socket
        /\ \A o \in w.players : w.player[o].socket = w.player[q].socket => o = x
    BY Lookup DEF AtSocketOf, OneOwner
  <2>4. v1 \in World
    BY <1>1, <2>1, <2>2, KeepsSelf, GameStatusKeeps, KeepsType
  <2> HIDE DEF v1, x
  <2>5. CASE x = nullptr
    BY <1>6, <2>1, <2>4, <2>5, AlikeSelf, MemoryAlike DEF game_status, Good
  <2>6. CASE x # nullptr /\ w.player[x].state = "IN_GAME"
    <3>1. v1.crashed \/ Alike(w, v1)
      BY <1>1, <2>1, <2>2, <2>6, GameStatusGood DEF Apart
    <3> QED
      BY <1>5, <1>6, <2>4, <3>1 DEF Good
  <2>7. CASE x # nullptr /\ w.player[x].state # "IN_GAME"
    <3>1. x \in Objects /\ x \in w.players
      BY <1>1, <2>2, <2>7
    <3>2. v1 = player_error_message_inc(w, x)
      BY <2>1, <2>7 DEF game_status
    <3>3. \/ Alike(w, v1)
          \/ \E u \in World : Alike(w, u) /\ v1 = disconnect_player(u, x)
      BY <3>1, <3>2, ErrorCases
    <3>4. ASSUME NEW u \in World, Alike(w, u), v1 = disconnect_player(u, x)
          PROVE  v.crashed
      <4>1. q \notin w.players
        BY <1>2, <2>1, <2>3, <2>7, SeatedPlays
      <4>2. /\ q \in Dropped(w) /\ w.game[g].state # "FINISHED"
        <5>1. q \in Dropped(w) /\ w.player[q].game = g
          BY <1>2, <2>1, <4>1, SitsBelongs DEF Known
        <5>2. w.player[q].can_play
          BY <2>1, <5>1 DEF Seated, DroppedAgrees
        <5>3. RoundAgrees(w, g)
          BY DEF Seated
        <5> QED
          BY <1>2, <1>3, <2>1, <5>1, <5>2, <5>3 DEF RoundAgrees
      <4>3. q # x
        BY <3>1, <4>1
      <4>4. /\ v1.players = w.players \ {x}
            /\ \A o \in Objects \ {x} : v1.player[o] = u.player[o]
            /\ v1.game[g].state = w.game[g].state
        <5>1. /\ v1.players = u.players \ {x}
              /\ \A o \in Objects \ {x} : v1.player[o] = u.player[o]
              /\ v1.game[g].state = u.game[g].state
          BY <1>1, <3>1, <3>4, DisconnectKeepsStates
        <5> QED
          BY <1>1, <3>4, <5>1 DEF Alike, SameBoard
      <4>5. /\ \A o \in Objects \ {x} : v1.player[o].socket = w.player[o].socket
            /\ v1.player[q].state = w.player[q].state
        BY <2>1, <3>4, <4>3, <4>4 DEF Alike, SamePlayer
      <4>6. Present(v1, q) /\ v1.game[g].state # "FINISHED"
        BY <2>1, <4>2, <4>4, <4>5 DEF Present
      <4>7. PICK y \in World : /\ LeavesSeat(v1, y, p, g)
                               /\ v = game_over(y, AtSocketOf(y, q))
        BY <1>1, <1>2, <1>3, <1>4, <2>4, <4>6, LeavingTailFields
      <4>8. /\ y.players = w.players \ {x}
            /\ \A o \in Objects \ {x, p} : y.player[o].socket = w.player[o].socket
            /\ y.player[q].socket = w.player[q].socket
        BY <1>3, <2>1, <4>3, <4>4, <4>5, <4>7 DEF LeavesSeat, SameVectors, SamePlayer
      <4>9. p # x /\ y.player[p].socket = w.player[p].socket
        <5>1. y.player[p].socket = v1.player[p].socket
          BY <1>1, <4>7 DEF LeavesSeat
        <5>2. w.player[p].state = "IN_GAME"
          BY SeatedPlays
        <5> QED
          BY <1>1, <2>7, <4>5, <5>1, <5>2
      <4>10. \A o \in y.players : y.player[o].socket # y.player[q].socket
        BY <1>1, <2>3, <4>8, <4>9
      <4>11. AtSocketOf(y, q) = nullptr
        BY <4>10 DEF AtSocketOf, get_player_by_fd
      <4> QED
        BY <4>7, <4>11, AlikeSelf, GameOverAlike
    <3> QED
      BY <1>5, <2>4, <3>3, <3>4 DEF Good
  <2> QED
    BY <2>5, <2>6, <2>7
<1> QED
  BY <1>7, <1>8

LEMMA AlikeOwners ==
  ASSUME NEW w \in World, OneOwner(w), Apart(w), NEW v, Alike(w, v)
  PROVE  OneOwner(v) /\ Apart(v)
<1>1. /\ v.players = w.players /\ Dropped(v) = Dropped(w) /\ w.players \subseteq Objects
      /\ \A o \in Objects : /\ v.player[o].socket = w.player[o].socket
                            /\ v.player[o].state = w.player[o].state
  BY Types DEF Alike, SamePlayer, Dropped
<1> QED
  BY <1>1 DEF OneOwner, Apart

LEMMA LeaveGameGood ==
  ASSUME NEW w \in World, Seated(w), OneOwner(w), Apart(w), NEW p \in w.players
  PROVE  LET v == leave_game(w, p) IN
         /\ Good(w, v, p)
         /\ v.crashed \/ p \notin v.players \/ v.player[p].state = "IN_MAIN_MENU"
<1> DEFINE v == leave_game(w, p)
           f == forgive(w, p)
           g == w.player[p].game
<1>1. /\ p \in Objects /\ p \notin Dropped(w) /\ nullptr \notin GameIds
      /\ w.games \subseteq GameIds /\ PlayerAgrees(w, p)
      /\ w.player[p].state \in PlayerState /\ w.player[p].state # "DISCONNECTED"
  BY Types DEF Apart, Seated, OneOwner
<1>2. CASE w.player[p].state \notin {"IN_LOBBY", "IN_GAME"}
  <2>1. v = player_error_message_inc(w, p) /\ w.player[p].state = "IN_MAIN_MENU"
    BY <1>1, <1>2 DEF leave_game, PlayerState
  <2> HIDE DEF v
  <2>2. Good(w, v, p)
    BY <1>1, <2>1, ErrorGood
  <2>3. \/ Alike(w, v)
        \/ \E u \in World : Alike(w, u) /\ v = disconnect_player(u, p)
    BY <1>1, <2>1, ErrorCases
  <2>4. v.player[p].state = "IN_MAIN_MENU" \/ p \notin v.players
    BY <1>1, <2>1, <2>3, DisconnectKeepsStates DEF Alike, SamePlayer
  <2> QED
    BY <2>2, <2>4 DEF v
<1>3. CASE w.player[p].state \in {"IN_LOBBY", "IN_GAME"}
  <2>1. /\ g \in w.games /\ g # nullptr /\ w.player[p].logged_in
        /\ Waits(w, g) => w.game[g].player1 = p
        /\ ~Waits(w, g) => p \in Sits(w, g)
    BY <1>1, <1>3 DEF PlayerAgrees
  <2>2. Alike(w, f) /\ Mild(w, f) /\ f \in World
    BY <1>1, AlikeSelf, ForgiveAlike, AlikeMild
  <2>3. v = IF w.game[g].state = "WAITING_FOR_PLAYERS" THEN leave_lobby(f, p, g)
                                                       ELSE leave_match(f, p, g)
    BY <1>3, <2>1 DEF leave_game
  <2> HIDE DEF v, f, g
  <2>4. /\ Seated(f) /\ OneOwner(f) /\ Apart(f) /\ p \in f.players /\ p \notin Dropped(f)
        /\ g \in f.games /\ f.player[p].logged_in /\ Sits(f, g) = Sits(w, g)
        /\ f.game[g].player1 = w.game[g].player1 /\ (Waits(f, g) <=> Waits(w, g))
    BY <1>1, <2>1, <2>2, AlikeOwners
       DEF Alike, Mild, SamePlayer, SameBoard, Dropped, Sits, Waits
  <2>5. CASE Waits(w, g)
    <3>1. v = leave_lobby(f, p, g)
      BY <2>3, <2>5 DEF Waits
    <3>2. Good(f, v, p) /\ v.player[p].state = "IN_MAIN_MENU"
      BY <2>1, <2>2, <2>4, <2>5, <3>1, LeaveLobbyGood
    <3> QED
      BY <2>2, <3>2, GoodAfterMild DEF v
  <2>6. CASE ~Waits(w, g)
    <3>1. v = leave_match(f, p, g)
      BY <2>3, <2>6 DEF Waits
    <3>2. Good(f, v, p) /\ (v.crashed \/ v.player[p].state = "IN_MAIN_MENU")
      BY <2>1, <2>2, <2>4, <2>6, <3>1, LeaveMatchGood
    <3> QED
      BY <2>2, <3>2, GoodAfterMild DEF v
  <2> QED
    BY <2>5, <2>6
<1> QED
  BY <1>2, <1>3

LEMMA LogoutGood ==
  ASSUME NEW w \in World, Seated(w), OneOwner(w), Apart(w), NEW p \in w.players
  PROVE  Good(w, logout(w, p), p)
<1>1. p \in Objects /\ p \notin Dropped(w) /\ nullptr \notin GameIds
      /\ w.games \subseteq GameIds /\ nullptr \notin Objects
  BY Types DEF Apart
<1>2. CASE HasGame(w, p)
  <2> DEFINE v == leave_game(w, p)
  <2>1. v \in World /\ Dropped(v) = Dropped(w)
    BY <1>1, KeepsSelf, LeaveGameKeeps, KeepsType DEF Keeps, Dropped
  <2>2. /\ Good(w, v, p)
        /\ v.crashed \/ p \notin v.players \/ v.player[p].state = "IN_MAIN_MENU"
    BY LeaveGameGood
  <2> HIDE DEF v
  <2>3. v.crashed \/ \A h \in v.games : p \notin Sits(v, h)
    <3> SUFFICES ASSUME ~v.crashed, NEW h \in v.games
                 PROVE  p \notin Sits(v, h)
      OBVIOUS
    <3>1. Seated(v)
      BY <2>2 DEF Good
    <3>2. CASE p \in v.players
      BY <2>1, <2>2, <3>1, <3>2, MenuHasNoSeat
    <3>3. CASE p \notin v.players
      BY <1>1, <2>1, <3>1, <3>3, SitsBelongs DEF Known
    <3> QED
      BY <3>2, <3>3
  <2>4. Good(w, erase(v, p), p)
    BY <1>1, <2>1, <2>2, <2>3, EraseGood
  <2> QED
    BY <1>2, <2>4 DEF logout, v
<1>3. CASE ~HasGame(w, p)
  <2>1. w.player[p].game = nullptr
    BY <1>1, <1>3 DEF HasGame
  <2>2. \A h \in w.games : p \notin Sits(w, h)
    BY <1>1, <2>1, SitsBelongs
  <2>3. Good(w, w, p)
    BY HelloGood
  <2>4. Good(w, erase(w, p), p)
    BY <1>1, <2>2, <2>3, EraseGood
  <2> QED
    BY <1>3, <2>4 DEF logout
<1> QED
  BY <1>2, <1>3
-----------------------------------------------------------------------------
(* Games that open and begin.                                              *)

\* Players P and game g are all that a step changes.
LEMMA OneGameSeated ==
  ASSUME NEW w \in World, Seated(w), NEW v \in World, NEW P, NEW g \in GameIds, NEW p,
         \A o \in Objects \ P : SamePlayer(w, v, o),
         \A h \in GameIds \ {g} : SameBoard(w, v, h) /\ (h \in v.games <=> h \in w.games),
         v.players = w.players, Dropped(v) = Dropped(w),
         \A h \in w.games \ {g} : \A o \in Sits(w, h) : o \notin P,
         g \in v.games, GameAgrees(v, g), RoundAgrees(v, g),
         \A o \in Known(v) : o \in P \/ w.player[o].game = g => Agrees(v, o) /\ ~Left(v, o),
         Changes(w, v, g)
  PROVE  Good(w, v, p) /\ Seated(v)
<1> DEFINE G == {g}
<1>1. \A h : h \in G <=> h = g
  OBVIOUS
<1> HIDE DEF G
<1>2. Framed(w, v, P, G, p)
  <2>1. \A h \in GameIds \ G : SameBoard(w, v, h) /\ (h \in v.games <=> h \in w.games)
    BY <1>1
  <2>2. \A h \in w.games \ G : \A o \in Sits(w, h) : o \notin P
    BY <1>1
  <2>3. \A h \in v.games \cap G : GameAgrees(v, h) /\ RoundAgrees(v, h)
    BY <1>1
  <2>4. \A o \in Known(v) : o \in P \/ w.player[o].game \in G =>
           /\ Agrees(v, o)
           /\ Left(v, o) => o = p \/ Left(w, o)
    BY <1>1
  <2> QED
    BY <2>1, <2>2, <2>3, <2>4 DEF Framed
<1>3. /\ Seated(v)
      /\ \A o : Left(v, o) => o = p \/ Left(w, o)
      /\ \A h \in GameIds \ G : SameGame(w, v, h)
  BY <1>2, FrameSeated
<1>4. OthersSame(w, v, g)
  BY <1>1, <1>3 DEF OthersSame
<1> QED
  BY <1>3, <1>4 DEF Good, Moves

LEMMA CreateGameGood ==
  ASSUME NEW w \in World, Seated(w), OneOwner(w), Apart(w), NEW p \in w.players,
         ~Left(w, p), w.player[p].logged_in, NEW g \in GameIds \ LiveGames(w)
  PROVE  Good(w, create_game(w, p, g), p)
<1> DEFINE v == create_game(w, p, g)
<1>1. /\ p \in Objects /\ p \notin Dropped(w) /\ nullptr \notin GameIds /\ nullptr \notin Objects
      /\ w.games \subseteq GameIds /\ g \notin w.games
      /\ \A o \in Known(w) : w.player[o].game # g
  BY Types DEF Apart, LiveGames
<1>2. CASE w.player[p].state # "IN_MAIN_MENU"
  BY <1>1, <1>2, ErrorGood DEF create_game
<1>3. CASE w.player[p].state = "IN_MAIN_MENU"
  <2>1. v \in World
    BY <1>1, KeepsSelf, CreateGameKeeps, KeepsType
  <2> DEFINE f == forgive(w, p)
             r0 == f.player[p]
             r == [[[r0 EXCEPT !.state = "IN_LOBBY"] EXCEPT !.score = 0] EXCEPT !.game = g]
  <2>2. /\ f \in World /\ Alike(w, f) /\ f.player \in [Objects -> Player] /\ r0 \in Player
        /\ f.game \in [GameIds -> Game] /\ f.game = w.game
        /\ \A o \in Objects \ {p} : f.player[o] = w.player[o]
    <3>1. f \in World /\ Alike(w, f)
      BY <1>1, AlikeSelf, ForgiveAlike
    <3>2. f.player = [w.player EXCEPT ![p] = [w.player[p] EXCEPT !.number_of_error_messages = 0]]
          /\ f.game = w.game
      BY DEF World, forgive
    <3>3. w.player \in [Objects -> Player]
      BY WorldFields
    <3> HIDE DEF f
    <3> QED
      BY <1>1, <3>1, <3>2, <3>3, WorldFields
  <2>3. v = [construct_game(f, g, p) EXCEPT !.player[p].game = g, !.games = @ \cup {g}]
    BY <1>3 DEF create_game
  <2>4. /\ v.player = [f.player EXCEPT ![p] = r] /\ v.game = [f.game EXCEPT ![g] = NewGame(p)]
        /\ v.players = f.players /\ v.disconnected_players = f.disconnected_players
        /\ v.games = f.games \cup {g}
    <3> HIDE DEF f, v
    <3> QED
      BY <1>1, <2>2, <2>3 DEF World, construct_game
  <2>5. /\ r.state = "IN_LOBBY" /\ r.game = g /\ r.score = 0
        /\ r.logged_in = r0.logged_in
    <3> HIDE DEF r0
    <3> QED
      BY <2>2 DEF Player
  <2> HIDE DEF r, v, f
  <2>6. /\ \A o \in Objects \ {p} : v.player[o] = w.player[o]
        /\ v.player[p] = r
        /\ \A h \in GameIds \ {g} : v.game[h] = w.game[h]
        /\ v.game[g] = NewGame(p)
        /\ v.players = w.players /\ Dropped(v) = Dropped(w) /\ v.games = w.games \cup {g}
        /\ r.logged_in
    BY <1>1, <2>2, <2>4, <2>5 DEF Alike, SamePlayer, Dropped
  <2>7. /\ v.game[g].player1 = p /\ v.game[g].player2 = nullptr
        /\ Waits(v, g) /\ Sits(v, g) = {p} /\ ~Filled(v, g)
    BY <1>1, <2>6 DEF NewGame, Waits, Sits, Filled
  <2>8. /\ \A o \in Objects \ {p} : SamePlayer(w, v, o)
        /\ \A h \in GameIds \ {g} : SameBoard(w, v, h) /\ (h \in v.games <=> h \in w.games)
    BY <2>6, SameRefl
  <2>9. \A h \in w.games : p \notin Sits(w, h)
    BY <1>3, MenuHasNoSeat
  <2>10. GameAgrees(v, g) /\ RoundAgrees(v, g)
    BY <2>5, <2>6, <2>7 DEF GameAgrees, RoundAgrees, Known
  <2>11. Agrees(v, p) /\ ~Left(v, p)
    BY <1>1, <2>5, <2>6, <2>7 DEF Agrees, PlayerAgrees, ClosedAgrees, Left
  <2>12. Changes(w, v, g)
    BY <1>1, <2>5, <2>6, <2>7 DEF Changes, Opens
  <2> DEFINE P == {p}
  <2>13. \A o : o \in P <=> o = p
    OBVIOUS
  <2> HIDE DEF P
  <2>14. \A o \in Known(v) : o \in P \/ w.player[o].game = g => Agrees(v, o) /\ ~Left(v, o)
    BY <1>1, <2>6, <2>11, <2>13 DEF Known
  <2>15. \A h \in w.games \ {g} : \A o \in Sits(w, h) : o \notin P
    BY <2>9, <2>13
  <2>16. \A o \in Objects \ P : SamePlayer(w, v, o)
    BY <2>8, <2>13
  <2>17. g \in v.games
    BY <2>6
  <2>18. Good(w, v, p)
    BY <2>1, <2>6, <2>8, <2>10, <2>12, <2>14, <2>15, <2>16, <2>17, OneGameSeated
  <2> QED
    BY <2>18 DEF v
<1> QED
  BY <1>2, <1>3

LEMMA FreshRollFields ==
  ASSUME NEW w \in World, NEW p \in Objects
  PROVE  LET v == fresh_roll(w, p) IN
         /\ v \in World /\ SameVectors(w, v) /\ v.game = w.game /\ v.crashed = w.crashed
         /\ \A o \in Objects \ {p} : v.player[o] = w.player[o]
         /\ v.player[p].can_play
         /\ v.player[p].socket = w.player[p].socket
         /\ v.player[p].game = w.player[p].game
         /\ v.player[p].score = w.player[p].score
         /\ v.player[p].state = w.player[p].state
         /\ v.player[p].logged_in = w.player[p].logged_in
<1> DEFINE v == fresh_roll(w, p)
           r0 == w.player[p]
           r == [[r0 EXCEPT !.can_play = TRUE] EXCEPT !.accepted_end_of_round = FALSE]
<1>1. r0 \in Player /\ w.player \in [Objects -> Player]
  BY WorldFields
<1>2. v \in World
  BY KeepsSelf, FreshRollKeeps, KeepsType
<1>3. v.player = [w.player EXCEPT ![p] = r] /\ SameVectors(w, v) /\ v.game = w.game
      /\ v.crashed = w.crashed
  BY <1>1 DEF World, fresh_roll, SameVectors
<1> HIDE DEF v, r0
<1>4. /\ r.can_play /\ r.socket = r0.socket /\ r.game = r0.game /\ r.score = r0.score
      /\ r.state = r0.state /\ r.logged_in = r0.logged_in
  BY <1>1 DEF Player
<1> HIDE DEF r
<1>5. v.player[p] = r /\ \A o \in Objects \ {p} : v.player[o] = w.player[o]
  BY <1>1, <1>3
<1> QED
  BY <1>2, <1>3, <1>4, <1>5 DEF v, r0

\* Two players have a roll, in a round that has just begun.
RoundBegins(w, v, g) ==
  LET p1 == w.game[g].player1  p2 == w.game[g].player2 IN
  /\ v \in World /\ SameVectors(w, v)
  /\ \A o \in Objects \ {p1, p2} : v.player[o] = w.player[o]
  /\ \A o \in {p1, p2} : /\ v.player[o].can_play
                         /\ v.player[o].socket = w.player[o].socket
                         /\ v.player[o].game = w.player[o].game
                         /\ v.player[o].score = w.player[o].score
                         /\ v.player[o].state = w.player[o].state
                         /\ v.player[o].logged_in = w.player[o].logged_in
  /\ \A h \in GameIds \ {g} : v.game[h] = w.game[h]
  /\ v.game[g].player1 = p1 /\ v.game[g].player2 = p2
  /\ v.game[g].state = w.game[g].state
  /\ v.game[g].is_new_round /\ ~v.game[g].is_end_round

LEMMA StartRoundFields ==
  ASSUME NEW w \in World, NEW g \in GameIds,
         w.game[g].player1 \in Objects, w.game[g].player2 \in Objects
  PROVE  RoundBegins(w, start_round(w, g), g)
<1> DEFINE p1 == w.game[g].player1
           p2 == w.game[g].player2
           u1 == fresh_roll(w, p1)
           u == fresh_roll(u1, p2)
           v == start_round(w, g)
           r0 == u.game[g]
           r == [[r0 EXCEPT !.is_new_round = TRUE] EXCEPT !.is_end_round = FALSE]
<1>1. v \in World
  BY KeepsSelf, StartRoundKeeps, KeepsType
<1>2. p1 # nullptr /\ p2 # nullptr /\ p1 \in Objects /\ p2 \in Objects
  BY Types
<1>3. v = [u EXCEPT !.game[g].is_new_round = TRUE, !.game[g].is_end_round = FALSE]
  BY <1>2 DEF start_round
<1> HIDE DEF v, p1, p2
<1>4. /\ u1 \in World /\ SameVectors(w, u1) /\ u1.game = w.game
      /\ \A o \in Objects \ {p1} : u1.player[o] = w.player[o]
      /\ u1.player[p1].can_play
      /\ u1.player[p1].socket = w.player[p1].socket
      /\ u1.player[p1].game = w.player[p1].game
      /\ u1.player[p1].score = w.player[p1].score
      /\ u1.player[p1].state = w.player[p1].state
      /\ u1.player[p1].logged_in = w.player[p1].logged_in
  BY <1>2, FreshRollFields
<1> HIDE DEF u1
<1>5. /\ u \in World /\ SameVectors(u1, u) /\ u.game = u1.game
      /\ \A o \in Objects \ {p2} : u.player[o] = u1.player[o]
      /\ u.player[p2].can_play
      /\ u.player[p2].socket = u1.player[p2].socket
      /\ u.player[p2].game = u1.player[p2].game
      /\ u.player[p2].score = u1.player[p2].score
      /\ u.player[p2].state = u1.player[p2].state
      /\ u.player[p2].logged_in = u1.player[p2].logged_in
  BY <1>2, <1>4, FreshRollFields
<1> HIDE DEF u
<1>6. u.game \in [GameIds -> Game] /\ r0 \in Game
  BY <1>5, WorldFields
<1>7. v.game = [u.game EXCEPT ![g] = r] /\ SameVectors(u, v) /\ v.player = u.player
  BY <1>3, <1>5, <1>6 DEF World, SameVectors
<1> HIDE DEF r0
<1>8. /\ r.player1 = r0.player1 /\ r.player2 = r0.player2 /\ r.state = r0.state
      /\ r.is_new_round /\ ~r.is_end_round
  BY <1>6 DEF Game
<1> HIDE DEF r
<1>9. v.game[g] = r /\ \A h \in GameIds \ {g} : v.game[h] = u.game[h]
  BY <1>6, <1>7
<1>10. /\ \A h \in GameIds \ {g} : v.game[h] = w.game[h]
       /\ v.game[g].player1 = p1 /\ v.game[g].player2 = p2
       /\ v.game[g].state = w.game[g].state
       /\ v.game[g].is_new_round /\ ~v.game[g].is_end_round
  BY <1>4, <1>5, <1>8, <1>9, SMTT(30) DEF r0, p1, p2
<1>11. SameVectors(w, v)
  BY <1>4, <1>5, <1>7 DEF SameVectors
<1>12. \A o \in Objects \ {p1, p2} : v.player[o] = w.player[o]
  BY <1>4, <1>5, <1>7
<1>13. \A o \in {p1, p2} : /\ v.player[o].can_play
                           /\ v.player[o].socket = w.player[o].socket
                           /\ v.player[o].game = w.player[o].game
                           /\ v.player[o].score = w.player[o].score
                           /\ v.player[o].state = w.player[o].state
                           /\ v.player[o].logged_in = w.player[o].logged_in
  <2>1. CASE p1 = p2
    <3>1. v.player[p1] = u.player[p2] /\ u1.player[p2] = u1.player[p1]
      BY <1>7, <2>1
    <3>2. w.player[p2] = w.player[p1] /\ {p1, p2} = {p1}
      BY <2>1
    <3> QED
      BY <1>4, <1>5, <3>1, <3>2, ZenonT(60)
  <2>2. CASE p1 # p2
    <3>1. v.player[p1] = u1.player[p1]
      BY <1>2, <1>5, <1>7, <2>2
    <3>2. u1.player[p2] = w.player[p2]
      BY <1>2, <1>4, <2>2
    <3> QED
      BY <1>4, <1>5, <1>7, <3>1, <3>2, ZenonT(60)
  <2> QED
    BY <2>1, <2>2
<1> QED
  BY <1>1, <1>10, <1>11, <1>12, <1>13 DEF RoundBegins, v, p1, p2

LEMMA JoinGameGood ==
  ASSUME NEW w \in World, Seated(w), OneOwner(w), Apart(w), NEW p \in w.players,
         ~Left(w, p), w.player[p].logged_in, NEW g \in GameIds
  PROVE  Good(w, join_game(w, p, g), p)
<1> DEFINE f == forgive(w, p)
           v0 == take_seat(f, g, p)
           q == get_opponent(v0, g, p)
           v == IF q = nullptr THEN Crash(v0) ELSE Notify(v0, "JOIN_GAME", q)
           p1 == w.game[g].player1
           refused == \/ w.player[p].state # "IN_MAIN_MENU"
                      \/ g \notin w.games
                      \/ w.game[g].state # "WAITING_FOR_PLAYERS"
<1>1. /\ p \in Objects /\ p \notin Dropped(w) /\ nullptr \notin GameIds /\ nullptr \notin Objects
      /\ w.games \subseteq GameIds /\ w.players \subseteq Objects
  BY Types DEF Apart
<1>2. /\ refused => join_game(w, p, g) = player_error_message_inc(w, p)
      /\ ~refused => join_game(w, p, g) = v
  BY DEF join_game
<1>3. CASE refused
  BY <1>1, <1>2, <1>3, ErrorGood
<1>4. ASSUME ~refused
      PROVE  Good(w, v, p)
  <2>1. w.player[p].state = "IN_MAIN_MENU" /\ g \in w.games /\ Waits(w, g)
    BY <1>4 DEF Waits
  <2>2. /\ f \in World /\ Alike(w, f) /\ f.game = w.game
        /\ \A o \in Objects \ {p} : f.player[o] = w.player[o]
    <3>1. f \in World /\ Alike(w, f)
      BY <1>1, AlikeSelf, ForgiveAlike
    <3>2. /\ f.player = [w.player EXCEPT ![p] = [w.player[p] EXCEPT !.number_of_error_messages = 0]]
          /\ f.game = w.game
      BY DEF World, forgive
    <3> HIDE DEF f
    <3> QED
      BY <1>1, <3>1, <3>2, WorldFields
  <2> HIDE DEF refused, p1, v0, f
  <2>3. v0 \in World
    BY <1>1, <2>2, KeepsSelf, TakeSeatKeeps, KeepsType DEF v0
  <2>4. CASE p1 = nullptr
    <3>1. v0 = Crash(f) /\ v0.crashed
      BY <2>2, <2>4, MemoryAlike, AlikeSelf DEF v0, take_seat, p1
    <3>2. Crash(v0).crashed /\ Notify(v0, "JOIN_GAME", q).crashed
      BY <2>3, <3>1 DEF World, Crash, Notify
    <3> QED
      BY <3>2 DEF Good
  <2>5. CASE p1 # nullptr
    <3>1. /\ p1 \in Sits(w, g) /\ w.game[g].player2 = nullptr /\ w.player[p1].score = 0
          /\ p1 \in Objects /\ p1 \in Known(w) /\ w.player[p1].game = g
      <4>1. p1 \in Sits(w, g)
        BY <2>5 DEF Sits, p1
      <4>2. GameAgrees(w, g)
        BY <2>1 DEF Seated
      <4> QED
        BY <2>1, <4>1, <4>2, SitsBelongs DEF GameAgrees
    <3>2. p # p1
      BY <2>1, <3>1, MenuHasNoSeat
    <3> DEFINE y == [f EXCEPT !.game[g].player2 = p, !.game[g].state = "PLAYING",
                            !.player[p].game = g, !.player[p].score = 0,
                            !.player[p1].state = "IN_GAME",
                            !.player[p].state = "IN_GAME"]
               rp == [[[f.player[p] EXCEPT !.game = g] EXCEPT !.score = 0]
                        EXCEPT !.state = "IN_GAME"]
               r1 == [f.player[p1] EXCEPT !.state = "IN_GAME"]
               rg == [[f.game[g] EXCEPT !.player2 = p] EXCEPT !.state = "PLAYING"]
    <3>3. v0 = start_round(y, g)
      BY <2>2, <2>5 DEF v0, take_seat, p1
    <3>4. /\ f.player \in [Objects -> Player] /\ f.game \in [GameIds -> Game]
          /\ f.player[p] \in Player /\ f.player[p1] \in Player /\ f.game[g] \in Game
      BY <1>1, <2>2, <3>1, WorldFields
    <3>5. /\ y \in World /\ y.game = [f.game EXCEPT ![g] = rg] /\ SameVectors(f, y)
          /\ y.player[p] = rp /\ y.player[p1] = r1
          /\ \A o \in Objects \ {p, p1} : y.player[o] = f.player[o]
      <4> DEFINE y1 == [f EXCEPT !.game[g].player2 = p, !.game[g].state = "PLAYING"]
                 y2 == [y1 EXCEPT !.player[p].game = g, !.player[p].score = 0]
                 y3 == [y2 EXCEPT !.player[p1].state = "IN_GAME", !.player[p].state = "IN_GAME"]
                 x == f.player
      <4>1. Keeps(f, y1)
        BY <1>1, <2>2, KeepsSelf, GameFields DEF GameState
      <4>2. Keeps(f, y2)
        BY <1>1, <4>1, PlayerFields
      <4>3. Keeps(f, y3)
        BY <1>1, <3>1, <4>2, PlayerFields DEF PlayerState
      <4>4. y = y3
        BY DEF y
      <4>5. y \in World
        <5> HIDE DEF y3, y
        <5> QED
          BY <4>3, <4>4, KeepsType
      <4>6. /\ y.game = [[f.game EXCEPT ![g].player2 = p] EXCEPT ![g].state = "PLAYING"]
            /\ y.player = [[[[x EXCEPT ![p].game = g] EXCEPT ![p].score = 0]
                              EXCEPT ![p1].state = "IN_GAME"] EXCEPT ![p].state = "IN_GAME"]
            /\ SameVectors(f, y)
        BY <2>2 DEF World, SameVectors, y
      <4> HIDE DEF y, x
      <4>7. x \in [Objects -> Player] /\ p \in Objects /\ p1 \in Objects /\ p # p1
        BY <1>1, <3>1, <3>2, <3>4 DEF x
      <4>8. y.player[p] = [[[x[p] EXCEPT !.game = g] EXCEPT !.score = 0]
                             EXCEPT !.state = "IN_GAME"]
        BY <4>6, <4>7
      <4>9. /\ y.player[p1] = [x[p1] EXCEPT !.state = "IN_GAME"]
            /\ \A o \in Objects \ {p, p1} : y.player[o] = x[o]
        BY <4>6, <4>7
      <4>10. y.game = [f.game EXCEPT ![g] = rg]
        BY <3>4, <4>6
      <4> QED
        BY <4>5, <4>6, <4>8, <4>9, <4>10 DEF x
    <3>6. /\ rp \in Player /\ rp.game = g /\ rp.score = 0 /\ rp.state = "IN_GAME"
          /\ rp.logged_in = f.player[p].logged_in
      <4> DEFINE x == f.player[p]
      <4>1. x \in Player
        BY <3>4
      <4> HIDE DEF x
      <4>2. LET z == [[[x EXCEPT !.game = g] EXCEPT !.score = 0] EXCEPT !.state = "IN_GAME"]
            IN  /\ z \in Player /\ z.game = g /\ z.score = 0 /\ z.state = "IN_GAME"
                /\ z.logged_in = x.logged_in
        BY <4>1 DEF Player, PlayerState
      <4> QED
        BY <4>2 DEF x
    <3>7. /\ r1 \in Player /\ r1.game = f.player[p1].game /\ r1.score = f.player[p1].score
          /\ r1.state = "IN_GAME" /\ r1.logged_in = f.player[p1].logged_in
      <4> DEFINE x == f.player[p1]
      <4>1. x \in Player
        BY <3>4
      <4> HIDE DEF x
      <4>2. LET z == [x EXCEPT !.state = "IN_GAME"]
            IN  /\ z \in Player /\ z.game = x.game /\ z.score = x.score
                /\ z.state = "IN_GAME" /\ z.logged_in = x.logged_in
        BY <4>1 DEF Player, PlayerState
      <4> QED
        BY <4>2 DEF x
    <3>8. /\ rg \in Game /\ rg.player1 = f.game[g].player1 /\ rg.player2 = p
          /\ rg.state = "PLAYING"
      <4> DEFINE x == f.game[g]
      <4>1. x \in Game
        BY <3>4
      <4> HIDE DEF x
      <4>2. LET z == [[x EXCEPT !.player2 = p] EXCEPT !.state = "PLAYING"]
            IN  /\ z \in Game /\ z.player1 = x.player1 /\ z.player2 = p /\ z.state = "PLAYING"
        BY <1>1, <4>1 DEF Game, GameState
      <4> QED
        BY <4>2 DEF x
    <3> HIDE DEF y, rp, r1, rg, q
    <3>9. y \in World
      BY <3>5
    <3>10. /\ y.player[p] = rp /\ y.player[p1] = r1 /\ y.game[g] = rg
           /\ \A o \in Objects \ {p, p1} : y.player[o] = f.player[o]
           /\ \A h \in GameIds \ {g} : y.game[h] = f.game[h]
      BY <3>4, <3>5
    <3>11. y.game[g].player1 = p1 /\ y.game[g].player2 = p
      BY <2>2, <3>8, <3>10 DEF p1
    <3>12. RoundBegins(y, v0, g)
      BY <1>1, <3>1, <3>3, <3>9, <3>11, StartRoundFields
    <3>13. /\ v0.game[g].player1 = p1 /\ v0.game[g].player2 = p
           /\ v0.game[g].state = "PLAYING"
           /\ v0.game[g].is_new_round /\ ~v0.game[g].is_end_round
           /\ \A h \in GameIds \ {g} : v0.game[h] = w.game[h]
      BY <2>2, <3>8, <3>10, <3>11, <3>12 DEF RoundBegins
    <3>14. /\ v0.players = w.players /\ Dropped(v0) = Dropped(w) /\ v0.games = w.games
      BY <2>2, <3>5, <3>12 DEF RoundBegins, SameVectors, Alike, Dropped
    <3>15. \A o \in Objects \ {p, p1} : v0.player[o] = w.player[o]
      BY <2>2, <3>10, <3>11, <3>12 DEF RoundBegins
    <3>16. \A o \in {p, p1} : /\ v0.player[o].can_play /\ v0.player[o].game = g
                              /\ v0.player[o].score = 0 /\ v0.player[o].state = "IN_GAME"
                              /\ v0.player[o].logged_in = w.player[o].logged_in
      <4>1. /\ y.player[p].game = g /\ y.player[p].score = 0
            /\ y.player[p].state = "IN_GAME"
            /\ y.player[p].logged_in = w.player[p].logged_in
        BY <1>1, <2>2, <3>6, <3>10 DEF Alike, SamePlayer
      <4>2. /\ y.player[p1].game = g /\ y.player[p1].score = 0
            /\ y.player[p1].state = "IN_GAME"
            /\ y.player[p1].logged_in = w.player[p1].logged_in
        BY <2>2, <3>1, <3>7, <3>10 DEF Alike, SamePlayer
      <4>3. \A o \in {p1, p} : /\ v0.player[o].can_play
                               /\ v0.player[o].game = y.player[o].game
                               /\ v0.player[o].score = y.player[o].score
                               /\ v0.player[o].state = y.player[o].state
                               /\ v0.player[o].logged_in = y.player[o].logged_in
        BY <3>11, <3>12 DEF RoundBegins
      <4> QED
        BY <4>1, <4>2, <4>3
    <3>17. Sits(v0, g) = {p, p1} /\ Filled(v0, g) /\ ~Waits(v0, g)
      BY <1>1, <2>5, <3>1, <3>13 DEF Sits, Filled, Waits
    <3>18. GameAgrees(v0, g)
      BY <3>1, <3>2, <3>13, <3>14, <3>16, <3>17 DEF GameAgrees, Known
    <3>19. RoundAgrees(v0, g)
      BY <3>13, <3>16, <3>17, BoundsAssumption DEF RoundAgrees
    <3> DEFINE P == {p, p1}
    <3>20. \A o : o \in P <=> o \in {p, p1}
      OBVIOUS
    <3>21. \A o \in {p, p1} : o \in v0.players => PlayerAgrees(v0, o) /\ ~Left(v0, o)
      <4> SUFFICES ASSUME NEW o \in {p, p1}, o \in v0.players
                   PROVE  PlayerAgrees(v0, o) /\ ~Left(v0, o)
        OBVIOUS
      <4>1. w.player[o].logged_in
        BY <1>1, <2>1, <3>1, <3>14 DEF Seated, PlayerAgrees
      <4> QED
        BY <2>1, <3>14, <3>16, <3>17, <4>1 DEF PlayerAgrees, Left
    <3>22. \A o \in {p, p1} : o \in Dropped(v0) => DroppedAgrees(v0, o)
      BY <1>1, <2>1, <3>13, <3>14, <3>16, <3>17 DEF DroppedAgrees
    <3>23. \A o \in {p, p1} : ClosedAgrees(v0, o)
      BY <2>1, <3>14, <3>16 DEF ClosedAgrees
    <3>24. \A o \in Known(v0) : w.player[o].game = g => o \in {p, p1}
      <4> SUFFICES ASSUME NEW o \in Known(w), w.player[o].game = g, o # p
                   PROVE  o = p1
        BY <3>14 DEF Known
      <4>1. CASE o \in Dropped(w)
        BY <2>1, <3>1, <4>1 DEF Seated, DroppedAgrees, Sits, p1
      <4>2. CASE o \in w.players
        <5>1. PlayerAgrees(w, o) /\ w.player[o].state # "DISCONNECTED"
               /\ w.player[o].state \in PlayerState
          BY <1>1, <4>2, Types DEF Seated, OneOwner
        <5> QED
          BY <2>1, <2>5, <4>2, <5>1 DEF PlayerAgrees, Left, PlayerState, p1
      <4> QED
        BY <4>1, <4>2 DEF Known
    <3>25. Changes(w, v0, g)
      <4>1. \A s \in {1, 2} : Holder(v0, g, s) \in {p, p1}
        BY <3>13 DEF Holder
      <4> QED
        BY <2>1, <2>5, <3>1, <3>13, <3>14, <3>16, <3>17, <4>1 DEF Changes, Joins, p1
    <3> HIDE DEF P
    <3>26. \A o \in Known(v0) : o \in P \/ w.player[o].game = g => Agrees(v0, o) /\ ~Left(v0, o)
      <4>1. \A o \in {p, p1} : Agrees(v0, o) /\ ~Left(v0, o)
        BY <3>21, <3>22, <3>23 DEF Agrees, Left
      <4> QED
        BY <3>20, <3>24, <4>1
    <3>27. \A h \in w.games \ {g} : \A o \in Sits(w, h) : o \notin P
      BY <2>1, <3>1, <3>20, MenuHasNoSeat, SitsBelongs
    <3>28. /\ \A o \in Objects \ P : SamePlayer(w, v0, o)
           /\ \A h \in GameIds \ {g} : SameBoard(w, v0, h) /\ (h \in v0.games <=> h \in w.games)
           /\ g \in v0.games
      BY <2>1, <3>13, <3>14, <3>15, <3>20, SameRefl
    <3>29. Good(w, v0, p)
      BY <2>3, <3>14, <3>18, <3>19, <3>25, <3>26, <3>27, <3>28, OneGameSeated
    <3>30. q = p1
      BY <3>2, <3>13 DEF get_opponent, q
    <3>31. v = Notify(v0, "JOIN_GAME", p1) /\ "JOIN_GAME" \in Notice
      BY <2>5, <3>30 DEF Notice
    <3>32. Alike(v0, v) /\ (v0.crashed => v.crashed)
      <4>1. v0.crashed => v.crashed
        BY <2>3, <3>31 DEF Notify, World
      <4> QED
        BY <2>3, <3>1, <3>31, <4>1, AlikeSelf, MemoryAlike
    <3> HIDE DEF v
    <3> QED
      BY <2>3, <3>29, <3>32, GoodBeforeAlike
  <2> QED
    BY <2>4, <2>5
<1> QED
  BY <1>2, <1>3, <1>4
-----------------------------------------------------------------------------
(* A round goes on: two players keep their seats.                          *)

\* Only what the players of g have to do in the round, their points and the
\* state of the round are written.
RoundStep(w, v, g) ==
  /\ v \in World /\ SameVectors(w, v)
  /\ \A o \in Objects \ Sits(w, g) : SamePlayer(w, v, o)
  /\ \A o \in Sits(w, g) :
       /\ v.player[o].game = w.player[o].game
       /\ v.player[o].state = w.player[o].state
       /\ v.player[o].logged_in = w.player[o].logged_in
       /\ o \in Dropped(w) /\ w.player[o].can_play => v.player[o].can_play
  /\ \A h \in GameIds \ {g} : SameBoard(w, v, h)
  /\ v.game[g].player1 = w.game[g].player1 /\ v.game[g].player2 = w.game[g].player2
  /\ ~Waits(v, g)

LEMMA RoundGood ==
  ASSUME NEW w \in World, Seated(w), NEW v, NEW g \in w.games, ~Waits(w, g),
         RoundStep(w, v, g), RoundAgrees(v, g), Changes(w, v, g), NEW p
  PROVE  Good(w, v, p) /\ Seated(v)
<1> DEFINE P == Sits(w, g)
<1>1. /\ g \in GameIds /\ v \in World /\ v.games = w.games /\ v.players = w.players
      /\ Dropped(v) = Dropped(w) /\ Known(v) = Known(w) /\ P = Sits(v, g)
      /\ nullptr \notin w.games /\ P \subseteq Objects
      /\ Filled(v, g) <=> Filled(w, g)
  BY Types DEF RoundStep, SameVectors, Dropped, Known, Sits, Filled
<1>2. \A o \in P : w.player[o].game = g /\ v.player[o].game = g
  BY SitsBelongs DEF RoundStep
<1>3. \A h \in w.games \ {g} : \A o \in Sits(w, h) : o \notin P
  BY <1>2, SitsBelongs
<1>4. GameAgrees(v, g)
  <2>1. GameAgrees(w, g)
    BY DEF Seated
  <2> QED
    BY <1>1, <1>2, <2>1 DEF GameAgrees, RoundStep
<1>5. ASSUME NEW o \in Known(v), o \in P \/ w.player[o].game = g
      PROVE  Agrees(v, o) /\ ~Left(v, o)
  <2>1. /\ w.player[o].game = g /\ o \in Objects
        /\ o \in w.players => PlayerAgrees(w, o)
        /\ o \in Dropped(w) => DroppedAgrees(w, o)
    BY <1>1, <1>2, <1>5, Types DEF Seated
  <2>2. /\ v.player[o].game = g
        /\ v.player[o].state = w.player[o].state
        /\ v.player[o].logged_in = w.player[o].logged_in
        /\ o \in Dropped(w) /\ w.player[o].can_play => v.player[o].can_play
    BY <2>1 DEF RoundStep, SamePlayer
  <2>3. ~Left(v, o)
    BY <1>1, <2>1, <2>2 DEF Left, PlayerAgrees
  <2>4. o \in w.players => PlayerAgrees(v, o)
    <3> SUFFICES ASSUME o \in w.players
                 PROVE  PlayerAgrees(v, o)
      OBVIOUS
    <3>1. /\ w.player[o].state # "IN_LOBBY"
          /\ w.player[o].state = "IN_GAME" => o \in P
          /\ w.player[o].logged_in
      BY <1>1, <2>1 DEF PlayerAgrees
    <3> QED
      BY <1>1, <2>2, <2>3, <3>1 DEF PlayerAgrees, RoundStep
  <2>5. o \in Dropped(w) => DroppedAgrees(v, o)
    <3> SUFFICES ASSUME o \in Dropped(w)
                 PROVE  DroppedAgrees(v, o)
      OBVIOUS
    <3>1. /\ o \in P
          /\ w.player[o].state # "DISCONNECTED" =>
               w.game[g].player1 = o /\ w.player[o].can_play
      BY <2>1 DEF DroppedAgrees
    <3>2. /\ v.player[o].state # "DISCONNECTED" =>
               v.game[g].player1 = o /\ v.player[o].can_play
          /\ ~Waits(v, g) /\ g \in v.games
      BY <1>1, <2>2, <3>1 DEF RoundStep
    <3> QED
      BY <1>1, <2>2, <3>1, <3>2 DEF DroppedAgrees
  <2> QED
    BY <1>1, <2>2, <2>3, <2>4, <2>5 DEF Agrees, ClosedAgrees
<1>6. /\ \A o \in Objects \ P : SamePlayer(w, v, o)
      /\ \A h \in GameIds \ {g} : SameBoard(w, v, h) /\ (h \in v.games <=> h \in w.games)
  BY <1>1 DEF RoundStep
<1> HIDE DEF P
<1> QED
  BY <1>1, <1>3, <1>4, <1>5, <1>6, OneGameSeated

LEMMA ForgiveFields ==
  ASSUME NEW w \in World, NEW p \in Objects
  PROVE  LET v == forgive(w, p) IN
         /\ v \in World /\ Alike(w, v) /\ SameVectors(w, v) /\ v.game = w.game
         /\ v.crashed = w.crashed /\ v.sent = w.sent
         /\ \A o \in Objects \ {p} : v.player[o] = w.player[o]
<1> DEFINE v == forgive(w, p)
<1>1. v \in World /\ Alike(w, v)
  BY AlikeSelf, ForgiveAlike
<1>2. /\ v.player = [w.player EXCEPT ![p] = [w.player[p] EXCEPT !.number_of_error_messages = 0]]
      /\ v.game = w.game /\ SameVectors(w, v) /\ v.crashed = w.crashed /\ v.sent = w.sent
  BY DEF World, forgive, SameVectors
<1> HIDE DEF v
<1>3. \A o \in Objects \ {p} : v.player[o] = w.player[o]
  BY <1>2, WorldFields
<1> QED
  BY <1>1, <1>2, <1>3 DEF v

\* One field of the player is written that has to do with the round.
PlaysOn(w, v, p) ==
  /\ v \in World /\ SameVectors(w, v) /\ v.game = w.game /\ v.crashed = w.crashed
  /\ \A o \in Objects \ {p} : v.player[o] = w.player[o]
  /\ v.player[p].socket = w.player[p].socket
  /\ v.player[p].game = w.player[p].game
  /\ v.player[p].state = w.player[p].state
  /\ v.player[p].logged_in = w.player[p].logged_in

LEMMA PlayFields ==
  ASSUME NEW w \in World, NEW p \in Objects
  PROVE  /\ \A n \in Nat : LET v == [w EXCEPT !.player[p].score = n] IN
              /\ PlaysOn(w, v, p) /\ v.player[p].score = n
              /\ v.player[p].can_play = w.player[p].can_play
         /\ \A b \in BOOLEAN : LET v == [w EXCEPT !.player[p].can_play = b] IN
              /\ PlaysOn(w, v, p) /\ v.player[p].can_play = b
              /\ v.player[p].score = w.player[p].score
<1> DEFINE r0 == w.player[p]
<1>1. r0 \in Player /\ w.player \in [Objects -> Player]
  BY WorldFields
<1>2. ASSUME NEW r \in Player, r.socket = r0.socket, r.game = r0.game,
             r.state = r0.state, r.logged_in = r0.logged_in
      PROVE  LET v == [w EXCEPT !.player[p] = r] IN
             PlaysOn(w, v, p) /\ v.player[p] = r
  <2> DEFINE v == [w EXCEPT !.player[p] = r]
  <2>1. v \in World
    BY SetPlayer
  <2>2. /\ v.player = [w.player EXCEPT ![p] = r] /\ v.game = w.game /\ SameVectors(w, v)
        /\ v.crashed = w.crashed
    BY DEF World, SameVectors
  <2> HIDE DEF v
  <2>3. v.player[p] = r /\ \A o \in Objects \ {p} : v.player[o] = w.player[o]
    BY <1>1, <2>2
  <2>4. PlaysOn(w, v, p)
    BY <1>2, <2>1, <2>2, <2>3 DEF PlaysOn
  <2> QED
    BY <2>3, <2>4 DEF v
<1> HIDE DEF r0
<1>3. ASSUME NEW n \in Nat
      PROVE  LET r == [r0 EXCEPT !.score = n] IN
             /\ r \in Player /\ r.socket = r0.socket /\ r.game = r0.game
             /\ r.state = r0.state /\ r.logged_in = r0.logged_in
             /\ r.score = n /\ r.can_play = r0.can_play
  BY <1>1 DEF Player
<1>4. ASSUME NEW b \in BOOLEAN
      PROVE  LET r == [r0 EXCEPT !.can_play = b] IN
             /\ r \in Player /\ r.socket = r0.socket /\ r.game = r0.game
             /\ r.state = r0.state /\ r.logged_in = r0.logged_in
             /\ r.can_play = b /\ r.score = r0.score
  BY <1>1 DEF Player
<1>5. /\ \A n \in Nat : [w EXCEPT !.player[p].score = n] =
                          [w EXCEPT !.player[p] = [r0 EXCEPT !.score = n]]
      /\ \A b \in BOOLEAN : [w EXCEPT !.player[p].can_play = b] =
                              [w EXCEPT !.player[p] = [r0 EXCEPT !.can_play = b]]
  BY DEF r0
<1>6. ASSUME NEW n \in Nat
      PROVE  LET v == [w EXCEPT !.player[p].score = n] IN
             /\ PlaysOn(w, v, p) /\ v.player[p].score = n
             /\ v.player[p].can_play = w.player[p].can_play
  <2> DEFINE r == [r0 EXCEPT !.score = n]
             v == [w EXCEPT !.player[p] = r]
  <2>1. PlaysOn(w, v, p) /\ v.player[p] = r
    <3> HIDE DEF v
    <3> QED
      BY <1>2, <1>3 DEF v
  <2>2. r.score = n /\ r.can_play = w.player[p].can_play
    BY <1>3 DEF r0
  <2> HIDE DEF r
  <2> QED
    BY <1>5, <2>1, <2>2 DEF r
<1>7. ASSUME NEW b \in BOOLEAN
      PROVE  LET v == [w EXCEPT !.player[p].can_play = b] IN
             /\ PlaysOn(w, v, p) /\ v.player[p].can_play = b
             /\ v.player[p].score = w.player[p].score
  <2> DEFINE r == [r0 EXCEPT !.can_play = b]
             v == [w EXCEPT !.player[p] = r]
  <2>1. PlaysOn(w, v, p) /\ v.player[p] = r
    <3> HIDE DEF v
    <3> QED
      BY <1>2, <1>4 DEF v
  <2>2. r.can_play = b /\ r.score = w.player[p].score
    BY <1>4 DEF r0
  <2> HIDE DEF r
  <2> QED
    BY <1>5, <2>1, <2>2 DEF r
<1> QED
  BY <1>6, <1>7

\* A round that is over has winners, and is the last one when one of them has
\* all the points it takes.
RoundEnds(w, v, g) ==
  LET p1 == w.game[g].player1  p2 == w.game[g].player2 IN
  /\ v \in World /\ SameVectors(w, v) /\ v.crashed = w.crashed
  /\ \A o \in Objects \ {p1, p2} : v.player[o] = w.player[o]
  /\ \A o \in {p1, p2} : /\ v.player[o].can_play = w.player[o].can_play
                         /\ v.player[o].socket = w.player[o].socket
                         /\ v.player[o].game = w.player[o].game
                         /\ v.player[o].state = w.player[o].state
                         /\ v.player[o].logged_in = w.player[o].logged_in
  /\ \E winners \in (SUBSET {1, 2}) \ {{}} : Awards(w, v, g, winners)
  /\ \A h \in GameIds \ {g} : v.game[h] = w.game[h]
  /\ v.game[g].player1 = p1 /\ v.game[g].player2 = p2
  /\ IF \E o \in {p1, p2} : v.player[o].score = BEST_OF
       THEN v.game[g].state = "FINISHED" /\ v.game[g].is_end_round = w.game[g].is_end_round
       ELSE v.game[g].state = w.game[g].state /\ v.game[g].is_end_round

LEMMA EndRoundFields ==
  ASSUME NEW w \in World, NEW g \in GameIds, NEW result \in Result,
         w.game[g].player1 \in Objects, w.game[g].player2 \in Objects,
         w.game[g].player1 # w.game[g].player2
  PROVE  RoundEnds(w, end_round(w, g, result), g)
<1> DEFINE p1 == w.game[g].player1
           p2 == w.game[g].player2
           n1 == w.player[p1].score + 1
           v1 == IF result \in {"player1", "draw"} \/ p1 = p2
                   THEN [w EXCEPT !.player[p1].score = @ + 1] ELSE w
           n2 == v1.player[p2].score + 1
           u  == IF result \in {"player2", "draw"} \/ p1 = p2
                   THEN [v1 EXCEPT !.player[p2].score = @ + 1] ELSE v1
           over == BEST_OF \in {u.player[p1].score, u.player[p2].score}
           v == end_round(w, g, result)
<1>1. v \in World
  BY KeepsSelf, EndRoundKeeps, KeepsType
<1>2. /\ over => v = [u EXCEPT !.game[g].game_over = TRUE, !.game[g].state = "FINISHED"]
      /\ ~over => v = [u EXCEPT !.game[g].is_end_round = TRUE, !.game[g].send_end_of_round = TRUE]
  BY DEF end_round, end_game
<1> HIDE DEF v
<1>3. p1 \in Objects /\ p2 \in Objects /\ p1 # p2
  OBVIOUS
<1> HIDE DEF p1, p2
<1>4. /\ n1 \in Nat /\ PlaysOn(w, v1, p1) /\ v1.player[p1].can_play = w.player[p1].can_play
      /\ v1.player[p1].score = IF result \in {"player1", "draw"} THEN w.player[p1].score + 1
                                                               ELSE w.player[p1].score
  <2>1. n1 \in Nat
    BY <1>3, Types
  <2>2. PlaysOn(w, w, p1)
    BY DEF PlaysOn, SameVectors
  <2>3. /\ PlaysOn(w, [w EXCEPT !.player[p1].score = n1], p1)
        /\ [w EXCEPT !.player[p1].score = n1].player[p1].score = n1
        /\ [w EXCEPT !.player[p1].score = n1].player[p1].can_play = w.player[p1].can_play
    <3> HIDE DEF n1
    <3> QED
      BY <1>3, <2>1, PlayFields
  <2> QED
    BY <1>3, <2>1, <2>2, <2>3
<1>5. /\ v1 \in World /\ v1.player[p2] = w.player[p2]
  BY <1>3, <1>4 DEF PlaysOn
<1> HIDE DEF v1, n1
<1>6. /\ PlaysOn(v1, u, p2) /\ u.player[p2].can_play = w.player[p2].can_play
      /\ u.player[p2].score = IF result \in {"player2", "draw"} THEN w.player[p2].score + 1
                                                              ELSE w.player[p2].score
  <2>1. n2 \in Nat
    BY <1>3, <1>5, Types
  <2>2. PlaysOn(v1, v1, p2)
    BY <1>5 DEF PlaysOn, SameVectors
  <2>3. /\ PlaysOn(v1, [v1 EXCEPT !.player[p2].score = n2], p2)
        /\ [v1 EXCEPT !.player[p2].score = n2].player[p2].score = n2
        /\ [v1 EXCEPT !.player[p2].score = n2].player[p2].can_play = v1.player[p2].can_play
    <3> HIDE DEF n2
    <3> QED
      BY <1>3, <1>5, <2>1, PlayFields
  <2> QED
    BY <1>3, <1>5, <2>1, <2>2, <2>3
<1> HIDE DEF u, n2
<1>7. /\ u \in World /\ SameVectors(w, u) /\ u.crashed = w.crashed /\ u.game = w.game
      /\ \A o \in Objects \ {p1, p2} : u.player[o] = w.player[o]
      /\ u.player[p1] = v1.player[p1] /\ v1.player[p2] = w.player[p2]
  BY <1>3, <1>4, <1>5, <1>6 DEF PlaysOn, SameVectors
<1>8. \A o \in {p1, p2} : /\ u.player[o].can_play = w.player[o].can_play
                          /\ u.player[o].socket = w.player[o].socket
                          /\ u.player[o].game = w.player[o].game
                          /\ u.player[o].state = w.player[o].state
                          /\ u.player[o].logged_in = w.player[o].logged_in
  <2> TAKE o \in {p1, p2}
  <2>1. CASE o = p1
    BY <1>4, <1>7, <2>1 DEF PlaysOn
  <2>2. CASE o = p2
    BY <1>6, <1>7, <2>2 DEF PlaysOn
  <2> QED
    BY <2>1, <2>2
<1> DEFINE r0 == u.game[g]
           ro == [[r0 EXCEPT !.game_over = TRUE] EXCEPT !.state = "FINISHED"]
           re == [[r0 EXCEPT !.is_end_round = TRUE] EXCEPT !.send_end_of_round = TRUE]
           r == IF over THEN ro ELSE re
<1>9. r0 \in Game /\ u.game \in [GameIds -> Game]
  BY <1>7, WorldFields
<1>10. /\ v.game = [u.game EXCEPT ![g] = r] /\ v.player = u.player /\ SameVectors(u, v)
       /\ v.crashed = u.crashed
  <2>1. CASE over
    <3>1. v = [u EXCEPT !.game[g].game_over = TRUE, !.game[g].state = "FINISHED"]
      BY <1>2, <2>1
    <3>2. r = ro
      BY <2>1
    <3> HIDE DEF over, r
    <3>3. v.game = [u.game EXCEPT ![g] = ro]
      BY <1>7, <1>9, <3>1 DEF World
    <3> QED
      BY <1>7, <3>1, <3>2, <3>3 DEF World, SameVectors
  <2>2. CASE ~over
    <3>1. v = [u EXCEPT !.game[g].is_end_round = TRUE, !.game[g].send_end_of_round = TRUE]
      BY <1>2, <2>2
    <3>2. r = re
      BY <2>2
    <3> HIDE DEF over, r
    <3>3. v.game = [u.game EXCEPT ![g] = re]
      BY <1>7, <1>9, <3>1 DEF World
    <3> QED
      BY <1>7, <3>1, <3>2, <3>3 DEF World, SameVectors
  <2> QED
    BY <2>1, <2>2
<1> HIDE DEF r0
<1>11. /\ r.player1 = r0.player1 /\ r.player2 = r0.player2
       /\ over => r.state = "FINISHED" /\ r.is_end_round = r0.is_end_round
       /\ ~over => r.state = r0.state /\ r.is_end_round
  <2> HIDE DEF over
  <2> QED
    BY <1>9 DEF Game
<1> HIDE DEF r
<1>12. v.game[g] = r /\ \A h \in GameIds \ {g} : v.game[h] = w.game[h]
  BY <1>7, <1>9, <1>10
<1>13. r0 = w.game[g]
  BY <1>7 DEF r0
<1>14. /\ v.game[g].player1 = p1 /\ v.game[g].player2 = p2
       /\ over <=> \E o \in {p1, p2} : v.player[o].score = BEST_OF
       /\ over => v.game[g].state = "FINISHED" /\ v.game[g].is_end_round = w.game[g].is_end_round
       /\ ~over => v.game[g].state = w.game[g].state /\ v.game[g].is_end_round
  BY <1>10, <1>11, <1>12, <1>13 DEF p1, p2
<1>15. \E winners \in (SUBSET {1, 2}) \ {{}} : Awards(w, v, g, winners)
  <2>1. /\ Holder(v, g, 1) = p1 /\ Holder(v, g, 2) = p2
        /\ Holder(w, g, 1) = p1 /\ Holder(w, g, 2) = p2
    BY <1>14 DEF Holder, p1, p2
  <2>2. /\ v.player[p1].score = IF result \in {"player1", "draw"} THEN w.player[p1].score + 1
                                                                  ELSE w.player[p1].score
        /\ v.player[p2].score = IF result \in {"player2", "draw"} THEN w.player[p2].score + 1
                                                                  ELSE w.player[p2].score
    BY <1>4, <1>6, <1>7, <1>10
  <2>3. CASE result = "player1"
    <3> DEFINE winners == {1}
    <3>1. \A t : t \in winners <=> t \in {1}
      OBVIOUS
    <3> HIDE DEF winners
    <3>2. \A t \in {1, 2} : v.player[Holder(v, g, t)].score =
                              IF t \in winners THEN w.player[Holder(w, g, t)].score + 1
                                               ELSE w.player[Holder(w, g, t)].score
      BY <2>1, <2>2, <2>3, <3>1
    <3>3. Awards(w, v, g, winners)
      BY <3>2 DEF Awards
    <3> QED
      <4>1. 1 \in winners /\ winners \subseteq {1, 2}
        BY <3>1
      <4>2. winners \in SUBSET {1, 2} /\ winners # {}
        BY <4>1
      <4>3. winners \in (SUBSET {1, 2}) \ {{}}
        BY <4>2
      <4> QED
        BY <3>3, <4>3, Zenon
  <2>4. CASE result = "player2"
    <3> DEFINE winners == {2}
    <3>1. \A t : t \in winners <=> t \in {2}
      OBVIOUS
    <3> HIDE DEF winners
    <3>2. \A t \in {1, 2} : v.player[Holder(v, g, t)].score =
                              IF t \in winners THEN w.player[Holder(w, g, t)].score + 1
                                               ELSE w.player[Holder(w, g, t)].score
      BY <2>1, <2>2, <2>4, <3>1
    <3>3. Awards(w, v, g, winners)
      BY <3>2 DEF Awards
    <3> QED
      <4>1. 2 \in winners /\ winners \subseteq {1, 2}
        BY <3>1
      <4>2. winners \in SUBSET {1, 2} /\ winners # {}
        BY <4>1
      <4>3. winners \in (SUBSET {1, 2}) \ {{}}
        BY <4>2
      <4> QED
        BY <3>3, <4>3, Zenon
  <2>5. CASE result = "draw"
    <3> DEFINE winners == {1, 2}
    <3>1. \A t : t \in winners <=> t \in {1, 2}
      OBVIOUS
    <3> HIDE DEF winners
    <3>2. \A t \in {1, 2} : v.player[Holder(v, g, t)].score =
                              IF t \in winners THEN w.player[Holder(w, g, t)].score + 1
                                               ELSE w.player[Holder(w, g, t)].score
      BY <2>1, <2>2, <2>5, <3>1
    <3>3. Awards(w, v, g, winners)
      BY <3>2 DEF Awards
    <3> QED
      <4>1. 1 \in winners /\ winners \subseteq {1, 2}
        BY <3>1
      <4>2. winners \in SUBSET {1, 2} /\ winners # {}
        BY <4>1
      <4>3. winners \in (SUBSET {1, 2}) \ {{}}
        BY <4>2
      <4> QED
        BY <3>3, <4>3, Zenon
  <2> QED
    BY <2>3, <2>4, <2>5 DEF Result
<1>16. SameVectors(w, v) /\ v.crashed = w.crashed
  BY <1>7, <1>10 DEF SameVectors
<1>17. /\ \A o \in Objects \ {p1, p2} : v.player[o] = w.player[o]
       /\ \A o \in {p1, p2} : /\ v.player[o].can_play = w.player[o].can_play
                              /\ v.player[o].socket = w.player[o].socket
                              /\ v.player[o].game = w.player[o].game
                              /\ v.player[o].state = w.player[o].state
                              /\ v.player[o].logged_in = w.player[o].logged_in
  BY <1>7, <1>8, <1>10
<1> HIDE DEF over
<1> QED
  BY <1>1, <1>12, <1>14, <1>15, <1>16, <1>17 DEF RoundEnds, v, p1, p2

\* p rolls in a world w in which he may; u is w with his errors forgiven.
LEMMA RollGood ==
  ASSUME NEW w \in World, Seated(w), OneOwner(w), Apart(w), NEW p \in w.players,
         NEW u \in World, Alike(w, u), ~u.crashed, NEW result \in Result,
         w.player[p].state = "IN_GAME", w.player[p].can_play
  PROVE  LET v == reroll_hand(u, p, result) IN
         /\ v \in World /\ Good(w, v, p)
<1> DEFINE g == w.player[p].game
           x == [u EXCEPT !.player[p].can_play = FALSE]
           v == reroll_hand(u, p, result)
           p1 == w.game[g].player1
           p2 == w.game[g].player2
<1>1. /\ p \in Objects /\ p \notin Dropped(w) /\ nullptr \notin GameIds /\ nullptr \notin Objects
      /\ w.games \subseteq GameIds
  BY Types DEF Apart
<1>2. /\ g \in w.games /\ g \in GameIds /\ ~Waits(w, g) /\ p \in Sits(w, g)
      /\ GameAgrees(w, g) /\ RoundAgrees(w, g)
      /\ p1 \in Objects \cup {nullptr} /\ p2 \in Objects \cup {nullptr}
      /\ w.game[g].state \in GameState
  BY <1>1, Types DEF Seated, PlayerAgrees
<1>3. v \in World
  BY <1>1, KeepsSelf, RerollHandKeeps, KeepsType
<1>4. /\ PlaysOn(u, x, p) /\ x.player[p].can_play = FALSE
      /\ x.player[p].score = u.player[p].score
  BY <1>1, PlayFields
<1>5. u.player[p].game = g
  BY <1>1 DEF Alike, SamePlayer
<1>6. v = IF check_dereferences_null(x, g) THEN Crash(x)
          ELSE IF check_if_all_players_played(x, g) THEN end_round(x, g, result)
          ELSE x
  BY <1>5 DEF reroll_hand
<1> HIDE DEF x, v, g
<1>7. /\ x \in World /\ SameVectors(w, x) /\ ~x.crashed
      /\ \A h \in GameIds : SameBoard(w, x, h)
      /\ \A o \in Objects \ {p} : SamePlayer(w, x, o)
      /\ x.player[p].game = w.player[p].game /\ x.player[p].state = w.player[p].state
      /\ x.player[p].logged_in = w.player[p].logged_in
      /\ x.player[p].score = w.player[p].score /\ ~x.player[p].can_play
  BY <1>1, <1>4 DEF PlaysOn, SameVectors, Alike, SamePlayer, SameBoard
<1>8. x.game[g].player1 = p1 /\ x.game[g].player2 = p2
  BY <1>2, <1>7 DEF SameBoard
<1> SUFFICES Good(w, v, p)
  BY <1>3 DEF v, g
<1>9. CASE check_dereferences_null(x, g)
  BY <1>6, <1>7, <1>9, MemoryAlike, AlikeSelf DEF Good
<1>10. CASE ~check_dereferences_null(x, g)
  <2>1. p1 # nullptr /\ (~x.player[p1].can_play => p2 # nullptr)
    BY <1>8, <1>10 DEF check_dereferences_null
  <2>2. p \in {p1, p2} /\ (p = p1 => p2 # nullptr) /\ (p = p2 => p2 # nullptr)
    BY <1>1, <1>2, <1>7, <2>1 DEF Sits
  <2>3. Filled(w, g) /\ p1 # p2 /\ p1 \in Objects /\ p2 \in Objects /\ Sits(w, g) = {p1, p2}
    BY <1>2, <2>1, <2>2 DEF Filled, GameAgrees, Sits
  <2>4. /\ w.game[g].state = "PLAYING" /\ ~w.game[g].is_end_round
        /\ w.player[p1].score < BEST_OF /\ w.player[p2].score < BEST_OF
    <3>1. w.game[g].state \in {"PLAYING", "FINISHED"}
      BY <1>2 DEF Waits, GameState
    <3> QED
      BY <1>2, <2>3, <3>1 DEF RoundAgrees
  <2> DEFINE s == IF p = p1 THEN 1 ELSE 2
  <2>5. /\ s \in {1, 2} /\ 3 - s \in {1, 2} /\ Holder(w, g, s) = p
        /\ Holder(w, g, 3 - s) = IF p = p1 THEN p2 ELSE p1
        /\ Holder(w, g, 3 - s) \in Objects \ {p}
        /\ \A t \in {1, 2} : t = s \/ t = 3 - s
    BY <2>2, <2>3 DEF Holder
  <2> DEFINE q == Holder(w, g, 3 - s)
  <2>6. {p1, p2} = {p, q}
    BY <2>2, <2>3, <2>5
  <2> HIDE DEF s
  <2>7. /\ x.player[q].can_play = w.player[q].can_play
        /\ x.player[q].score = w.player[q].score
        /\ x.player[q].game = w.player[q].game
        /\ x.player[q].state = w.player[q].state
        /\ x.player[q].logged_in = w.player[q].logged_in
    BY <1>7, <2>5 DEF SamePlayer
  <2>8. check_if_all_players_played(x, g) <=> ~w.player[q].can_play
    <3>1. check_if_all_players_played(x, g) <=> \A o \in {p1, p2} : ~x.player[o].can_play
      BY <1>8, <2>1, <2>2, <2>3 DEF check_if_all_players_played, Filled
    <3> QED
      BY <1>7, <2>6, <2>7, <3>1
  <2>9. CASE w.player[q].can_play
    <3>1. v = x
      BY <1>6, <1>10, <2>8, <2>9
    <3>2. RoundStep(w, x, g)
      <4>1. \A o \in {p, q} :
              /\ x.player[o].game = w.player[o].game
              /\ x.player[o].state = w.player[o].state
              /\ x.player[o].logged_in = w.player[o].logged_in
              /\ o \in Dropped(w) /\ w.player[o].can_play => x.player[o].can_play
        BY <1>1, <1>7, <2>7
      <4>2. ~Waits(x, g)
        BY <1>2, <1>7 DEF Waits, SameBoard
      <4>3. \A o \in Objects \ Sits(w, g) : SamePlayer(w, x, o)
        BY <1>7, <2>3, <2>6
      <4> QED
        BY <1>7, <1>8, <2>3, <2>6, <4>1, <4>2, <4>3 DEF RoundStep
    <3>3. /\ Filled(x, g) /\ Sits(x, g) = {p, q} /\ x.game[g].state = "PLAYING"
          /\ x.game[g].is_end_round = w.game[g].is_end_round
          /\ Holder(x, g, s) = p /\ Holder(x, g, 3 - s) = q
      BY <1>2, <1>7, <1>8, <2>3, <2>4, <2>5, <2>6 DEF SameBoard, Filled, Sits, Holder
    <3>4. RoundAgrees(x, g)
      <4>1. /\ \E o \in Sits(x, g) : x.player[o].can_play
            /\ \A o \in Sits(x, g) : x.player[o].score < BEST_OF
            /\ ~x.game[g].is_end_round
        <5>1. w.player[p].score < BEST_OF /\ w.player[q].score < BEST_OF
          BY <2>4, <2>6
        <5>2. \A o \in {p, q} : x.player[o].score = w.player[o].score
          BY <1>7, <2>7
        <5> QED
          BY <2>4, <2>7, <2>9, <3>3, <5>1, <5>2
      <4> QED
        BY <3>3, <4>1 DEF RoundAgrees
    <3>5. Rolls(w, x, g, s)
      <4>1. SameSeat(w, x, g, 3 - s)
        BY <2>5, <2>7, <3>3 DEF SameSeat
      <4>2. Plays(w, x, g)
        BY <1>2, <1>7, <2>3, <2>4, <3>3 DEF Plays, SameVectors
      <4> QED
        BY <1>7, <2>5, <2>9, <3>3, <4>1, <4>2 DEF Rolls
    <3>6. Changes(w, x, g)
      BY <2>5, <3>5 DEF Changes
    <3> QED
      BY <1>2, <3>1, <3>2, <3>4, <3>6, RoundGood
  <2>10. CASE ~w.player[q].can_play
    <3>1. v = end_round(x, g, result)
      BY <1>6, <1>10, <2>8, <2>10
    <3>2. RoundEnds(x, v, g)
      BY <1>2, <1>7, <1>8, <2>3, <3>1, EndRoundFields
    <3>3. /\ SameVectors(x, v)
          /\ \A o \in Objects \ {p, q} : v.player[o] = x.player[o]
          /\ \A o \in {p, q} : /\ v.player[o].can_play = x.player[o].can_play
                               /\ v.player[o].game = x.player[o].game
                               /\ v.player[o].state = x.player[o].state
                               /\ v.player[o].logged_in = x.player[o].logged_in
          /\ \A h \in GameIds \ {g} : v.game[h] = x.game[h]
          /\ v.game[g].player1 = p1 /\ v.game[g].player2 = p2
          /\ IF \E o \in {p, q} : v.player[o].score = BEST_OF
               THEN v.game[g].state = "FINISHED" /\ v.game[g].is_end_round = x.game[g].is_end_round
               ELSE v.game[g].state = x.game[g].state /\ v.game[g].is_end_round
      <4>1. {x.game[g].player1, x.game[g].player2} = {p, q}
        BY <1>8, <2>6
      <4> DEFINE seats == {x.game[g].player1, x.game[g].player2}
      <4>2. seats = {p, q}
        BY <4>1
      <4>3. /\ SameVectors(x, v)
            /\ \A o \in Objects \ seats : v.player[o] = x.player[o]
            /\ \A o \in seats : /\ v.player[o].can_play = x.player[o].can_play
                                 /\ v.player[o].game = x.player[o].game
                                 /\ v.player[o].state = x.player[o].state
                                 /\ v.player[o].logged_in = x.player[o].logged_in
            /\ \A h \in GameIds \ {g} : v.game[h] = x.game[h]
            /\ v.game[g].player1 = p1 /\ v.game[g].player2 = p2
            /\ IF \E o \in seats : v.player[o].score = BEST_OF
                 THEN v.game[g].state = "FINISHED" /\ v.game[g].is_end_round = x.game[g].is_end_round
                 ELSE v.game[g].state = x.game[g].state /\ v.game[g].is_end_round
        BY <1>8, <3>2 DEF RoundEnds
      <4> HIDE DEF seats
      <4> QED
        BY <4>2, <4>3
    <3>4. PICK winners \in (SUBSET {1, 2}) \ {{}} : Awards(x, v, g, winners)
      BY <3>2 DEF RoundEnds
    <3>5. /\ Filled(v, g) /\ Sits(v, g) = {p, q}
          /\ \A t \in {1, 2} : Holder(v, g, t) = Holder(w, g, t) /\ Holder(x, g, t) = Holder(w, g, t)
          /\ x.game[g].state = "PLAYING" /\ ~x.game[g].is_end_round
      BY <1>2, <1>7, <1>8, <2>3, <2>4, <2>6, <3>3 DEF SameBoard, Filled, Sits, Holder
    <3>6. Awards(w, v, g, winners)
      <4>1. \A t \in {1, 2} : x.player[Holder(w, g, t)].score = w.player[Holder(w, g, t)].score
        BY <1>7, <2>5, <2>7
      <4> QED
        BY <3>4, <3>5, <4>1 DEF Awards
    <3>7. \A t \in {1, 2} : /\ ~v.player[Holder(v, g, t)].can_play
                            /\ Holder(v, g, t) \in {p, q}
                            /\ v.player[Holder(v, g, t)].score <= BEST_OF
      <4>1. \A t \in {1, 2} : Holder(v, g, t) \in {p, q}
        BY <2>5, <3>5
      <4>2. /\ w.player[p].score \in Nat /\ w.player[q].score \in Nat /\ BEST_OF \in Nat
            /\ w.player[p].score < BEST_OF /\ w.player[q].score < BEST_OF
        BY <1>1, <2>4, <2>5, <2>6, Types, BoundsAssumption
      <4>3. \A t \in {1, 2} : v.player[Holder(v, g, t)].score <= BEST_OF
        BY <2>5, <3>5, <3>6, <4>2 DEF Awards
      <4> QED
        BY <1>7, <2>7, <2>10, <3>3, <4>1, <4>3
    <3>8. RoundStep(w, v, g)
      <4>1. \A o \in {p, q} :
              /\ v.player[o].game = w.player[o].game
              /\ v.player[o].state = w.player[o].state
              /\ v.player[o].logged_in = w.player[o].logged_in
              /\ o \in Dropped(w) /\ w.player[o].can_play => v.player[o].can_play
        BY <1>1, <1>7, <2>7, <2>10, <3>3, ZenonT(60)
      <4>2. ~Waits(v, g)
        BY <3>3, <3>5 DEF Waits
      <4>3. \A o \in Objects \ Sits(w, g) : SamePlayer(w, v, o)
        <5>1. ASSUME NEW o \in Objects \ Sits(w, g)
              PROVE  SamePlayer(w, v, o)
          <6>1. SamePlayer(w, x, o) /\ v.player[o] = x.player[o]
            BY <1>7, <2>3, <2>6, <3>3
          <6> QED
            BY <6>1 DEF SamePlayer
        <5> QED
          BY <5>1
      <4>4. \A h \in GameIds \ {g} : SameBoard(w, v, h)
        BY <1>7, <3>3 DEF SameBoard
      <4>5. v \in World /\ SameVectors(w, v)
        BY <1>3, <1>7, <3>3 DEF SameVectors
      <4> QED
        BY <2>3, <2>6, <3>3, <4>1, <4>2, <4>3, <4>4, <4>5 DEF RoundStep
    <3>9. (\E o \in {p, q} : v.player[o].score = BEST_OF)
            <=> \E t \in {1, 2} : v.player[Holder(v, g, t)].score = BEST_OF
      BY <2>5, <3>5
    <3>10. RoundAgrees(v, g)
      <4>1. /\ \A o \in Sits(v, g) : ~v.player[o].can_play
        BY <1>7, <2>7, <2>10, <3>3, <3>5
      <4>2. /\ v.player[p].score <= BEST_OF /\ v.player[q].score <= BEST_OF
            /\ v.player[p].score \in Nat /\ v.player[q].score \in Nat /\ BEST_OF \in Nat
        BY <1>1, <1>3, <2>5, <3>5, <3>7, Types, BoundsAssumption
      <4>3. CASE \E o \in {p, q} : v.player[o].score = BEST_OF
        BY <3>3, <3>5, <4>1, <4>3 DEF RoundAgrees
      <4>4. CASE ~\E o \in {p, q} : v.player[o].score = BEST_OF
        BY <3>3, <3>5, <4>1, <4>2, <4>4 DEF RoundAgrees
      <4> QED
        BY <4>3, <4>4
    <3>11. RollsLast(w, v, g, s)
      <4>1. Plays(w, v, g)
        BY <1>2, <1>7, <2>3, <2>4, <3>3, <3>5 DEF Plays, SameVectors
      <4>2. IF \E t \in {1, 2} : v.player[Holder(v, g, t)].score = BEST_OF
              THEN /\ v.game[g].state = "FINISHED"
                   /\ v.game[g].is_end_round = w.game[g].is_end_round
              ELSE v.game[g].state = "PLAYING" /\ v.game[g].is_end_round
        BY <1>2, <1>7, <3>3, <3>5, <3>9 DEF SameBoard
      <4> QED
        BY <2>5, <2>10, <3>6, <3>7, <4>1, <4>2 DEF RollsLast
    <3>12. Changes(w, v, g)
      BY <2>5, <3>11 DEF Changes
    <3> QED
      BY <1>2, <3>8, <3>10, <3>12, RoundGood
  <2> QED
    BY <2>9, <2>10
<1> QED
  BY <1>9, <1>10

LEMMA RerollGood ==
  ASSUME NEW w \in World, ~w.crashed, Seated(w), OneOwner(w), Apart(w), NEW p \in w.players,
         NEW result \in Result
  PROVE  Good(w, reroll(w, p, result), p)
<1> DEFINE u == forgive(w, p)
           v == reroll_hand(u, p, result)
           g == w.player[p].game
           q == get_opponent(v, g, p)
           x == IF v.crashed \/ v.game[g].paused THEN v
                ELSE IF q = nullptr THEN Crash(v)
                ELSE Notify(v, "REROLL_OPPONENT", q)
           refused == w.player[p].state # "IN_GAME" \/ ~w.player[p].can_play
<1>1. p \in Objects /\ p \notin Dropped(w)
  BY Types DEF Apart
<1>2. /\ refused => reroll(w, p, result) = player_error_message_inc(w, p)
      /\ ~refused => reroll(w, p, result) = x
  BY DEF reroll
<1>3. CASE refused
  BY <1>1, <1>2, <1>3, ErrorGood
<1>4. CASE ~refused
  <2>1. u \in World /\ Alike(w, u) /\ ~u.crashed
    BY <1>1, ForgiveFields
  <2>2. v \in World /\ Good(w, v, p)
    <3> HIDE DEF u
    <3> QED
      BY <1>4, <2>1, RollGood
  <2>3. g \in GameIds
    <3>1. PlayerAgrees(w, p)
      BY DEF Seated
    <3> QED
      BY <1>4, <3>1, Types DEF PlayerAgrees
  <2> HIDE DEF v, u
  <2>4. q \in Objects \cup {nullptr}
    BY <2>2, <2>3, OpponentType
  <2> HIDE DEF q
  <2>5. Alike(v, v) /\ Alike(v, Crash(v)) /\ Crash(v).crashed
    BY <2>2, AlikeSelf, MemoryAlike
  <2>6. q # nullptr => /\ Alike(v, Notify(v, "REROLL_OPPONENT", q))
                       /\ Notify(v, "REROLL_OPPONENT", q).crashed = v.crashed
    <3>1. Notify(v, "REROLL_OPPONENT", q).crashed = v.crashed
      BY <2>2 DEF Notify, World
    <3>2. "REROLL_OPPONENT" \in Notice
      BY DEF Notice
    <3> QED
      BY <2>2, <2>4, <2>5, <3>1, <3>2, MemoryAlike
  <2>7. Alike(v, x) /\ (v.crashed => x.crashed)
    BY <2>5, <2>6
  <2> HIDE DEF x
  <2>8. Good(w, x, p)
    BY <2>2, <2>7, GoodBeforeAlike
  <2> QED
    BY <1>2, <1>4, <2>8
<1> QED
  BY <1>3, <1>4

\* The next round starts in a world u like w.
LEMMA NextRoundGood ==
  ASSUME NEW w \in World, Seated(w), NEW g \in w.games, Filled(w, g), ~Waits(w, g),
         w.game[g].is_end_round, NEW u \in World, Alike(w, u), NEW p
  PROVE  Good(w, start_round(u, g), p)
<1> DEFINE v == start_round(u, g)
           p1 == w.game[g].player1
           p2 == w.game[g].player2
<1>1. /\ g \in GameIds /\ nullptr \notin Objects
      /\ p1 \in Objects /\ p2 \in Objects /\ p1 # p2
      /\ Sits(w, g) = {p1, p2} /\ RoundAgrees(w, g) /\ w.game[g].state \in GameState
  BY Types DEF Filled, Seated, GameAgrees, Sits
<1>2. /\ w.game[g].state = "PLAYING"
      /\ \A o \in {p1, p2} : w.player[o].score < BEST_OF
  BY <1>1 DEF RoundAgrees, Waits, GameState
<1>3. /\ u.game[g].player1 = p1 /\ u.game[g].player2 = p2 /\ u.game[g].state = "PLAYING"
      /\ \A o \in Objects : SamePlayer(w, u, o)
      /\ \A h \in GameIds : SameBoard(w, u, h)
      /\ SameVectors(w, u)
  BY <1>1, <1>2 DEF Alike, SameBoard, SameVectors
<1>4. RoundBegins(u, v, g)
  BY <1>1, <1>3, StartRoundFields
<1> HIDE DEF v, p1, p2
<1>5. /\ v \in World /\ SameVectors(u, v)
      /\ \A o \in Objects \ {p1, p2} : v.player[o] = u.player[o]
      /\ \A o \in {p1, p2} : /\ v.player[o].can_play
                             /\ v.player[o].game = u.player[o].game
                             /\ v.player[o].score = u.player[o].score
                             /\ v.player[o].state = u.player[o].state
                             /\ v.player[o].logged_in = u.player[o].logged_in
      /\ \A h \in GameIds \ {g} : v.game[h] = u.game[h]
      /\ v.game[g].player1 = p1 /\ v.game[g].player2 = p2
      /\ v.game[g].state = u.game[g].state
      /\ v.game[g].is_new_round /\ ~v.game[g].is_end_round
  BY <1>3, <1>4 DEF RoundBegins
<1>6. \A o \in {p1, p2} : /\ v.player[o].can_play
                          /\ v.player[o].game = w.player[o].game
                          /\ v.player[o].score = w.player[o].score
                          /\ v.player[o].state = w.player[o].state
                          /\ v.player[o].logged_in = w.player[o].logged_in
  <2> TAKE o \in {p1, p2}
  <2>1. o \in Objects
    BY <1>1 DEF p1, p2
  <2>2. SamePlayer(w, u, o)
    BY <1>3, <2>1
  <2> QED
    BY <1>5, <2>2 DEF SamePlayer
<1>7. /\ Filled(v, g) /\ Sits(v, g) = {p1, p2} /\ ~Waits(v, g)
      /\ \A t \in {1, 2} : /\ Holder(v, g, t) = Holder(w, g, t)
                           /\ Holder(w, g, t) \in {p1, p2}
  BY <1>1, <1>3, <1>5 DEF Filled, Sits, Waits, Holder, p1, p2
<1>8. RoundStep(w, v, g)
  <2>1. ASSUME NEW o \in Objects \ Sits(w, g)
        PROVE  SamePlayer(w, v, o)
    <3>1. SamePlayer(w, u, o) /\ v.player[o] = u.player[o]
      BY <1>1, <1>3, <1>5
    <3> QED
      BY <3>1 DEF SamePlayer
  <2>2. \A h \in GameIds \ {g} : SameBoard(w, v, h)
    BY <1>3, <1>5 DEF SameBoard
  <2>3. SameVectors(w, v)
    BY <1>3, <1>5 DEF SameVectors
  <2>4. v.game[g].player1 = w.game[g].player1 /\ v.game[g].player2 = w.game[g].player2
    BY <1>5 DEF p1, p2
  <2> QED
    BY <1>1, <1>5, <1>6, <1>7, <2>1, <2>2, <2>3, <2>4 DEF RoundStep
<1>9. RoundAgrees(v, g)
  BY <1>2, <1>3, <1>5, <1>6, <1>7 DEF RoundAgrees
<1>10. Starts(w, v, g)
  <2>1. Plays(w, v, g)
    BY <1>2, <1>3, <1>5, <1>7 DEF Plays, SameVectors
  <2> QED
    BY <1>3, <1>5, <1>6, <1>7, <2>1 DEF Starts
<1>11. Good(w, v, p)
  BY <1>8, <1>9, <1>10, RoundGood DEF Changes
<1> QED
  BY <1>11 DEF v

LEMMA AcceptEndOfRoundGood ==
  ASSUME NEW w \in World, Seated(w), Apart(w), NEW p \in w.players
  PROVE  Good(w, accept_end_of_round(w, p), p)
<1> DEFINE g == w.player[p].game
           f == forgive(w, p)
           u == [f EXCEPT !.player[p].accepted_end_of_round = TRUE]
           q == get_opponent(u, g, p)
           refused == \/ w.player[p].state # "IN_GAME"
                      \/ ~w.game[g].is_end_round \/ w.player[p].accepted_end_of_round
           starts == Present(u, q) /\ u.player[q].accepted_end_of_round
<1>1. p \in Objects /\ p \notin Dropped(w) /\ nullptr \notin w.games
  BY Types DEF Apart
<1>2. w.player[p].state = "IN_GAME" => /\ g \in w.games /\ g # nullptr /\ ~Waits(w, g)
                                       /\ p \in Sits(w, g)
  BY <1>1 DEF Seated, PlayerAgrees
<1>3. accept_end_of_round(w, p) = IF refused THEN player_error_message_inc(w, p)
                                  ELSE IF starts THEN start_round(u, g) ELSE u
  BY <1>2 DEF accept_end_of_round
<1>4. CASE refused
  BY <1>1, <1>3, <1>4, ErrorGood
<1>5. CASE ~refused
  <2>1. Alike(w, f) /\ f \in World
    BY <1>1, ForgiveFields
  <2> HIDE DEF f
  <2>2. Alike(w, u) /\ u \in World
    <3>1. \A b \in BOOLEAN : Alike(w, [f EXCEPT !.player[p].accepted_end_of_round = b])
      BY <1>1, <2>1, FieldsAlike
    <3> HIDE DEF u
    <3>2. Alike(w, u)
      BY <3>1 DEF u
    <3> QED
      BY <3>2 DEF Alike
  <2> HIDE DEF u, g
  <2>3. CASE starts
    <3>1. g \in w.games /\ ~Waits(w, g) /\ w.game[g].is_end_round /\ g \in GameIds
      BY <1>2, <1>5, Types
    <3>2. Filled(w, g)
      <4>1. /\ u.game[g].player1 = w.game[g].player1 /\ u.game[g].player2 = w.game[g].player2
        BY <2>2, <3>1 DEF Alike, SameBoard
      <4>2. q # nullptr /\ p # nullptr
        BY <1>1, <2>3, Types DEF Present
      <4> QED
        BY <4>1, <4>2 DEF Filled, get_opponent
    <3>3. Good(w, start_round(u, g), p)
      BY <2>2, <3>1, <3>2, NextRoundGood
    <3> QED
      BY <1>3, <1>5, <2>3, <3>3
  <2>4. CASE ~starts
    BY <1>3, <1>5, <2>2, <2>4, AlikeGood
  <2> QED
    BY <2>3, <2>4
<1> QED
  BY <1>4, <1>5
-----------------------------------------------------------------------------
(* Connections that end and players who come back.                         *)

LEMMA DropFields ==
  ASSUME NEW w, Sound(w), NEW p \in w.players
  PROVE  LET v == drop(w, p) IN
         /\ v \in World /\ v.games = w.games /\ v.players = w.players \ {p}
         /\ Dropped(v) = Dropped(w) \cup {p}
         /\ \A o \in Objects \ {p} : SamePlayer(w, v, o)
         /\ \A h \in GameIds : SameBoard(w, v, h)
         /\ v.player[p].game = w.player[p].game
         /\ v.player[p].score = w.player[p].score
         /\ v.player[p].can_play = w.player[p].can_play
         /\ v.player[p].state = "DISCONNECTED"
<1> DEFINE s == w.disconnected_players
           g == w.player[p].game
           r0 == w.player[p]
           r == [r0 EXCEPT !.logged_in = FALSE, !.state = "DISCONNECTED"]
           x == [w EXCEPT !.player[p] = r]
           v == [x EXCEPT !.disconnected_players = Append(@, p)]
           u == [v EXCEPT !.game[g].paused = TRUE]
           q == get_opponent(u, g, p)
           z == IF g = nullptr THEN v
                ELSE IF Present(u, q) THEN Notify(u, "OPPONENT_DISCONNECTED", q) ELSE u
           e == erase(z, p)
<1>0. w \in World /\ p \in Objects
  BY WorldFields DEF Sound
<1>1. g \in GameIds \cup {nullptr} /\ r0 \in Player /\ s \in Seq(Objects)
  BY <1>0, WorldFields DEF Player
<1>2. drop(w, p) = e
  BY DEF drop
<1> HIDE DEF g, r0
<1>3. /\ r \in Player /\ r.state = "DISCONNECTED" /\ r.game = r0.game
      /\ r.score = r0.score /\ r.can_play = r0.can_play
  BY <1>1 DEF Player, PlayerState
<1> HIDE DEF r
<1>4. x \in World /\ x.disconnected_players = s
  BY <1>0, <1>3, SetPlayer DEF World
<1>5. /\ Append(s, p) \in Seq(Objects) /\ Len(s) \in Nat /\ DOMAIN s = 1 .. Len(s)
      /\ DOMAIN Append(s, p) = 1 .. Len(s) + 1
      /\ \A i \in 1 .. Len(s) : Append(s, p)[i] = s[i]
      /\ Append(s, p)[Len(s) + 1] = p
  BY <1>0, <1>1, AppendProperties, LenProperties
<1>6. v \in World
  BY <1>4, <1>5, SetVectors
<1>7. /\ v.players = w.players /\ v.disconnected_players = Append(s, p)
      /\ v.player = [w.player EXCEPT ![p] = r] /\ w.player \in [Objects -> Player]
      /\ v.game = w.game /\ v.games = w.games
  BY <1>0 DEF World
<1> HIDE DEF v
<1>8. Alike(v, z)
  <2>1. Alike(v, v)
    BY <1>6, AlikeSelf
  <2>2. CASE g = nullptr
    BY <2>1, <2>2
  <2>3. CASE g # nullptr
    <3>1. \A b \in BOOLEAN : Alike(v, [v EXCEPT !.game[g].paused = b])
      BY <1>1, <1>6, <2>1, <2>3, FieldsAlike
    <3>2. Alike(v, u) /\ u \in World
      <4>1. Alike(v, u)
        BY <3>1
      <4> QED
        BY <4>1 DEF Alike
    <3>3. q \in Objects \cup {nullptr}
      BY <1>1, <2>3, <3>2, OpponentType
    <3> HIDE DEF u, q
    <3>4. Present(u, q) => Alike(v, Notify(u, "OPPONENT_DISCONNECTED", q))
      BY <3>2, <3>3, MemoryAlike DEF Present, Notice
    <3> QED
      BY <2>3, <3>2, <3>4
  <2> QED
    BY <2>2, <2>3
<1> HIDE DEF z
<1>9. /\ z \in World /\ z.players = w.players /\ z.games = w.games
      /\ z.disconnected_players = Append(s, p)
      /\ \A o \in Objects : SamePlayer(v, z, o)
      /\ \A h \in GameIds : SameBoard(w, z, h)
  BY <1>7, <1>8 DEF Alike, SameBoard
<1>10. /\ e.player = z.player /\ e.game = z.game /\ e.games = z.games
       /\ e.players = z.players \ {p} /\ e.disconnected_players = z.disconnected_players
  BY <1>9 DEF World, erase
<1>11. e \in World
  BY <1>9, KeepsSelf, EraseKeeps, KeepsType
<1> HIDE DEF e
<1>12. v.player[p] = r /\ \A o \in Objects \ {p} : v.player[o] = w.player[o]
  BY <1>0, <1>7
<1>13. Dropped(e) = Dropped(w) \cup {p}
  <2>1. ASSUME NEW i \in DOMAIN Append(s, p)
        PROVE  Append(s, p)[i] \in Dropped(w) \cup {p}
    <3>1. i \in 1 .. Len(s) \/ i = Len(s) + 1
      BY <1>5
    <3> QED
      BY <1>5, <3>1 DEF Dropped
  <2>2. p \in Dropped(e)
    <3>1. Len(s) + 1 \in DOMAIN Append(s, p)
      BY <1>5
    <3>2. e.disconnected_players[Len(s) + 1] = p
      BY <1>5, <1>9, <1>10
    <3> QED
      BY <1>9, <1>10, <3>1, <3>2 DEF Dropped
  <2>3. \A i \in DOMAIN s : s[i] \in Dropped(e)
    <3>1. \A i \in DOMAIN s : i \in DOMAIN Append(s, p) /\ Append(s, p)[i] = s[i]
      BY <1>5
    <3> QED
      BY <1>9, <1>10, <3>1 DEF Dropped
  <2> QED
    BY <1>9, <1>10, <2>1, <2>2, <2>3 DEF Dropped
<1>14. ASSUME NEW o \in Objects \ {p}
       PROVE  SamePlayer(w, e, o)
  <2>1. SamePlayer(v, z, o) /\ v.player[o] = w.player[o] /\ e.player[o] = z.player[o]
    BY <1>9, <1>10, <1>12
  <2> QED
    BY <2>1 DEF SamePlayer
<1>15. \A h \in GameIds : SameBoard(w, e, h)
  BY <1>9, <1>10 DEF SameBoard
<1>16. /\ e.player[p].game = r0.game /\ e.player[p].score = r0.score
       /\ e.player[p].can_play = r0.can_play /\ e.player[p].state = "DISCONNECTED"
  <2>1. SamePlayer(v, z, p) /\ v.player[p] = r /\ e.player[p] = z.player[p]
    BY <1>0, <1>9, <1>10, <1>12
  <2> QED
    BY <1>3, <2>1 DEF SamePlayer
<1> QED
  BY <1>2, <1>9, <1>10, <1>11, <1>13, <1>14, <1>15, <1>16 DEF r0

LEMMA DropGood ==
  ASSUME NEW w, Sound(w), Seated(w), NEW p \in w.players, ~Left(w, p)
  PROVE  Good(w, drop(w, p), p)
<1> DEFINE v == drop(w, p)
           g == w.player[p].game
<1>1. /\ v \in World /\ v.games = w.games /\ v.players = w.players \ {p}
      /\ Dropped(v) = Dropped(w) \cup {p}
      /\ \A o \in Objects \ {p} : SamePlayer(w, v, o)
      /\ \A h \in GameIds : SameBoard(w, v, h)
      /\ v.player[p].game = w.player[p].game
      /\ v.player[p].score = w.player[p].score
      /\ v.player[p].can_play = w.player[p].can_play
      /\ v.player[p].state = "DISCONNECTED"
  BY DropFields
<1> HIDE DEF v
<1>2. /\ w \in World /\ p \in Objects /\ w.games \subseteq GameIds /\ nullptr \notin w.games
      /\ Known(v) = Known(w) /\ Known(w) \subseteq Objects
  BY <1>1, Types DEF Sound, Known
<1>3. \A o \in Objects : /\ v.player[o].game = w.player[o].game
                         /\ v.player[o].score = w.player[o].score
                         /\ v.player[o].can_play = w.player[o].can_play
  BY <1>1 DEF SamePlayer
<1>4. \A h \in GameIds : /\ Sits(v, h) = Sits(w, h)
                         /\ Filled(v, h) <=> Filled(w, h)
                         /\ Waits(v, h) <=> Waits(w, h)
  BY <1>1 DEF SameBoard, Sits, Filled, Waits
<1>5. \A h \in GameIds : SameGame(w, v, h)
  <2>1. \A h \in GameIds : Sits(w, h) \subseteq Objects
    BY <1>2, Types
  <2> QED
    BY <1>1, <1>3, <2>1 DEF SameGame, SameSeat, SameBoard, Sits, Holder
<1>6. ASSUME NEW h \in w.games
      PROVE  GameAgrees(v, h) /\ RoundAgrees(v, h)
  <2>1. /\ GameAgrees(w, h) /\ RoundAgrees(w, h) /\ h \in GameIds
        /\ Sits(w, h) \subseteq Objects /\ SameBoard(w, v, h)
    BY <1>1, <1>2, Types DEF Seated
  <2>2. GameAgrees(v, h)
    BY <1>2, <1>3, <1>4, <2>1 DEF GameAgrees, SameBoard
  <2>3. RoundAgrees(v, h)
    BY <1>3, <1>4, <2>1 DEF RoundAgrees, SameBoard
  <2> QED
    BY <2>2, <2>3
<1>7. ASSUME NEW o \in Known(v), o # p
      PROVE  Agrees(v, o) /\ (Left(v, o) => Left(w, o))
  <2>1. /\ SamePlayer(w, v, o) /\ o \in Objects /\ (o \in v.players <=> o \in w.players)
        /\ o \in Dropped(v) <=> o \in Dropped(w)
        /\ w.player[o].game \in GameIds \cup {nullptr}
    BY <1>1, <1>2, <1>7, Types
  <2>2. LET h == w.player[o].game IN
        /\ h \in v.games <=> h \in w.games
        /\ h # nullptr => SameBoard(w, v, h)
    BY <1>1, <2>1
  <2>3. /\ PlayerAgrees(w, o) /\ (Left(v, o) => Left(w, o)) => PlayerAgrees(v, o)
        /\ DroppedAgrees(w, o) => DroppedAgrees(v, o)
        /\ ClosedAgrees(w, o) => ClosedAgrees(v, o)
        /\ Left(v, o) <=> Left(w, o)
    BY <1>2, <2>1, <2>2, PlayerFrame
  <2>4. /\ o \in w.players => PlayerAgrees(w, o)
        /\ o \in Dropped(w) => DroppedAgrees(w, o)
        /\ ClosedAgrees(w, o)
    BY <1>2, <1>7 DEF Seated
  <2> QED
    BY <2>1, <2>3, <2>4 DEF Agrees
<1>8. Agrees(v, p) /\ ~Left(v, p)
  <2>1. PlayerAgrees(w, p) /\ ClosedAgrees(w, p) /\ w.player[p].state \in PlayerState
    BY <1>2, Types DEF Seated, Known
  <2>2. w.player[p].state \in {"IN_MAIN_MENU", "IN_LOBBY", "IN_GAME"}
    BY <2>1 DEF Sound, OneOwner, PlayerState
  <2>3. g \in w.games => p \in Sits(w, g)
    <3> SUFFICES ASSUME g \in w.games
                 PROVE  p \in Sits(w, g)
      OBVIOUS
    <3>1. w.player[p].state # "IN_MAIN_MENU"
      BY DEF Left
    <3>2. p # nullptr
      BY <1>2, Types
    <3> QED
      BY <2>1, <2>2, <3>1, <3>2 DEF PlayerAgrees, Sits
  <2>4. DroppedAgrees(v, p)
    BY <1>1, <1>2, <1>4, <2>3 DEF DroppedAgrees
  <2>5. ClosedAgrees(v, p)
    <3>1. g \in GameIds \cup {nullptr}
      BY <1>2, Types
    <3> QED
      BY <1>1, <2>1, <3>1 DEF ClosedAgrees, SameBoard
  <2> QED
    BY <1>1, <2>4, <2>5 DEF Agrees, Left
<1>9. Seated(v)
  BY <1>1, <1>6, <1>7, <1>8 DEF Seated, Agrees, Known
<1>10. \A o : Left(v, o) => o = p \/ Left(w, o)
  BY <1>7 DEF Left, Known
<1>11. Good(w, v, p)
  BY <1>5, <1>9, <1>10 DEF Good, Moves, AllSame
<1> QED
  BY <1>11 DEF v

\* Entry k of disconnected_players is taken out.
LEMMA EntryFields ==
  ASSUME NEW w, Sound(w), NEW k \in DOMAIN w.disconnected_players
  PROVE  LET q == w.disconnected_players[k]
             v == [w EXCEPT !.disconnected_players = WithoutEntry(@, k)]
         IN  /\ q \in Objects /\ q \in Dropped(w) /\ q \notin w.players
             /\ v \in World /\ v.players = w.players /\ v.games = w.games
             /\ v.player = w.player /\ v.game = w.game
             /\ Dropped(v) = Dropped(w) \ {q}
<1> DEFINE s == w.disconnected_players
           q == s[k]
           t == WithoutEntry(s, k)
           v == [w EXCEPT !.disconnected_players = WithoutEntry(@, k)]
<1>1. /\ w \in World /\ s \in Seq(Objects) /\ DOMAIN s = 1 .. Len(s) /\ Len(s) \in Nat
      /\ \A i \in DOMAIN s : s[i] \in Objects
  BY WorldFields, LenProperties DEF Sound
<1>2. /\ t \in Seq(Objects) /\ Len(t) = Len(s) - 1
      /\ \A i \in 1 .. Len(s) - 1 : t[i] = s[IF i < k THEN i ELSE i + 1]
  BY <1>1, WithoutEntryProperties
<1> HIDE DEF t
<1>3. DOMAIN t = 1 .. Len(s) - 1
  BY <1>1, <1>2, LenProperties
<1>4. /\ v \in World /\ v.players = w.players /\ v.games = w.games
      /\ v.player = w.player /\ v.game = w.game /\ v.disconnected_players = t
  <2>1. v = [w EXCEPT !.disconnected_players = t]
    BY DEF t
  <2>2. [w EXCEPT !.disconnected_players = t] \in World
    BY <1>1, <1>2, SetVectors
  <2> HIDE DEF v
  <2> QED
    BY <1>1, <2>1, <2>2 DEF World
<1> HIDE DEF v
<1>5. \A i, j \in DOMAIN s : s[i] = s[j] => i = j
  BY DEF Sound, OneEntry
<1>6. \A i \in DOMAIN t : t[i] \in Dropped(w) \ {q}
  <2> TAKE i \in DOMAIN t
  <2> DEFINE i1 == IF i < k THEN i ELSE i + 1
  <2>1. i1 \in DOMAIN s /\ i1 # k /\ t[i] = s[i1]
    BY <1>1, <1>2, <1>3
  <2> QED
    BY <1>1, <1>5, <2>1 DEF Dropped
<1>7. \A i \in DOMAIN s \ {k} : \E j \in DOMAIN t : t[j] = s[i]
  <2> TAKE i \in DOMAIN s \ {k}
  <2> DEFINE j == IF i < k THEN i ELSE i - 1
  <2>1. j \in DOMAIN t /\ i = (IF j < k THEN j ELSE j + 1)
    BY <1>1, <1>3
  <2> QED
    BY <1>2, <1>3, <2>1
<1>8. Dropped(v) = Dropped(w) \ {q}
  <2>1. \A x : x \in Dropped(v) => x \in Dropped(w) \ {q}
    BY <1>4, <1>6 DEF Dropped
  <2>2. ASSUME NEW x \in Dropped(w), x # q
        PROVE  x \in Dropped(v)
    <3>1. PICK i \in DOMAIN s : s[i] = x
      BY DEF Dropped
    <3>2. PICK j \in DOMAIN t : t[j] = s[i]
      BY <1>7, <2>2, <3>1
    <3> QED
      BY <1>4, <3>1, <3>2 DEF Dropped
  <2> QED
    BY <2>1, <2>2
<1>9. q \in Objects /\ q \in Dropped(w) /\ q \notin w.players
  BY <1>1 DEF Dropped, Sound, Apart
<1> QED
  BY <1>4, <1>8, <1>9 DEF v

\* The connection p has the session of q.
Returns(w, v, p, q) ==
  /\ v \in World /\ v.players = w.players /\ v.games = w.games
  /\ Dropped(v) = Dropped(w) \ {q}
  /\ \A o \in Objects \ {p} : v.player[o] = w.player[o]
  /\ v.player[p].socket = w.player[p].socket
  /\ v.player[p].game = w.player[q].game
  /\ v.player[p].score = w.player[q].score
  /\ v.player[p].can_play = w.player[q].can_play
  /\ v.player[p].logged_in

LEMMA CopySessionFields ==
  ASSUME NEW w, Sound(w), NEW p \in w.players, NEW k \in DOMAIN w.disconnected_players
  PROVE  LET q == w.disconnected_players[k]
             v == [copy_session(w, p, q) EXCEPT !.disconnected_players = WithoutEntry(@, k)]
         IN  /\ Returns(w, v, p, q) /\ v.game = w.game
             /\ v.player[p].state = w.player[p].state
<1> DEFINE q == w.disconnected_players[k]
           f == forgive(w, p)
           r0 == f.player[p]
           rq == w.player[q]
           r == [r0 EXCEPT
                   !.name = rq.name, !.game = rq.game,
                   !.score = rq.score, !.can_play = rq.can_play,
                   !.logged_in = TRUE,
                   !.accepted_end_of_round = rq.accepted_end_of_round]
           c == copy_session(w, p, q)
           t == WithoutEntry(w.disconnected_players, k)
           x == [w EXCEPT !.disconnected_players = WithoutEntry(@, k)]
           v == [c EXCEPT !.disconnected_players = WithoutEntry(@, k)]
<1>1. /\ w \in World /\ p \in Objects
      /\ q \in Objects /\ q \in Dropped(w) /\ q \notin w.players
      /\ x \in World /\ x.players = w.players /\ x.games = w.games
      /\ x.player = w.player /\ x.game = w.game
      /\ Dropped(x) = Dropped(w) \ {q}
  <2>1. w \in World
    BY DEF Sound
  <2>2. p \in Objects
    BY <2>1, Types
  <2>3. LET y == w.disconnected_players[k]
            z == [w EXCEPT !.disconnected_players = WithoutEntry(@, k)]
        IN  /\ y \in Objects /\ y \in Dropped(w) /\ y \notin w.players
            /\ z \in World /\ z.players = w.players /\ z.games = w.games
            /\ z.player = w.player /\ z.game = w.game
            /\ Dropped(z) = Dropped(w) \ {y}
    BY EntryFields
  <2> QED
    BY <2>1, <2>2, <2>3
<1>2. /\ c \in World /\ c.players = w.players
      /\ c.disconnected_players = w.disconnected_players
  BY <1>1, CopySessionCopies
<1>3. c = [f EXCEPT !.player[p] = r]
  BY DEF copy_session
<1>4. x.disconnected_players = t /\ t \in Seq(Objects)
  <2>1. x.disconnected_players = t
    BY <1>1 DEF World
  <2> HIDE DEF x, t
  <2> QED
    BY <1>1, <2>1, WorldFields
<1> HIDE DEF q, x
<1>5. /\ f \in World /\ Alike(w, f) /\ SameVectors(w, f) /\ f.game = w.game
      /\ \A o \in Objects \ {p} : f.player[o] = w.player[o]
  BY <1>1, ForgiveFields
<1> HIDE DEF c, f
<1>6. /\ v \in World /\ v.players = c.players /\ v.games = c.games
      /\ v.player = c.player /\ v.game = c.game /\ v.disconnected_players = t
  <2>1. v = [c EXCEPT !.disconnected_players = t]
    BY <1>2
  <2> HIDE DEF t, v
  <2>2. v \in World
    BY <1>2, <1>4, <2>1, SetVectors
  <2> QED
    BY <1>2, <2>1, <2>2 DEF World
<1>7. r0 \in Player /\ rq \in Player /\ f.player \in [Objects -> Player]
  BY <1>1, <1>5, WorldFields
<1> HIDE DEF v, rq, r0, t
<1>8. /\ r.socket = r0.socket /\ r.game = rq.game /\ r.score = rq.score
      /\ r.can_play = rq.can_play /\ r.logged_in /\ r.state = r0.state
  BY <1>7 DEF Player
<1> HIDE DEF r
<1>9. /\ c.player = [f.player EXCEPT ![p] = r] /\ c.games = f.games /\ c.game = f.game
  BY <1>3, <1>5 DEF World
<1>10. /\ v.player[p] = r /\ \A o \in Objects \ {p} : v.player[o] = w.player[o]
       /\ v.games = w.games /\ v.game = w.game /\ v.players = w.players
  BY <1>1, <1>2, <1>5, <1>6, <1>7, <1>9 DEF SameVectors
<1>11. Dropped(v) = Dropped(w) \ {q}
  BY <1>1, <1>4, <1>6 DEF Dropped
<1>12. r0.socket = w.player[p].socket /\ r0.state = w.player[p].state
  BY <1>1, <1>5 DEF Alike, SamePlayer, r0
<1>13. /\ Returns(w, v, p, q) /\ v.game = w.game
       /\ v.player[p].state = w.player[p].state
  BY <1>6, <1>8, <1>10, <1>11, <1>12 DEF Returns, rq
<1> QED
  BY <1>13 DEF v, c, q

\* And his seat, or a seat of the game that is gone.
LEMMA TakeOverSeatFields ==
  ASSUME NEW v \in World, NEW g \in GameIds, NEW p \in Objects, NEW q
  PROVE  LET u == take_over_seat(v, g, p, q) IN
         /\ u \in World /\ SameVectors(v, u)
         /\ \A o \in Objects \ {p} : u.player[o] = v.player[o]
         /\ u.player[p].socket = v.player[p].socket
         /\ u.player[p].game = v.player[p].game
         /\ u.player[p].score = v.player[p].score
         /\ u.player[p].can_play = v.player[p].can_play
         /\ u.player[p].logged_in = v.player[p].logged_in
         /\ u.player[p].state = IF Waits(v, g) THEN "IN_LOBBY" ELSE "IN_GAME"
         /\ \A h \in GameIds \ {g} : u.game[h] = v.game[h]
         /\ u.game[g].state = v.game[g].state
         /\ u.game[g].is_end_round = v.game[g].is_end_round
         /\ u.game[g].player1 = IF v.game[g].player1 = q THEN p ELSE v.game[g].player1
         /\ u.game[g].player2 = IF v.game[g].player1 = q THEN v.game[g].player2 ELSE p
<1> DEFINE state == IF v.game[g].state = "WAITING_FOR_PLAYERS" THEN "IN_LOBBY" ELSE "IN_GAME"
           r0 == v.player[p]
           b0 == v.game[g]
           r == [r0 EXCEPT !.state = state]
           b1 == [[b0 EXCEPT !.paused = FALSE] EXCEPT !.player1 = p]
           b2 == [[b0 EXCEPT !.paused = FALSE] EXCEPT !.player2 = p]
           b == IF b0.player1 = q THEN b1 ELSE b2
           u == take_over_seat(v, g, p, q)
<1>1. /\ v.player \in [Objects -> Player] /\ v.game \in [GameIds -> Game]
      /\ r0 \in Player /\ b0 \in Game
  BY WorldFields
<1>2. u \in World
  BY KeepsSelf, TakeOverSeatKeeps, KeepsType
<1> DEFINE y == [v EXCEPT !.game[g].paused = FALSE, !.player[p].state = state]
<1>3. /\ y.player = [v.player EXCEPT ![p] = r]
      /\ y.game = [v.game EXCEPT ![g] = [b0 EXCEPT !.paused = FALSE]]
      /\ SameVectors(v, y) /\ y = [y EXCEPT !.player = @]
      /\ \A z : LET x == [y EXCEPT !.game = z] IN x.player = y.player /\ x.game = z /\ SameVectors(y, x)
  BY DEF World, SameVectors
<1>4. u = IF y.game[g].player1 = q THEN [y EXCEPT !.game[g].player1 = p]
                                   ELSE [y EXCEPT !.game[g].player2 = p]
  BY DEF take_over_seat
<1>5. state \in {"IN_LOBBY", "IN_GAME"} /\ state \in PlayerState
      /\ state = IF Waits(v, g) THEN "IN_LOBBY" ELSE "IN_GAME"
  BY DEF PlayerState, Waits
<1> HIDE DEF y, u, state, r0, b0
<1>6. /\ r.socket = r0.socket /\ r.game = r0.game /\ r.score = r0.score
      /\ r.can_play = r0.can_play /\ r.logged_in = r0.logged_in /\ r.state = state
  BY <1>1, <1>5 DEF Player
<1>7. LET z == [b0 EXCEPT !.paused = FALSE] IN
      /\ z.player1 = b0.player1 /\ z.player2 = b0.player2 /\ z.state = b0.state
      /\ z.is_end_round = b0.is_end_round
      /\ b1 = [z EXCEPT !.player1 = p] /\ b2 = [z EXCEPT !.player2 = p]
      /\ b1.player1 = p /\ b1.player2 = b0.player2 /\ b2.player1 = b0.player1 /\ b2.player2 = p
      /\ b1.state = b0.state /\ b2.state = b0.state
      /\ b1.is_end_round = b0.is_end_round /\ b2.is_end_round = b0.is_end_round
  BY <1>1 DEF Game
<1>8. y.game[g] = [b0 EXCEPT !.paused = FALSE] /\ y.game[g].player1 = b0.player1
  BY <1>1, <1>3, <1>7
<1>9. u.player = y.player /\ SameVectors(y, u) /\ u.game = [v.game EXCEPT ![g] = b]
  <2>1. CASE b0.player1 = q
    <3>1. u = [y EXCEPT !.game = [y.game EXCEPT ![g] = b1]]
      BY <1>4, <1>7, <1>8, <2>1
    <3>2. [y.game EXCEPT ![g] = b1] = [v.game EXCEPT ![g] = b1] /\ b = b1
      BY <1>1, <1>3, <2>1
    <3> HIDE DEF b1, b
    <3> QED
      BY <1>3, <3>1, <3>2
  <2>2. CASE b0.player1 # q
    <3>1. u = [y EXCEPT !.game = [y.game EXCEPT ![g] = b2]]
      BY <1>4, <1>7, <1>8, <2>2
    <3>2. [y.game EXCEPT ![g] = b2] = [v.game EXCEPT ![g] = b2] /\ b = b2
      BY <1>1, <1>3, <2>2
    <3> HIDE DEF b2, b
    <3> QED
      BY <1>3, <3>1, <3>2
  <2> QED
    BY <2>1, <2>2
<1>10. /\ b.state = b0.state /\ b.is_end_round = b0.is_end_round
       /\ b.player1 = IF b0.player1 = q THEN p ELSE b0.player1
       /\ b.player2 = IF b0.player1 = q THEN b0.player2 ELSE p
  BY <1>7
<1> HIDE DEF b, r
<1>11. /\ u.player[p] = r /\ \A o \in Objects \ {p} : u.player[o] = v.player[o]
       /\ u.game[g] = b /\ \A h \in GameIds \ {g} : u.game[h] = v.game[h]
       /\ SameVectors(v, u)
  BY <1>1, <1>3, <1>9 DEF SameVectors
<1> QED
  BY <1>2, <1>5, <1>6, <1>10, <1>11 DEF u, r0, b0

\* What a connection that takes over a session without a game ends up as.
MenuReturn(w, v, p, q) ==
  /\ v \in World /\ v.players = w.players /\ v.games = w.games
  /\ Dropped(v) = Dropped(w) \ {q}
  /\ \A o \in Objects \ {p} : SamePlayer(w, v, o)
  /\ v.player[p].state = "IN_MAIN_MENU" /\ v.player[p].logged_in
  /\ v.player[p].game \in {nullptr, w.player[q].game}
  /\ \A h \in w.games : SameBoard(w, v, h)
  /\ \A h \in GameIds : w.game[h].player1 = nullptr => v.game[h].player1 = nullptr

LEMMA MenuReturnGood ==
  ASSUME NEW w \in World, Seated(w), OneOwner(w), Apart(w), NEW p \in w.players,
         ~w.player[p].logged_in, NEW q \in Dropped(w), w.player[q].game \notin w.games,
         NEW v, MenuReturn(w, v, p, q)
  PROVE  Good(w, v, p)
<1> DEFINE u == [w EXCEPT !.disconnected_players = v.disconnected_players]
<1>1. /\ p \in Objects /\ q \in Objects /\ p \notin Dropped(w) /\ q \notin w.players
      /\ nullptr \notin w.games /\ w.games \subseteq GameIds /\ nullptr \notin Objects
      /\ PlayerAgrees(w, p) /\ ClosedAgrees(w, q)
  BY Types DEF Apart, Seated, Known
<1>2. /\ u \in World /\ u.players = w.players /\ u.games = w.games
      /\ u.player = w.player /\ u.game = w.game
      /\ u.disconnected_players = v.disconnected_players
  <2>1. v.disconnected_players \in Seq(Objects)
    BY WorldFields DEF MenuReturn
  <2>2. u \in World
    BY <2>1, SetVectors
  <2> QED
    BY <2>2 DEF World
<1> HIDE DEF u
<1>3. Dropped(u) = Dropped(v) /\ Dropped(u) = Dropped(w) \ {q} /\ q \notin Known(u)
  BY <1>1, <1>2 DEF Dropped, MenuReturn, Known
<1>4. \A h \in w.games : q \notin Sits(w, h) /\ p \notin Sits(w, h)
  BY <1>1, SitsBelongs, MenuHasNoSeat DEF PlayerAgrees
<1>5. /\ \A o \in Objects : SamePlayer(w, u, o)
      /\ \A h \in GameIds : SameBoard(w, u, h)
  BY <1>2, SameRefl
<1>6. /\ Seated(u) /\ AllSame(w, u)
      /\ \A o : Left(u, o) => o = q \/ Left(w, o)
  BY <1>1, <1>2, <1>3, <1>4, <1>5, ForgetSeated
<1>7. Mild(w, u)
  BY <1>1, <1>2, <1>6 DEF Mild, Left
<1>8. /\ v \in World /\ v.players = u.players /\ v.games = u.games
      /\ \A o \in Objects \ {p} : SamePlayer(u, v, o)
      /\ \A h \in u.games : SameBoard(u, v, h) /\ p \notin Sits(u, h)
      /\ \A h \in GameIds : u.game[h].player1 = nullptr => v.game[h].player1 = nullptr
  BY <1>2, <1>4 DEF MenuReturn, SamePlayer, SameBoard, Sits
<1>9. Agrees(v, p)
  <2>1. v.player[p].game \notin v.games
    BY <1>1 DEF MenuReturn
  <2>2. PlayerAgrees(v, p)
    BY <2>1 DEF MenuReturn, PlayerAgrees, Left
  <2>3. p \notin Dropped(v)
    BY <1>1, <1>3
  <2>4. ClosedAgrees(v, p)
    <3>1. w.player[q].game # nullptr => v.game[w.player[q].game].player1 = nullptr
      <4>1. w.player[q].game # nullptr => w.game[w.player[q].game].player1 = nullptr
        BY <1>1 DEF ClosedAgrees
      <4>2. w.player[q].game \in GameIds \cup {nullptr}
        BY <1>1, Types
      <4> QED
        BY <4>1, <4>2 DEF MenuReturn
    <3> QED
      BY <3>1 DEF ClosedAgrees, MenuReturn
  <2> QED
    BY <2>2, <2>3, <2>4 DEF Agrees
<1>10. /\ Seated(v) /\ AllSame(u, v)
       /\ \A o : Left(v, o) => o = p \/ Left(u, o)
  BY <1>1, <1>3, <1>6, <1>2, <1>8, <1>9, ForgetSeated
<1>11. Good(u, v, p)
  BY <1>10 DEF Good, Moves
<1> QED
  BY <1>7, <1>11, GoodAfterMild

\* The connection p sits where q sat.
SeatReturn(w, v, p, q, g) ==
  /\ Returns(w, v, p, q)
  /\ v.player[p].state = IF Waits(w, g) THEN "IN_LOBBY" ELSE "IN_GAME"
  /\ \A h \in GameIds \ {g} : v.game[h] = w.game[h]
  /\ v.game[g].state = w.game[g].state
  /\ v.game[g].is_end_round = w.game[g].is_end_round
  /\ v.game[g].player1 = IF w.game[g].player1 = q THEN p ELSE w.game[g].player1
  /\ v.game[g].player2 = IF w.game[g].player1 = q THEN w.game[g].player2 ELSE p

LEMMA SeatReturnMild ==
  ASSUME NEW w \in World, Seated(w), OneOwner(w), Apart(w), NEW p \in w.players,
         ~w.player[p].logged_in, NEW q \in Dropped(w), NEW g \in w.games,
         w.player[q].game = g, w.player[q].state = "DISCONNECTED",
         NEW v, SeatReturn(w, v, p, q, g)
  PROVE  Mild(w, v) /\ OneOwner(v) /\ Apart(v)
<1> DEFINE P == {p, q}  G == {g}
<1>1. /\ p \in Objects /\ q \in Objects /\ p \notin Dropped(w) /\ q \notin w.players
      /\ nullptr \notin w.games /\ g \in GameIds /\ nullptr \notin Objects /\ p # q
      /\ w.games \subseteq GameIds /\ w.players \subseteq Objects
      /\ PlayerAgrees(w, p) /\ DroppedAgrees(w, q)
      /\ GameAgrees(w, g) /\ RoundAgrees(w, g)
  BY Types DEF Apart, Seated, Known
<1>2. /\ q \in Sits(w, g)
      /\ \A h \in w.games : p \notin Sits(w, h)
      /\ \A h \in w.games : h # g => q \notin Sits(w, h)
  BY <1>1, SitsBelongs, MenuHasNoSeat DEF PlayerAgrees, DroppedAgrees
<1>3. /\ v \in World /\ v.players = w.players /\ v.games = w.games
      /\ Dropped(v) = Dropped(w) \ {q}
      /\ \A o \in Objects \ {p} : v.player[o] = w.player[o]
      /\ v.player[p].socket = w.player[p].socket
      /\ v.player[p].game = g
      /\ v.player[p].score = w.player[q].score
      /\ v.player[p].can_play = w.player[q].can_play
      /\ v.player[p].logged_in
      /\ v.player[p].state = IF Waits(w, g) THEN "IN_LOBBY" ELSE "IN_GAME"
      /\ v.game[g].state = w.game[g].state
      /\ v.game[g].is_end_round = w.game[g].is_end_round
      /\ \A h \in GameIds \ {g} : v.game[h] = w.game[h]
  BY DEF SeatReturn, Returns
<1>4. \/ /\ w.game[g].player1 = q /\ v.game[g].player1 = p
         /\ v.game[g].player2 = w.game[g].player2
      \/ /\ w.game[g].player1 # q /\ w.game[g].player2 = q
         /\ v.game[g].player1 = w.game[g].player1 /\ v.game[g].player2 = p
  BY <1>2 DEF SeatReturn, Sits
<1>5. /\ Sits(v, g) = (Sits(w, g) \ {q}) \cup {p}
      /\ Waits(v, g) <=> Waits(w, g)
      /\ Filled(v, g) <=> Filled(w, g)
      /\ Filled(w, g) => w.game[g].player1 # w.game[g].player2
      /\ Waits(w, g) => w.game[g].player2 = nullptr /\ w.game[g].player1 = q
  <2>1. Filled(w, g) => w.game[g].player1 # w.game[g].player2
    BY <1>1 DEF GameAgrees
  <2>2. (Waits(v, g) <=> Waits(w, g)) /\ (Filled(v, g) <=> Filled(w, g))
    BY <1>1, <1>3, <1>4 DEF Waits, Filled
  <2>3. Waits(w, g) => w.game[g].player2 = nullptr /\ w.game[g].player1 = q
    BY <1>1, <1>2 DEF GameAgrees, Sits
  <2>4. Sits(v, g) = (Sits(w, g) \ {q}) \cup {p}
    BY <1>1, <1>4, <2>1 DEF Sits, Filled
  <2> QED
    BY <2>1, <2>2, <2>3, <2>4
<1>6. GameAgrees(v, g)
  <2>1. \A o \in Sits(v, g) : o \in Known(v) /\ v.player[o].game = g
    <3> TAKE o \in Sits(v, g)
    <3>1. CASE o = p
      BY <1>3, <3>1 DEF Known
    <3>2. CASE o # p
      <4>1. o \in Sits(w, g) /\ o # q
        BY <1>5, <3>2
      <4>2. o \in Objects /\ o \in Known(w) /\ w.player[o].game = g
        BY <4>1, SitsBelongs
      <4> QED
        BY <1>3, <3>2, <4>1, <4>2 DEF Known
    <3> QED
      BY <3>1, <3>2
  <2>2. Filled(v, g) => v.game[g].player1 # v.game[g].player2
    BY <1>2, <1>4, <1>5 DEF Sits, Filled
  <2>3. Waits(v, g) => /\ v.game[g].player2 = nullptr
                       /\ \A o \in Sits(v, g) : v.player[o].score = 0
    <3> SUFFICES ASSUME Waits(v, g)
                 PROVE  /\ v.game[g].player2 = nullptr
                        /\ \A o \in Sits(v, g) : v.player[o].score = 0
      OBVIOUS
    <3>1. /\ w.game[g].player2 = nullptr /\ w.game[g].player1 = q
          /\ w.player[q].score = 0
      BY <1>1, <1>2, <1>5 DEF GameAgrees
    <3>2. v.game[g].player2 = nullptr /\ v.game[g].player1 = p
      BY <1>4, <3>1
    <3> QED
      BY <1>3, <3>1, <3>2 DEF Sits
  <2> QED
    BY <2>1, <2>2, <2>3 DEF GameAgrees
<1>7. RoundAgrees(v, g)
  <2> SUFFICES ASSUME Filled(v, g)
               PROVE  RoundAgrees(v, g)
    BY DEF RoundAgrees
  <2> DEFINE f(o) == IF o = p THEN q ELSE o
  <2>1. \A o \in Sits(v, g) : f(o) \in Sits(w, g)
    BY <1>2, <1>5
  <2>2. \A o \in Sits(w, g) : \E x \in Sits(v, g) : f(x) = o
    <3> TAKE o \in Sits(w, g)
    <3>1. CASE o = q
      BY <1>5, <3>1
    <3>2. CASE o # q
      BY <1>1, <1>2, <1>5, <3>2
    <3> QED
      BY <3>1, <3>2
  <2>3. \A o \in Sits(v, g) : /\ v.player[o].can_play = w.player[f(o)].can_play
                              /\ v.player[o].score = w.player[f(o)].score
    <3> TAKE o \in Sits(v, g)
    <3>1. CASE o = p
      <4>1. f(o) = q
        BY <3>1
      <4> QED
        BY <1>3, <3>1, <4>1
    <3>2. CASE o # p
      <4>1. f(o) = o /\ o \in Sits(w, g)
        BY <1>5, <3>2
      <4>2. v.player[o] = w.player[o]
        BY <1>3, <3>2, <4>1, SitsBelongs
      <4> QED
        BY <4>1, <4>2
    <3> QED
      BY <3>1, <3>2
  <2> HIDE DEF f
  <2>4. (\E o \in Sits(v, g) : v.player[o].can_play) <=> \E o \in Sits(w, g) : w.player[o].can_play
    BY <2>1, <2>2, <2>3
  <2>5. /\ (\A o \in Sits(w, g) : w.player[o].score < BEST_OF)
              => \A o \in Sits(v, g) : v.player[o].score < BEST_OF
        /\ (\E o \in Sits(w, g) : w.player[o].score = BEST_OF)
              => \E o \in Sits(v, g) : v.player[o].score = BEST_OF
    BY <2>1, <2>2, <2>3
  <2> QED
    BY <1>1, <1>3, <1>5, <2>4, <2>5 DEF RoundAgrees
<1>8. SameGame(w, v, g)
  <2>1. \A o \in Objects : o # p => /\ v.player[o].can_play = w.player[o].can_play
                                    /\ v.player[o].score = w.player[o].score
    BY <1>3
  <2>2. \A o : o = w.game[g].player1 \/ o = w.game[g].player2 =>
          o # p /\ (o # nullptr => o \in Objects)
    BY <1>1, <1>2, Types DEF Sits
  <2>3. SameSeat(w, v, g, 1) /\ SameSeat(w, v, g, 2)
    BY <1>1, <1>3, <1>4, <2>1, <2>2, SMTT(30) DEF SameSeat, Holder
  <2> QED
    BY <1>3, <2>3 DEF SameGame
<1>9. Agrees(v, p) /\ ~Left(v, p)
  <2>1. ~Left(v, p)
    BY <1>3 DEF Left
  <2>2. Waits(w, g) => v.game[g].player1 = p
    BY <1>4, <1>5
  <2>3. PlayerAgrees(v, p)
    BY <1>3, <1>5, <2>1, <2>2 DEF PlayerAgrees
  <2>4. p \notin Dropped(v) /\ ClosedAgrees(v, p)
    BY <1>1, <1>3 DEF ClosedAgrees
  <2> QED
    BY <2>1, <2>3, <2>4 DEF Agrees
<1>10. ASSUME NEW o \in Known(v), o # p, w.player[o].game = g
       PROVE  Agrees(v, o) /\ ~Left(v, o)
  <2>1. /\ o # q /\ o \in Objects /\ o \in Known(w) /\ v.player[o] = w.player[o]
        /\ o \in v.players => o \in w.players
        /\ o \in Dropped(v) => o \in Dropped(w)
    <3>1. o # q /\ o \in Known(w) /\ o \in Objects
      BY <1>1, <1>3, <1>10, Types DEF Known
    <3> QED
      BY <1>3, <1>10, <3>1
  <2>2. /\ o \in w.players => PlayerAgrees(w, o)
        /\ o \in Dropped(w) => DroppedAgrees(w, o)
    BY <2>1 DEF Seated
  <2>3. o \in v.players => PlayerAgrees(v, o) /\ ~Left(v, o)
    <3> SUFFICES ASSUME o \in v.players
                 PROVE  PlayerAgrees(v, o) /\ ~Left(v, o)
      OBVIOUS
    <3>1. PlayerAgrees(w, o) /\ v.player[o].game = g
      BY <1>10, <2>1, <2>2
    <3>2. ~Left(w, o)
      BY <1>1, <1>4, <1>5, <1>10, <3>1 DEF PlayerAgrees
    <3>3. ~Left(v, o)
      BY <1>3, <2>1, <3>2 DEF Left
    <3>4. v.player[o].state # "IN_LOBBY"
      BY <1>5, <1>10, <2>1, <3>1 DEF PlayerAgrees
    <3>5. v.player[o].state = "IN_GAME" => ~Waits(v, g) /\ o \in Sits(v, g)
      BY <1>5, <1>10, <2>1, <3>1 DEF PlayerAgrees
    <3>6. ~v.player[o].logged_in => v.player[o].state = "IN_MAIN_MENU" /\ g = nullptr
      BY <1>10, <2>1, <3>1 DEF PlayerAgrees
    <3> QED
      BY <1>3, <3>1, <3>3, <3>4, <3>5, <3>6 DEF PlayerAgrees
  <2>4. o \in Dropped(v) => DroppedAgrees(v, o)
    <3> SUFFICES ASSUME o \in Dropped(v)
                 PROVE  DroppedAgrees(v, o)
      OBVIOUS
    <3>1. DroppedAgrees(w, o) /\ v.player[o].game = g
      BY <1>10, <2>1, <2>2
    <3>2. o \in Sits(v, g)
      BY <1>5, <1>10, <2>1, <3>1 DEF DroppedAgrees
    <3>3. v.player[o].state # "DISCONNECTED" =>
            ~Waits(v, g) /\ v.game[g].player1 = o /\ v.player[o].can_play
      BY <1>4, <1>5, <1>10, <2>1, <3>1 DEF DroppedAgrees
    <3> QED
      BY <1>3, <3>1, <3>2, <3>3 DEF DroppedAgrees
  <2>5. ClosedAgrees(v, o) /\ (o \notin v.players => ~Left(v, o))
    BY <1>3, <1>10, <2>1 DEF ClosedAgrees, Left
  <2> QED
    BY <2>3, <2>4, <2>5 DEF Agrees
<1>11. q \notin Known(v)
  BY <1>1, <1>3 DEF Known
<1>12. /\ \A o : o \in P <=> o = p \/ o = q
       /\ \A h : h \in G <=> h = g
  OBVIOUS
<1>12a. \A o \in Objects \ P : SamePlayer(w, v, o)
  <2>1. \A o \in Objects \ {p} : SamePlayer(w, v, o)
    <3> TAKE o \in Objects \ {p}
    <3>1. v.player[o] = w.player[o]
      BY <1>3
    <3> QED
      BY <3>1, SameRefl
  <2> QED
    BY <2>1
<1> HIDE DEF P, G
<1>13. Framed(w, v, P, G, p)
  <2>1. \A o \in Objects \ P : SamePlayer(w, v, o)
    BY <1>12a
  <2>2. \A h \in GameIds \ G : SameBoard(w, v, h) /\ (h \in v.games <=> h \in w.games)
    <3>1. \A h \in GameIds \ G : v.game[h] = w.game[h]
      BY <1>3, <1>12
    <3> QED
      BY <1>3, <3>1, SameRefl
  <2>3. v.players \ P = w.players \ P /\ Dropped(v) \ P = Dropped(w) \ P
    BY <1>3, <1>12
  <2>4. \A h \in w.games \ G : \A o \in Sits(w, h) : o \notin P
    BY <1>2, <1>12
  <2>5. \A h \in v.games \cap G : GameAgrees(v, h) /\ RoundAgrees(v, h)
    BY <1>6, <1>7, <1>12
  <2>6. \A o \in Known(v) : o \in P \/ w.player[o].game \in G =>
          /\ Agrees(v, o)
          /\ Left(v, o) => o = p \/ Left(w, o)
    BY <1>9, <1>10, <1>11, <1>12
  <2> QED
    BY <2>1, <2>2, <2>3, <2>4, <2>5, <2>6 DEF Framed
<1>14. /\ Seated(v)
       /\ \A o : Left(v, o) => o = p \/ Left(w, o)
       /\ \A h \in GameIds \ G : SameGame(w, v, h)
  BY <1>3, <1>13, FrameSeated
<1>15. Mild(w, v)
  BY <1>3, <1>8, <1>9, <1>12, <1>14 DEF Mild, AllSame
<1>16. \A o \in w.players : /\ v.player[o].socket = w.player[o].socket
                            /\ v.player[o].state = "DISCONNECTED" => w.player[o].state = "DISCONNECTED"
  <2> TAKE o \in w.players
  <2>1. CASE o = p
    BY <1>3, <2>1
  <2>2. CASE o # p
    <3>1. v.player[o] = w.player[o]
      BY <1>1, <1>3, <2>2
    <3> QED
      BY <3>1
  <2> QED
    BY <2>1, <2>2
<1> QED
  BY <1>3, <1>15, <1>16 DEF OneOwner, Apart

\* p is back in the menu, and game g has no first player.
GivesUp(w, v, p, g) ==
  /\ v \in World /\ SameVectors(w, v)
  /\ \A o \in Objects \ {p} : SamePlayer(w, v, o)
  /\ v.player[p].state = "IN_MAIN_MENU"
  /\ v.player[p].game = nullptr \/ v.player[p].game = g
  /\ v.player[p].logged_in = w.player[p].logged_in
  /\ \A h \in GameIds \ {g} : SameBoard(w, v, h)
  /\ v.game[g].player1 = nullptr

\* The game the session belonged to is gone: the seat taken in it is left at
\* once.
LEMMA ClosedReturn ==
  ASSUME NEW w \in World, NEW p \in Objects, NEW q \in Objects, NEW g \in GameIds,
         g \notin w.games, w.game[g].player1 = nullptr, w.player[q].game = g,
         NEW v \in World, Returns(w, v, p, q), v.game = w.game
  PROVE  MenuReturn(w, leave_game(take_over_seat(v, g, p, q), p), p, q)
<1> DEFINE u == take_over_seat(v, g, p, q)
           f == forgive(u, p)
           z == leave_game(u, p)
<1>1. nullptr \notin Objects /\ nullptr \notin GameIds /\ w.games \subseteq GameIds
  BY Types
<1>2. /\ u \in World /\ SameVectors(v, u)
      /\ \A o \in Objects \ {p} : u.player[o] = v.player[o]
      /\ u.player[p].game = v.player[p].game
      /\ u.player[p].logged_in = v.player[p].logged_in
      /\ u.player[p].state = IF Waits(v, g) THEN "IN_LOBBY" ELSE "IN_GAME"
      /\ \A h \in GameIds \ {g} : u.game[h] = v.game[h]
      /\ u.game[g].state = v.game[g].state
      /\ u.game[g].player1 = IF v.game[g].player1 = q THEN p ELSE v.game[g].player1
      /\ u.game[g].player2 = IF v.game[g].player1 = q THEN v.game[g].player2 ELSE p
  BY TakeOverSeatFields
<1> HIDE DEF u
<1>3. /\ f \in World /\ Alike(u, f) /\ SameVectors(u, f) /\ f.game = u.game
      /\ \A o \in Objects \ {p} : f.player[o] = u.player[o]
  BY <1>2, ForgiveFields
<1> HIDE DEF f
<1>4. /\ v.players = w.players /\ v.games = w.games
      /\ Dropped(v) = Dropped(w) \ {q}
      /\ \A o \in Objects \ {p} : v.player[o] = w.player[o]
      /\ v.player[p].game = g /\ v.player[p].logged_in
  BY DEF Returns
<1>5. /\ f.players = w.players /\ f.games = w.games
      /\ Dropped(f) = Dropped(w) \ {q}
      /\ \A o \in Objects \ {p} : f.player[o] = w.player[o]
      /\ f.player[p].game = g /\ f.player[p].logged_in
      /\ f.game[g].player1 = nullptr /\ f.game[g].player2 = p
      /\ \A h \in GameIds \ {g} : f.game[h] = w.game[h]
      /\ f.game[g].state = u.game[g].state
  <2>1. v.game[g].player1 # q /\ v.game[g].player1 = nullptr
    BY <1>1
  <2>2. f.player[p].game = u.player[p].game /\ f.player[p].logged_in = u.player[p].logged_in
    BY <1>3 DEF Alike, SamePlayer
  <2>3. f.players = w.players /\ f.games = w.games /\ Dropped(f) = Dropped(w) \ {q}
    BY <1>2, <1>3, <1>4 DEF SameVectors, Dropped
  <2>4. \A o \in Objects \ {p} : f.player[o] = w.player[o]
    BY <1>2, <1>3, <1>4
  <2>5. \A h \in GameIds \ {g} : f.game[h] = w.game[h]
    BY <1>2, <1>3
  <2> QED
    BY <1>2, <1>3, <1>4, <2>1, <2>2, <2>3, <2>4, <2>5
<1>6a. ASSUME NEW y, LeavesSeat(f, y, p, g)
       PROVE  GivesUp(f, y, p, g)
  BY <1>1, <1>5, <1>6a DEF LeavesSeat, GivesUp
<1>6b. GivesUp(f, leave_lobby(f, p, g), p, g)
  <2> DEFINE y == leave_lobby(f, p, g)
  <2>1. /\ y \in World /\ SameVectors(f, y)
        /\ \A o \in Objects \ {p} : SamePlayer(f, y, o)
        /\ y.player[p].state = "IN_MAIN_MENU" /\ y.player[p].game = f.player[p].game
        /\ y.player[p].logged_in = f.player[p].logged_in
        /\ \A h \in GameIds \ {g} : SameBoard(f, y, h)
        /\ y.game[g].player1 = nullptr
    BY <1>3, LeaveLobbyFields
  <2> HIDE DEF y
  <2>2. GivesUp(f, y, p, g)
    BY <1>5, <2>1 DEF GivesUp
  <2> QED
    BY <2>2 DEF y
<1>6. ASSUME NEW y, GivesUp(f, y, p, g)
      PROVE  MenuReturn(w, y, p, q)
  <2>1. /\ y \in World /\ SameVectors(f, y)
        /\ \A o \in Objects \ {p} : SamePlayer(f, y, o)
        /\ y.player[p].state = "IN_MAIN_MENU"
        /\ y.player[p].game = nullptr \/ y.player[p].game = g
        /\ y.player[p].logged_in = f.player[p].logged_in
        /\ \A h \in GameIds \ {g} : SameBoard(f, y, h)
        /\ y.game[g].player1 = nullptr
    BY <1>6 DEF GivesUp
  <2>2. \A o \in Objects \ {p} : SamePlayer(w, y, o)
    <3> TAKE o \in Objects \ {p}
    <3>1. f.player[o] = w.player[o] /\ SamePlayer(f, y, o)
      BY <1>5, <2>1
    <3> QED
      BY <3>1 DEF SamePlayer
  <2>3. \A h \in GameIds \ {g} : SameBoard(w, y, h)
    BY <1>5, <2>1 DEF SameBoard
  <2>4. \A h \in w.games : SameBoard(w, y, h)
    BY <1>1, <2>3
  <2>5. \A h \in GameIds : w.game[h].player1 = nullptr => y.game[h].player1 = nullptr
    BY <2>1, <2>3 DEF SameBoard
  <2>6. y.players = w.players /\ y.games = w.games /\ Dropped(y) = Dropped(w) \ {q}
    BY <1>5, <2>1 DEF SameVectors, Dropped
  <2> QED
    BY <1>5, <2>1, <2>2, <2>4, <2>5, <2>6 DEF MenuReturn
<1>7. z = IF u.game[g].state = "WAITING_FOR_PLAYERS" THEN leave_lobby(f, p, g)
                                                     ELSE leave_match(f, p, g)
  BY <1>1, <1>2, <1>4 DEF leave_game, f
<1> HIDE DEF z
<1>8. leave_match(f, p, g) = LeavingPlayer(f, p, g)
  <2>1. get_opponent(f, g, p) = nullptr
    BY <1>1, <1>5 DEF get_opponent
  <2> QED
    BY <2>1 DEF leave_match, LeavingPlayer, Present
<1>9. LeavesSeat(f, LeavingPlayer(f, p, g), p, g)
  BY <1>3, LeavingPlayerFields
<1>10. z = leave_lobby(f, p, g) \/ LeavesSeat(f, z, p, g)
  BY <1>7, <1>8, <1>9
<1>11. MenuReturn(w, z, p, q)
  BY <1>6, <1>6a, <1>6b, <1>10
<1> QED
  BY <1>11 DEF z, u

LEMMA RestoreGood ==
  ASSUME NEW w, Sound(w), Seated(w), NEW p \in w.players, ~w.player[p].logged_in,
         NEW k \in DOMAIN w.disconnected_players,
         w.player[w.disconnected_players[k]].state = "DISCONNECTED"
  PROVE  Good(w, restore_session(w, p, k), p)
<1> DEFINE q == w.disconnected_players[k]
           g == w.player[q].game
           v == [copy_session(w, p, q) EXCEPT !.disconnected_players = WithoutEntry(@, k)]
           u == take_over_seat(v, g, p, q)
           o == get_opponent(u, g, p)
           z == restore_session(w, p, k)
<1>1. /\ z = IF g = nullptr THEN [v EXCEPT !.player[p].state = "IN_MAIN_MENU"]
             ELSE IF o = nullptr THEN leave_game(u, p)
             ELSE game_status(Notify(u, "OPPONENT_RECONNECTED", o), p)
      /\ w.player[q].state = "DISCONNECTED"
  BY DEF restore_session
<1>2. /\ Returns(w, v, p, q) /\ v.game = w.game
      /\ v.player[p].state = w.player[p].state
  BY CopySessionFields
<1>3. /\ w \in World /\ OneOwner(w) /\ Apart(w) /\ w.players \subseteq Objects
      /\ p \in Objects /\ v \in World
      /\ nullptr \notin Objects /\ nullptr \notin GameIds /\ w.games \subseteq GameIds
      /\ PlayerAgrees(w, p)
  BY <1>2, Types DEF Sound, Returns, Seated
<1>4. q \in Dropped(w) /\ q \in Objects
  BY <1>3, Types DEF Dropped
<1>5. g \in GameIds \cup {nullptr} /\ w.player[p].state = "IN_MAIN_MENU"
  BY <1>3, <1>4, Types DEF PlayerAgrees
<1> SUFFICES Good(w, z, p)
  OBVIOUS
<1> HIDE DEF z, v, q
<1>6. CASE g = nullptr
  <2> DEFINE r0 == v.player[p]
             r == [r0 EXCEPT !.state = "IN_MAIN_MENU"]
  <2>1. r0 \in Player /\ r0.state = "IN_MAIN_MENU" /\ v.player \in [Objects -> Player]
    BY <1>2, <1>3, <1>5, WorldFields
  <2>2. z = [v EXCEPT !.player[p] = r]
    BY <1>1, <1>6
  <2> HIDE DEF r0
  <2>3. /\ r \in Player /\ r.socket = r0.socket /\ r.game = r0.game
        /\ r.score = r0.score /\ r.state = r0.state
        /\ r.can_play = r0.can_play /\ r.logged_in = r0.logged_in
    BY <2>1 DEF Player
  <2> HIDE DEF r
  <2>4. Alike(v, z)
    BY <1>3, <2>2, <2>3, AlikeSelf, PlayerAlike DEF r0
  <2>5. /\ v.players = w.players /\ v.games = w.games
        /\ Dropped(v) = Dropped(w) \ {q}
        /\ \A x \in Objects \ {p} : v.player[x] = w.player[x]
        /\ v.player[p].logged_in /\ v.player[p].game = g
    BY <1>2 DEF Returns
  <2>6. MenuReturn(w, z, p, q)
    <3>1. z \in World /\ z.players = w.players /\ z.games = w.games /\ Dropped(z) = Dropped(w) \ {q}
      <4>1. /\ z.players = v.players /\ z.games = v.games /\ z \in World
            /\ z.disconnected_players = v.disconnected_players
        BY <2>4 DEF Alike
      <4>2. Dropped(z) = Dropped(v)
        BY <4>1 DEF Dropped
      <4> QED
        BY <2>5, <4>1, <4>2
    <3>2. \A x \in Objects \ {p} : SamePlayer(w, z, x)
      <4> TAKE x \in Objects \ {p}
      <4>1. v.player[x] = w.player[x] /\ SamePlayer(v, z, x)
        BY <2>4, <2>5 DEF Alike
      <4> QED
        BY <4>1 DEF SamePlayer
    <3>3. \A h \in GameIds : SameBoard(w, z, h)
      BY <1>2, <2>4 DEF Alike, SameBoard
    <3>4. z.player[p].state = "IN_MAIN_MENU" /\ z.player[p].logged_in /\ z.player[p].game = g
      BY <1>2, <1>3, <1>5, <2>4, <2>5 DEF Alike, SamePlayer
    <3>5. \A h \in GameIds : w.game[h].player1 = nullptr => z.game[h].player1 = nullptr
      BY <3>3 DEF SameBoard
    <3> QED
      BY <1>3, <3>1, <3>2, <3>3, <3>4, <3>5 DEF MenuReturn
  <2> QED
    BY <1>3, <1>4, <1>6, <2>6, MenuReturnGood
<1>7. CASE g # nullptr /\ g \notin w.games
  <2>1. g \in GameIds /\ w.game[g].player1 = nullptr
    BY <1>4, <1>5, <1>7 DEF Seated, ClosedAgrees, Known
  <2>2. MenuReturn(w, leave_game(u, p), p, q)
    BY <1>2, <1>3, <1>4, <1>7, <2>1, ClosedReturn
  <2>3. o = nullptr
    <3>1. /\ u.game[g].player1 = IF v.game[g].player1 = q THEN p ELSE v.game[g].player1
          /\ u.game[g].player2 = IF v.game[g].player1 = q THEN v.game[g].player2 ELSE p
      BY <1>3, <2>1, TakeOverSeatFields
    <3>2. u.game[g].player1 = nullptr /\ u.game[g].player2 = p
      BY <1>2, <1>3, <1>4, <2>1, <3>1
    <3> QED
      BY <1>3, <3>2 DEF get_opponent
  <2>4. z = leave_game(u, p)
    BY <1>1, <1>7, <2>3
  <2> QED
    BY <1>3, <1>4, <1>7, <2>2, <2>4, MenuReturnGood
<1>8. CASE g \in w.games
  <2>0. g \in GameIds /\ g # nullptr
    BY <1>3, <1>8
  <2>1. /\ u \in World /\ SameVectors(v, u)
        /\ \A x \in Objects \ {p} : u.player[x] = v.player[x]
        /\ u.player[p].socket = v.player[p].socket
        /\ u.player[p].game = v.player[p].game
        /\ u.player[p].score = v.player[p].score
        /\ u.player[p].can_play = v.player[p].can_play
        /\ u.player[p].logged_in = v.player[p].logged_in
        /\ u.player[p].state = IF Waits(v, g) THEN "IN_LOBBY" ELSE "IN_GAME"
        /\ \A h \in GameIds \ {g} : u.game[h] = v.game[h]
        /\ u.game[g].state = v.game[g].state
        /\ u.game[g].is_end_round = v.game[g].is_end_round
        /\ u.game[g].player1 = IF v.game[g].player1 = q THEN p ELSE v.game[g].player1
        /\ u.game[g].player2 = IF v.game[g].player1 = q THEN v.game[g].player2 ELSE p
    BY <1>3, <2>0, TakeOverSeatFields
  <2> HIDE DEF u
  <2>2. SeatReturn(w, u, p, q, g)
    <3>1. /\ v.players = w.players /\ v.games = w.games
          /\ Dropped(v) = Dropped(w) \ {q}
          /\ \A x \in Objects \ {p} : v.player[x] = w.player[x]
          /\ v.player[p].socket = w.player[p].socket
          /\ v.player[p].game = w.player[q].game
          /\ v.player[p].score = w.player[q].score
          /\ v.player[p].can_play = w.player[q].can_play
          /\ v.player[p].logged_in
      BY <1>2 DEF Returns
    <3>2. u.players = w.players /\ u.games = w.games /\ Dropped(u) = Dropped(w) \ {q}
      BY <2>1, <3>1 DEF SameVectors, Dropped
    <3>3. \A x \in Objects \ {p} : u.player[x] = w.player[x]
      BY <2>1, <3>1
    <3>4. Returns(w, u, p, q)
      BY <2>1, <3>1, <3>2, <3>3 DEF Returns
    <3>5. Waits(v, g) <=> Waits(w, g)
      BY <1>2 DEF Waits
    <3> QED
      BY <1>2, <2>1, <3>4, <3>5 DEF SeatReturn
  <2>3. Mild(w, u) /\ OneOwner(u) /\ Apart(u) /\ u.players = w.players
    <3>1. u.players = w.players
      BY <2>2 DEF SeatReturn, Returns
    <3>2. w.player[q].game = g /\ w.player[q].state = "DISCONNECTED"
      BY <1>1
    <3> HIDE DEF g
    <3>3. Mild(w, u) /\ OneOwner(u) /\ Apart(u)
      BY <1>3, <1>4, <1>8, <2>2, <3>2, SeatReturnMild
    <3> QED
      BY <3>1, <3>3
  <2>4. Seated(u) /\ u \in World /\ p \in u.players
    BY <2>3 DEF Mild
  <2>5. CASE o = nullptr
    <3>1. z = leave_game(u, p)
      BY <1>1, <2>0, <2>5
    <3>2. Good(u, z, p)
      BY <2>3, <2>4, <3>1, LeaveGameGood
    <3> QED
      BY <2>3, <3>2, GoodAfterMild
  <2>6. CASE o # nullptr
    <3> DEFINE n == Notify(u, "OPPONENT_RECONNECTED", o)
    <3>1. o \in Objects
      BY <2>0, <2>4, <2>6, OpponentType
    <3> HIDE DEF o
    <3>2. Alike(u, n) /\ n \in World
      <4>1. Alike(u, n)
        BY <2>4, <3>1, AlikeSelf, MemoryAlike DEF Notice
      <4> QED
        BY <4>1 DEF Alike
    <3>3. Mild(u, n) /\ Apart(n) /\ p \in n.players
      BY <2>3, <2>4, <3>2, AlikeMild, AlikeOwners DEF Alike
    <3>4. z = game_status(n, p)
      BY <1>1, <2>0, <2>6
    <3> HIDE DEF n
    <3>5. Good(n, z, p)
      <4>1. Seated(n) /\ n \in World /\ p \in n.players \cup {nullptr} /\ p \notin Dropped(n)
        BY <3>2, <3>3 DEF Mild, Apart
      <4>2. Good(n, game_status(n, p), p)
        BY <4>1, GameStatusGood
      <4> QED
        BY <3>4, <4>2
    <3>6. Good(u, z, p)
      BY <3>3, <3>5, GoodAfterMild
    <3> QED
      BY <2>3, <3>6, GoodAfterMild
  <2> QED
    BY <2>5, <2>6
<1> QED
  BY <1>5, <1>6, <1>7, <1>8

LEMMA ReconnectGood ==
  ASSUME NEW w, Sound(w), Seated(w), NEW p \in w.players, ~w.player[p].logged_in, NEW name
  PROVE  Good(w, reconnect(w, p, name), p)
<1>1. w \in World /\ p \notin Dropped(w)
  BY DEF Sound, Apart
<1>2. Good(w, player_error_message_inc(w, p), p)
  BY <1>1, ErrorGood
<1> DEFINE k == CHOOSE k \in DroppedAs(w, name) : TRUE
<1>3. CASE DroppedAs(w, name) = {}
  BY <1>2, <1>3 DEF reconnect
<1>4. CASE DroppedAs(w, name) # {}
  <2>1. k \in DOMAIN w.disconnected_players
    BY <1>4 DEF DroppedAs
  <2>2. w.player[w.disconnected_players[k]].state = "DISCONNECTED" =>
          Good(w, restore_session(w, p, k), p)
    BY <2>1, RestoreGood
  <2> QED
    BY <1>2, <1>4, <2>2 DEF reconnect
<1> QED
  BY <1>3, <1>4

-----------------------------------------------------------------------------
(* The sweep: whoever is at the descriptor of a player of a game is told.  *)

Kicks(w, v, x) == \E y \in World : Alike(w, y) /\ v = disconnect_player(y, x)

\* A player who is not in a game, at the descriptor of a dropped player who is,
\* is given an error for it.
LEMMA TellCases ==
  ASSUME NEW w \in World, NEW q \in Objects \cup {nullptr}
  PROVE  LET v == tell_status(w, q)
             x == AtSocketOf(w, q)
         IN  /\ v \in World
             /\ w.crashed => v.crashed
             /\ \/ v.crashed
                \/ Alike(w, v)
                \/ /\ Present(w, q) /\ x \in w.players
                   /\ w.player[x].state # "IN_GAME" /\ Kicks(w, v, x)
<1> DEFINE v == tell_status(w, q)
           x == AtSocketOf(w, q)
<1>1. v \in World
  BY KeepsSelf, TellKeeps, KeepsType
<1>2. x \in Objects \cup {nullptr} /\ x \in w.players \cup {nullptr} /\ nullptr \notin Objects
  BY AtSocketType, Lookup, Types DEF AtSocketOf
<1>3. w.crashed => v.crashed
  BY <1>2, CrashStays DEF tell_status
<1>4. Alike(w, w) /\ Alike(w, Crash(w)) /\ Crash(w).crashed
  BY AlikeSelf, MemoryAlike
<1> SUFFICES \/ v.crashed
             \/ Alike(w, v)
             \/ /\ Present(w, q) /\ x \in w.players
                /\ w.player[x].state # "IN_GAME" /\ Kicks(w, v, x)
  BY <1>1, <1>3
<1>5. CASE ~Present(w, q)
  BY <1>4, <1>5 DEF tell_status
<1>6. CASE Present(w, q) /\ x = nullptr
  BY <1>4, <1>6 DEF tell_status, game_status
<1>7. CASE Present(w, q) /\ x # nullptr
  <2>1. x \in Objects /\ x \in w.players
    BY <1>2, <1>7
  <2>2. v = game_status(w, x)
    BY <1>7 DEF tell_status
  <2> HIDE DEF v, x
  <2>3. CASE w.player[x].state # "IN_GAME"
    <3>1. v = player_error_message_inc(w, x)
      BY <1>7, <2>2, <2>3 DEF game_status
    <3>2. \/ Alike(w, v)
          \/ \E u \in World : Alike(w, u) /\ v = disconnect_player(u, x)
      BY <2>1, <3>1, ErrorCases
    <3> QED
      BY <1>7, <2>1, <2>3, <3>2 DEF Kicks
  <2>4. CASE w.player[x].state = "IN_GAME"
    <3>1. v \in {Crash(w), w, forgive(w, x)}
      BY <1>7, <2>2, <2>4 DEF game_status
    <3>2. Alike(w, forgive(w, x))
      BY <1>4, <2>1, ForgiveAlike
    <3> QED
      BY <1>4, <3>1, <3>2
  <2> QED
    BY <2>3, <2>4
<1> QED
  BY <1>5, <1>6, <1>7

LEMMA VerdictAlike ==
  ASSUME NEW w \in World, NEW q \in Objects \cup {nullptr}
  PROVE  LET v == tell_verdict(w, q) IN
         /\ v \in World /\ Alike(w, v) /\ (w.crashed => v.crashed)
         /\ Present(w, q) /\ AtSocketOf(w, q) = nullptr => v.crashed
<1> DEFINE x == AtSocketOf(w, q)
<1>1. x \in Objects \cup {nullptr}
  BY AtSocketType
<1>2. Alike(w, w) /\ Alike(w, game_over(w, x)) /\ (x = nullptr => game_over(w, x).crashed)
  BY <1>1, AlikeSelf, GameOverAlike
<1>3. w.crashed => game_over(w, x).crashed
  BY <1>1, CrashStays
<1>4. game_over(w, x) \in World
  BY <1>2 DEF Alike
<1> QED
  BY <1>2, <1>3, <1>4 DEF tell_verdict

\* Once the player found at the descriptor of q, who is not connected, has been
\* disconnected, nobody is found there.
LEMMA StrangerKicked ==
  ASSUME NEW w \in World, OneOwner(w), NEW q \in Objects, q \notin w.players,
         AtSocketOf(w, q) \in w.players, NEW v, Kicks(w, v, AtSocketOf(w, q))
  PROVE  /\ v.player[q].state = w.player[q].state
         /\ \A o \in v.players : v.player[o].socket # v.player[q].socket
<1> DEFINE x == AtSocketOf(w, q)
<1>1. x \in w.players /\ x \in Objects /\ x # nullptr /\ w.players \subseteq Objects
  BY Types
<1>2. w.player[x].socket = w.player[q].socket
  BY <1>1, Lookup DEF AtSocketOf
<1>3. \A o \in w.players : w.player[o].socket = w.player[q].socket => o = x
  BY <1>1, <1>2 DEF OneOwner
<1> HIDE DEF x
<1>4. PICK y \in World : Alike(w, y) /\ v = disconnect_player(y, x)
  BY DEF Kicks, x
<1>5. /\ v.players = y.players \ {x}
      /\ \A o \in Objects \ {x} : v.player[o] = y.player[o]
  BY <1>1, <1>4, DisconnectKeepsStates
<1>6. /\ v.players = w.players \ {x}
      /\ \A o \in Objects \ {x} : /\ v.player[o].socket = w.player[o].socket
                                  /\ v.player[o].state = w.player[o].state
  BY <1>4, <1>5 DEF Alike, SamePlayer
<1>7. q \in Objects \ {x}
  BY <1>1
<1> QED
  BY <1>1, <1>3, <1>6, <1>7

LEMMA HeadFields ==
  ASSUME NEW w, Sound(w), w.disconnected_players # << >>
  PROVE  LET p == Head(w.disconnected_players)
             v == [w EXCEPT !.disconnected_players = Tail(@)]
         IN  /\ p \in Objects /\ p \in Dropped(w) /\ p \notin w.players
             /\ v \in World /\ v.players = w.players /\ v.games = w.games
             /\ v.player = w.player /\ v.game = w.game
             /\ Dropped(v) = Dropped(w) \ {p}
<1> DEFINE s == w.disconnected_players
           p == Head(s)
           t == Tail(s)
           v == [w EXCEPT !.disconnected_players = Tail(@)]
<1>0. w \in World /\ s \in Seq(Objects) /\ s # << >>
  BY WorldFields DEF Sound
<1>1. /\ p \in Objects /\ t \in Seq(Objects) /\ Len(t) = Len(s) - 1
      /\ \A i \in 1 .. Len(t) : t[i] = s[i + 1]
      /\ Len(s) \in Nat /\ DOMAIN s = 1 .. Len(s) /\ Len(s) # 0
      /\ DOMAIN t = 1 .. Len(s) - 1 /\ p = s[1]
  BY <1>0, HeadTailProperties, LenProperties, EmptySeq
<1>2. /\ v \in World /\ v.players = w.players /\ v.games = w.games
      /\ v.player = w.player /\ v.game = w.game /\ v.disconnected_players = t
  <2>1. [w EXCEPT !.disconnected_players = t] \in World
    BY <1>0, <1>1, SetVectors
  <2>2. v = [w EXCEPT !.disconnected_players = t]
    OBVIOUS
  <2> HIDE DEF v, t
  <2> QED
    BY <1>0, <2>1, <2>2 DEF World
<1> HIDE DEF v, t, p
<1>3. \A i, j \in DOMAIN s : s[i] = s[j] => i = j
  BY DEF Sound, OneEntry
<1>4. 1 \in DOMAIN s /\ p \in Dropped(w)
  BY <1>1 DEF Dropped
<1>5. ASSUME NEW i \in DOMAIN t
      PROVE  t[i] \in Dropped(w) \ {p}
  <2>1. i + 1 \in DOMAIN s /\ i + 1 # 1 /\ t[i] = s[i + 1]
    BY <1>1
  <2> QED
    BY <1>1, <1>3, <1>4, <2>1 DEF Dropped
<1>6. ASSUME NEW x \in Dropped(w), x # p
      PROVE  x \in Dropped(v)
  <2>1. PICK i \in DOMAIN s : s[i] = x
    BY DEF Dropped
  <2>2. i # 1 /\ i - 1 \in DOMAIN t /\ i - 1 + 1 = i
    BY <1>1, <1>6, <2>1
  <2>3. t[i - 1] = x
    BY <1>1, <2>1, <2>2
  <2> QED
    BY <1>2, <2>2, <2>3 DEF Dropped
<1>7. Dropped(v) = Dropped(w) \ {p}
  <2>1. \A x : x \in Dropped(v) => x \in Dropped(w) \ {p}
    BY <1>2, <1>5 DEF Dropped
  <2> QED
    BY <1>6, <2>1
<1>8. p \notin w.players
  BY <1>4 DEF Sound, Apart
<1> QED
  BY <1>1, <1>2, <1>4, <1>7, <1>8 DEF v, p

\* The game of the player who is out of time.
FinishedFor(w, g) ==
  [w EXCEPT !.game[g].paused = FALSE, !.game[g].game_over = FALSE,
            !.game[g].state = "FINISHED"]

LEMMA FinishedFields ==
  ASSUME NEW w \in World, NEW g \in GameIds
  PROVE  LET v == FinishedFor(w, g) IN
         /\ v \in World /\ SameVectors(w, v) /\ v.player = w.player
         /\ \A h \in GameIds \ {g} : v.game[h] = w.game[h]
         /\ v.game[g].player1 = w.game[g].player1
         /\ v.game[g].player2 = w.game[g].player2
         /\ v.game[g].is_end_round = w.game[g].is_end_round
         /\ v.game[g].state = "FINISHED"
<1> DEFINE r0 == w.game[g]
           r == [[[r0 EXCEPT !.paused = FALSE] EXCEPT !.game_over = FALSE]
                   EXCEPT !.state = "FINISHED"]
           v == FinishedFor(w, g)
<1>1. w.game \in [GameIds -> Game] /\ r0 \in Game
  BY WorldFields
<1>2. v = [w EXCEPT !.game[g] = r]
  BY <1>1 DEF World, FinishedFor
<1> HIDE DEF r0, v
<1>3. LET y == [[[r0 EXCEPT !.paused = FALSE] EXCEPT !.game_over = FALSE]
                   EXCEPT !.state = "FINISHED"]
      IN  /\ y \in Game /\ y.state = "FINISHED" /\ y.is_end_round = r0.is_end_round
          /\ y.player1 = r0.player1 /\ y.player2 = r0.player2
  BY <1>1 DEF Game, GameState
<1> HIDE DEF r
<1>4. v \in World
  BY <1>2, <1>3, SetGame DEF r
<1>5. /\ SameVectors(w, v) /\ v.player = w.player
      /\ \A h \in GameIds \ {g} : v.game[h] = w.game[h]
      /\ v.game[g] = r
  BY <1>1, <1>2 DEF World, SameVectors
<1> QED
  BY <1>3, <1>4, <1>5 DEF v, r, r0

LEMMA TimeOutGood ==
  ASSUME NEW w, Sound(w), Seated(w), w.disconnected_players # << >>
  PROVE  Good(w, time_out(w), nullptr)
<1> DEFINE p  == Head(w.disconnected_players)
           g  == w.player[p].game
           v1 == [w EXCEPT !.disconnected_players = Tail(@)]
           v2 == FinishedFor(v1, g)
           q  == get_opponent(v2, g, p)
           u1 == tell_status(v2, q)
           v3 == free_seat(u1, g, p)
           v  == IF g = nullptr THEN v1 ELSE tell_verdict(v3, q)
<1>0. w \in World /\ OneOwner(w)
  BY DEF Sound
<1>1. /\ p \in Objects /\ p \in Dropped(w) /\ p \notin w.players
      /\ v1 \in World /\ v1.players = w.players /\ v1.games = w.games
      /\ v1.player = w.player /\ v1.game = w.game
      /\ Dropped(v1) = Dropped(w) \ {p}
  BY HeadFields
<1>2. /\ g \in GameIds \cup {nullptr} /\ nullptr \notin GameIds /\ nullptr \notin Objects
      /\ w.games \subseteq GameIds /\ w.players \subseteq Objects
  BY <1>0, <1>1, Types
<1>3. v = time_out(w)
  BY DEF time_out, FinishedFor
<1> SUFFICES Good(w, v, nullptr)
  BY <1>3
<1>4. p \in Known(w) /\ DroppedAgrees(w, p) /\ ClosedAgrees(w, p)
  BY <1>1 DEF Seated, Known
<1>5. \A h \in w.games : p \in Sits(w, h) => g = h
  BY <1>0, SitsBelongs
<1>6. p \notin Dropped(v1) /\ p \notin v1.players
  BY <1>1
<1> HIDE DEF p, g, v1
<1>7. CASE g = nullptr
  <2>1. v = v1
    BY <1>7
  <2>2. \A o \in Objects \ {p} : SamePlayer(w, v1, o)
    BY <1>1, SameRefl
  <2>3. \A h \in w.games : SameBoard(w, v1, h) /\ p \notin Sits(w, h)
    BY <1>1, <1>2, <1>5, <1>7, SameRefl
  <2>4. p \notin Known(v1)
    BY <1>6 DEF Known
  <2>5. /\ Seated(v1) /\ AllSame(w, v1)
        /\ \A o : Left(v1, o) => o = p \/ Left(w, o)
    BY <1>0, <1>1, <2>2, <2>3, <2>4, ForgetSeated
  <2>6. ~Left(v1, p)
    BY <1>6 DEF Left
  <2> QED
    BY <2>1, <2>5, <2>6 DEF Good, Moves
<1>8. CASE g \in GameIds
  <2> g \in GameIds
    BY <1>8
  <2>1. /\ v2 \in World /\ SameVectors(v1, v2) /\ v2.player = v1.player
        /\ \A h \in GameIds \ {g} : v2.game[h] = v1.game[h]
        /\ v2.game[g].player1 = v1.game[g].player1
        /\ v2.game[g].player2 = v1.game[g].player2
        /\ v2.game[g].is_end_round = v1.game[g].is_end_round
        /\ v2.game[g].state = "FINISHED"
    BY <1>1, FinishedFields
  <2> HIDE DEF v2
  <2>2. q \in Objects \cup {nullptr}
    BY <2>1, OpponentType
  <2>3. /\ q = IF w.game[g].player1 = p THEN w.game[g].player2
               ELSE IF w.game[g].player2 = p THEN w.game[g].player1 ELSE nullptr
    BY <1>1, <2>1 DEF get_opponent
  <2> HIDE DEF q
  <2>4. v2.players = w.players /\ Dropped(v2) = Dropped(w) \ {p} /\ v2.games = w.games
    BY <1>1, <2>1 DEF SameVectors, Dropped
  <2>5. OneOwner(v2)
    BY <1>0, <1>1, <2>1, <2>4 DEF OneOwner
  <2>6. u1 \in World
    BY <2>1, <2>2, TellCases
  <2>7. /\ v3.player = u1.player /\ SameVectors(u1, v3) /\ v3.crashed = u1.crashed
        /\ \A h \in GameIds \ {g} : v3.game[h] = u1.game[h]
        /\ v3.game[g].state = u1.game[g].state
        /\ v3.game[g].is_end_round = u1.game[g].is_end_round
        /\ v3.game[g].player1 = IF u1.game[g].player1 = p THEN nullptr ELSE u1.game[g].player1
        /\ v3.game[g].player2 = IF u1.game[g].player1 = p THEN u1.game[g].player2 ELSE nullptr
    BY <2>6, FreeSeatFields
  <2>8. v3 \in World
    BY <1>1, <2>6, KeepsSelf, FreeSeatKeeps, KeepsType
  <2>9. \/ u1.crashed
        \/ Alike(v2, u1)
        \/ /\ Present(v2, q) /\ AtSocketOf(v2, q) \in v2.players
           /\ v2.player[AtSocketOf(v2, q)].state # "IN_GAME" /\ Kicks(v2, u1, AtSocketOf(v2, q))
    BY <2>1, <2>2, TellCases
  <2>10. v = tell_verdict(v3, q)
    BY <1>2
  <2>11. q = nullptr => v3 = free_seat(v2, g, p) /\ v = v3
    BY <2>10 DEF tell_status, tell_verdict, Present
  <2> HIDE DEF u1, v3, v
  <2>12. Alike(v3, v) /\ (v3.crashed => v.crashed)
         /\ (Present(v3, q) /\ AtSocketOf(v3, q) = nullptr => v.crashed)
    BY <2>2, <2>8, <2>10, VerdictAlike
  <2>13. CASE u1.crashed
    BY <2>7, <2>12, <2>13 DEF Good
  <2>14. CASE g \notin w.games
    <3>1. w.game[g].player1 = nullptr
      BY <1>2, <1>4, <2>14 DEF ClosedAgrees, g
    <3>2. q = nullptr /\ p # nullptr
      BY <1>1, <1>2, <2>3, <3>1
    <3>3. /\ v3.player = v2.player /\ SameVectors(v2, v3)
          /\ \A h \in GameIds \ {g} : v3.game[h] = v2.game[h]
          /\ v3.game[g].player1 = IF v2.game[g].player1 = p THEN nullptr ELSE v2.game[g].player1
      BY <2>1, <2>11, <3>2, FreeSeatFields
    <3>4. \A o \in Objects \ {p} : SamePlayer(w, v3, o)
      BY <1>1, <2>1, <3>3, SameRefl
    <3>5. \A h \in w.games : SameBoard(w, v3, h) /\ p \notin Sits(w, h)
      BY <1>1, <1>2, <1>5, <2>1, <2>14, <3>3, SameRefl
    <3>6. \A h \in GameIds : w.game[h].player1 = nullptr => v3.game[h].player1 = nullptr
      BY <1>1, <2>1, <3>1, <3>3
    <3>7. v3.games = w.games /\ v3.players = w.players /\ Dropped(v3) = Dropped(w) \ {p}
      BY <2>4, <3>3 DEF SameVectors, Dropped
    <3>8. p \notin Known(v3)
      BY <1>1, <3>7 DEF Known
    <3>9. /\ Seated(v3) /\ AllSame(w, v3)
          /\ \A o : Left(v3, o) => o = p \/ Left(w, o)
      BY <1>0, <1>1, <2>8, <3>4, <3>5, <3>6, <3>7, <3>8, ForgetSeated
    <3>10. ~Left(v3, p)
      BY <1>1, <3>7 DEF Left
    <3> QED
      BY <2>11, <3>2, <3>9, <3>10 DEF Good, Moves
  <2>15. CASE g \in w.games /\ ~u1.crashed
    <3>1. p \in Sits(w, g) /\ GameAgrees(w, g)
      BY <1>4, <2>15 DEF DroppedAgrees, Seated, g
    <3>2. PICK s \in {1, 2} : Holder(w, g, s) = p /\ q = Holder(w, g, 3 - s)
      <4>1. CASE w.game[g].player1 = p
        BY <2>3, <4>1, 3 - 1 = 2 DEF Holder
      <4>2. CASE w.game[g].player1 # p
        BY <2>3, <3>1, <4>2, 3 - 2 = 1 DEF Holder, Sits
      <4> QED
        BY <4>1, <4>2
    <3>3. q # p
      BY <1>1, <1>2, <3>1, <3>2 DEF GameAgrees, Filled, Holder
    <3>4. CASE Alike(v2, u1)
      <4>1. ASSUME NEW o \in Objects \ {p}
            PROVE  SamePlayer(w, v3, o)
        <5>1. SamePlayer(v2, u1, o)
          BY <3>4 DEF Alike
        <5>2. v3.player[o] = u1.player[o] /\ v2.player[o] = w.player[o]
          BY <1>1, <2>1, <2>7
        <5> QED
          BY <5>1, <5>2 DEF SamePlayer
      <4>2. ASSUME NEW h \in GameIds \ {g}
            PROVE  SameBoard(w, v3, h)
        <5>1. SameBoard(v2, u1, h)
          BY <3>4 DEF Alike
        <5>2. v3.game[h] = u1.game[h] /\ v2.game[h] = w.game[h]
          BY <1>1, <2>1, <2>7
        <5> QED
          BY <5>1, <5>2 DEF SameBoard
      <4>3. v3.games = w.games /\ v3.players = w.players /\ Dropped(v3) = Dropped(w) \ {p}
        <5>1. /\ v3.games = v2.games /\ v3.players = v2.players
              /\ v3.disconnected_players = v2.disconnected_players
          BY <2>7, <3>4 DEF SameVectors, Alike
        <5> QED
          BY <2>4, <5>1 DEF Dropped
      <4>4. /\ u1.game[g].player1 = w.game[g].player1 /\ u1.game[g].player2 = w.game[g].player2
            /\ u1.game[g].state = "FINISHED" /\ u1.game[g].is_end_round = w.game[g].is_end_round
        BY <1>1, <2>1, <3>4 DEF Alike, SameBoard
      <4>5. /\ v3.game[g].state = "FINISHED"
            /\ v3.game[g].is_end_round = w.game[g].is_end_round
        BY <2>7, <4>4
      <4>6. Holder(v3, g, s) = nullptr /\ Holder(v3, g, 3 - s) = Holder(w, g, 3 - s)
        <5>1. CASE s = 1
          BY <2>7, <3>2, <4>4, <5>1, 3 - 1 = 2 DEF Holder
        <5>2. CASE s = 2
          BY <2>7, <3>2, <3>3, <4>4, <5>2, 3 - 2 = 1 DEF Holder
        <5> QED
          BY <5>1, <5>2
      <4>7. Rid(v3, p, g)
        BY <1>1, <4>3 DEF Rid, Known
      <4>8. /\ Seated(v3)
            /\ \A o : Left(v3, o) => o = p \/ Left(w, o)
            /\ Vacates(w, v3, g, s) /\ OthersSame(w, v3, g)
        BY <1>0, <1>1, <2>8, <2>15, <3>2, <4>1, <4>2, <4>3, <4>5, <4>6, <4>7, VacateSeated
      <4>9. ~Left(v3, p)
        BY <1>1, <4>3 DEF Left
      <4>10. Moves(w, v3)
        BY <4>8 DEF Moves, Changes
      <4>11. Good(w, v3, nullptr)
        BY <4>8, <4>9, <4>10 DEF Good
      <4> QED
        BY <2>8, <2>12, <4>11, GoodBeforeAlike
    <3>5. CASE /\ Present(v2, q) /\ AtSocketOf(v2, q) \in v2.players
               /\ v2.player[AtSocketOf(v2, q)].state # "IN_GAME"
               /\ Kicks(v2, u1, AtSocketOf(v2, q))
      <4>1. q \in Objects
        BY <2>2, <3>5 DEF Present
      <4>2. Filled(w, g) /\ q \in Sits(w, g) /\ ~Waits(w, g)
        BY <1>1, <1>2, <3>1, <3>2, <4>1, 3 - 1 = 2, 3 - 2 = 1
           DEF Filled, Sits, Holder, GameAgrees
      <4>3. q \notin w.players
        <5> SUFFICES ASSUME q \in w.players PROVE FALSE
          OBVIOUS
        <5>1. w.player[q].state = "IN_GAME"
          BY <1>0, <2>15, <4>2, SeatedPlays
        <5>2. AtSocketOf(v2, q) = q
          BY <2>1, <2>4, <2>5, FoundAtSocket
        <5> QED
          BY <1>1, <2>1, <3>5, <5>1, <5>2
      <4>4. /\ u1.player[q].state = v2.player[q].state
            /\ \A o \in u1.players : u1.player[o].socket # u1.player[q].socket
        BY <2>1, <2>4, <2>5, <3>5, <4>1, <4>3, StrangerKicked
      <4>5. Present(v3, q)
        BY <2>7, <3>5, <4>4 DEF Present
      <4>6. \A o \in v3.players : v3.player[o].socket # v3.player[q].socket
        BY <2>7, <4>4 DEF SameVectors
      <4>7. AtSocketOf(v3, q) = nullptr
        BY <2>8, <4>6, Lookup DEF AtSocketOf
      <4> QED
        BY <2>12, <4>5, <4>7 DEF Good
    <3> QED
      BY <2>9, <2>15, <3>4, <3>5
  <2> QED
    BY <2>13, <2>14, <2>15
<1> QED
  BY <1>2, <1>7, <1>8

LEMMA KicksGood ==
  ASSUME NEW w \in World, Seated(w), NEW x \in w.players, x \notin Dropped(w),
         NEW v, Kicks(w, v, x), NEW p
  PROVE  Good(w, v, p)
<1>1. PICK y \in World : Alike(w, y) /\ v = disconnect_player(y, x)
  BY DEF Kicks
<1>2. Mild(w, y)
  BY <1>1, AlikeMild
<1>3. Seated(y) /\ x \in y.players /\ x \notin Dropped(y)
  BY <1>1, <1>2 DEF Mild, Alike, Dropped
<1>4. Good(y, v, p)
  BY <1>1, <1>3, KickGood
<1> QED
  BY <1>2, <1>4, GoodAfterMild

LEMMA KicksFields ==
  ASSUME NEW w \in World, NEW x \in Objects, NEW v, Kicks(w, v, x)
  PROVE  /\ v.players = w.players \ {x}
         /\ v.disconnected_players = w.disconnected_players
         /\ \A o \in Objects \ {x} : v.player[o].state = w.player[o].state
<1>1. PICK y \in World : Alike(w, y) /\ v = disconnect_player(y, x)
  BY DEF Kicks
<1>2. /\ v.players = y.players \ {x}
      /\ v.disconnected_players = y.disconnected_players
      /\ \A o \in Objects \ {x} : v.player[o] = y.player[o]
  BY <1>1, DisconnectFields
<1> QED
  BY <1>1, <1>2 DEF Alike, SamePlayer

\* Both players of a game that has begun are told. Only its first player may be
\* away in a state other than DISCONNECTED, so at most one stranger is kicked.
LEMMA TellBothGood ==
  ASSUME NEW w, Sound(w), Seated(w), NEW g \in w.games, ~Waits(w, g)
  PROVE  LET v == tell_both(w, g) IN
         v \in World /\ Good(w, v, nullptr) /\ (w.crashed => v.crashed)
<1> DEFINE p1 == w.game[g].player1
           p2 == w.game[g].player2
           u == tell_status(w, p1)
           v == tell_status(u, p2)
           x == AtSocketOf(w, p1)
           y == AtSocketOf(u, p2)
<1>0. w \in World /\ OneOwner(w) /\ Apart(w) /\ g \in GameIds
  BY Types DEF Sound
<1>1. /\ p1 \in Objects \cup {nullptr} /\ p2 \in Objects \cup {nullptr}
      /\ nullptr \notin Objects /\ w.players \subseteq Objects
  BY <1>0, Types
<1>2. tell_both(w, g) = v
  BY DEF tell_both
<1>3. Keeps(w, u)
  BY <1>0, <1>1, KeepsSelf, TellKeeps
<1>4. u \in World /\ OneOwner(u) /\ Apart(u)
  BY <1>3, KeepsSound DEF Sound
<1>5. /\ w.crashed => u.crashed
      /\ \/ u.crashed
         \/ Alike(w, u)
         \/ /\ Present(w, p1) /\ x \in w.players
            /\ w.player[x].state # "IN_GAME" /\ Kicks(w, u, x)
  BY <1>0, <1>1, TellCases
<1>6. /\ v \in World
      /\ u.crashed => v.crashed
      /\ \/ v.crashed
         \/ Alike(u, v)
         \/ /\ Present(u, p2) /\ y \in u.players
            /\ u.player[y].state # "IN_GAME" /\ Kicks(u, v, y)
  BY <1>1, <1>4, TellCases
<1> SUFFICES Good(w, v, nullptr)
  BY <1>2, <1>5, <1>6
<1> HIDE DEF u, v, x, y
<1>7. CASE v.crashed
  BY <1>7 DEF Good
<1>8. CASE Alike(w, u) /\ ~v.crashed
  <2>1. Mild(w, u) /\ Seated(u)
    BY <1>0, <1>8, AlikeMild DEF Mild
  <2>2. Good(u, v, nullptr)
    <3>1. CASE Alike(u, v)
      BY <1>4, <2>1, <3>1, AlikeGood
    <3>2. CASE y \in u.players /\ Kicks(u, v, y)
      BY <1>4, <2>1, <3>2, KicksGood DEF Apart
    <3> QED
      BY <1>6, <1>8, <3>1, <3>2
  <2> QED
    BY <2>1, <2>2, GoodAfterMild
<1>9. CASE /\ Present(w, p1) /\ x \in w.players /\ ~v.crashed
           /\ w.player[x].state # "IN_GAME" /\ Kicks(w, u, x)
  <2>1. Good(w, u, nullptr)
    BY <1>0, <1>9, KicksGood DEF Apart
  <2>2. /\ u.players = w.players \ {x}
        /\ \A o \in Objects \ {x} : u.player[o].state = w.player[o].state
    BY <1>0, <1>1, <1>9, KicksFields
  <2>3. p1 \in Objects /\ p1 \in Sits(w, g)
    BY <1>1, <1>9 DEF Present, Sits
  <2>4. \A o \in Sits(w, g) : o \in w.players => w.player[o].state = "IN_GAME"
    BY <1>0, SeatedPlays
  <2>5. p1 \notin w.players
    <3> SUFFICES ASSUME p1 \in w.players PROVE FALSE
      OBVIOUS
    <3>1. x = p1
      BY <1>0, FoundAtSocket DEF x
    <3> QED
      BY <1>9, <2>3, <2>4, <3>1
  <2>6. CASE Alike(u, v)
    BY <1>4, <1>6, <2>1, <2>6, GoodBeforeAlike
  <2>7. ASSUME Present(u, p2), y \in u.players, u.player[y].state # "IN_GAME"
        PROVE  FALSE
    <3>1. p2 \in Objects /\ p2 \in Sits(w, g) /\ p2 \in Known(w) /\ p2 # p1
      BY <1>1, <2>3, <2>7 DEF Present, Sits, Seated, GameAgrees, Filled
    <3>2. p2 \in w.players
      <4> SUFFICES ASSUME p2 \notin w.players PROVE FALSE
        OBVIOUS
      <4>1. p2 \in Dropped(w) /\ DroppedAgrees(w, p2) /\ w.player[p2].game = g
        BY <1>0, <3>1, SitsBelongs DEF Known, Seated
      <4>2. w.player[p2].state # "DISCONNECTED"
        BY <1>1, <1>9, <2>2, <2>7, <3>1 DEF Present
      <4> QED
        BY <3>1, <4>1, <4>2 DEF DroppedAgrees
    <3>3. w.player[p2].state = "IN_GAME"
      BY <2>4, <3>1, <3>2
    <3>4. p2 # x /\ p2 \in u.players /\ u.player[p2].state = "IN_GAME"
      BY <1>9, <2>2, <3>1, <3>2, <3>3
    <3>5. y = p2
      BY <1>4, <3>4, FoundAtSocket DEF y
    <3> QED
      BY <2>7, <3>4, <3>5
  <2> QED
    BY <1>6, <1>9, <2>6, <2>7
<1> QED
  BY <1>5, <1>6, <1>7, <1>8, <1>9

LEMMA NewRoundMild ==
  ASSUME NEW w \in World, Seated(w), NEW g \in GameIds
  PROVE  LET v == [w EXCEPT !.game[g].is_new_round = FALSE] IN
         /\ Mild(w, v) /\ SameVectors(w, v)
         /\ \A h \in GameIds : Waits(v, h) <=> Waits(w, h)
<1> DEFINE r0 == w.game[g]
           r == [r0 EXCEPT !.is_new_round = FALSE]
           v == [w EXCEPT !.game[g].is_new_round = FALSE]
<1>1. w.game \in [GameIds -> Game] /\ r0 \in Game
  BY WorldFields
<1>2. v = [w EXCEPT !.game[g] = r]
  BY <1>1 DEF World
<1> HIDE DEF r0, v
<1>3. LET y == [r0 EXCEPT !.is_new_round = FALSE]
      IN  /\ y \in Game /\ y.state = r0.state /\ y.is_end_round = r0.is_end_round
          /\ y.player1 = r0.player1 /\ y.player2 = r0.player2
  BY <1>1 DEF Game
<1> HIDE DEF r
<1>4. v \in World
  BY <1>2, <1>3, SetGame DEF r
<1>5. /\ SameVectors(w, v) /\ v.player = w.player
      /\ v.game = [w.game EXCEPT ![g] = r]
  BY <1>1, <1>2 DEF World, SameVectors
<1>6. ASSUME NEW h \in GameIds
      PROVE  /\ v.game[h].player1 = w.game[h].player1
             /\ v.game[h].player2 = w.game[h].player2
             /\ v.game[h].state = w.game[h].state
             /\ v.game[h].is_end_round = w.game[h].is_end_round
  BY <1>1, <1>3, <1>5 DEF r, r0
<1>7. Dropped(v) = Dropped(w) /\ Known(v) = Known(w)
  BY <1>5 DEF SameVectors, Dropped, Known
<1>8. /\ w.games \subseteq GameIds /\ w.players \subseteq Objects /\ Known(w) \subseteq Objects
      /\ \A o \in Objects : w.player[o].game \in GameIds \cup {nullptr}
      /\ nullptr \notin GameIds
  BY Types
<1>9. ASSUME NEW h \in GameIds
      PROVE  /\ Sits(v, h) = Sits(w, h)
             /\ Filled(v, h) <=> Filled(w, h)
             /\ Waits(v, h) <=> Waits(w, h)
             /\ SameGame(w, v, h)
  <2>1. Sits(v, h) = Sits(w, h)
    BY <1>6 DEF Sits
  <2>2. (Filled(v, h) <=> Filled(w, h)) /\ (Waits(v, h) <=> Waits(w, h))
    BY <1>6 DEF Filled, Waits
  <2>3. SameGame(w, v, h)
    BY <1>5, <1>6 DEF SameGame, SameSeat, Holder, SameVectors
  <2> QED
    BY <2>1, <2>2, <2>3
<1>10. ASSUME NEW h \in w.games
       PROVE  GameAgrees(v, h) /\ RoundAgrees(v, h)
  <2>1. GameAgrees(w, h) /\ RoundAgrees(w, h) /\ h \in GameIds
    BY <1>8 DEF Seated
  <2>2. GameAgrees(v, h)
    BY <1>5, <1>6, <1>7, <1>9, <2>1 DEF GameAgrees
  <2>3. RoundAgrees(v, h)
    BY <1>5, <1>6, <1>9, <2>1 DEF RoundAgrees
  <2> QED
    BY <2>2, <2>3
<1>11. ASSUME NEW o \in Known(w)
       PROVE  Agrees(v, o) /\ (Left(v, o) <=> Left(w, o))
  <2> DEFINE h == w.player[o].game
  <2>1. h \in GameIds \cup {nullptr} /\ v.player[o] = w.player[o] /\ v.games = w.games
        /\ v.players = w.players
    BY <1>5, <1>8 DEF SameVectors
  <2>2. Left(v, o) <=> Left(w, o)
    BY <2>1 DEF Left
  <2>3. o \in w.players => PlayerAgrees(v, o)
    <3> SUFFICES ASSUME o \in w.players PROVE PlayerAgrees(v, o)
      OBVIOUS
    <3>1. PlayerAgrees(w, o) /\ v.player[o].game = h
      BY <2>1 DEF Seated
    <3>2. CASE h = nullptr
      <4>1. h \notin w.games /\ h \notin v.games
        BY <1>8, <2>1, <3>2
      <4> QED
        BY <2>1, <3>1, <3>2, <4>1 DEF PlayerAgrees, Left
    <3>3. CASE h \in GameIds
      <4>1. /\ Sits(v, h) = Sits(w, h) /\ (Waits(v, h) <=> Waits(w, h))
            /\ v.game[h].player1 = w.game[h].player1
        BY <1>6, <1>9, <3>3
      <4> QED
        BY <2>1, <2>2, <3>1, <4>1, ZenonT(30) DEF PlayerAgrees
    <3> QED
      BY <2>1, <3>2, <3>3
  <2>4. o \in Dropped(w) => DroppedAgrees(v, o)
    BY <1>6, <1>8, <1>9, <2>1 DEF DroppedAgrees, Seated
  <2>5. ClosedAgrees(v, o)
    BY <1>6, <2>1 DEF ClosedAgrees, Seated
  <2> QED
    BY <1>7, <2>1, <2>2, <2>3, <2>4, <2>5 DEF Agrees
<1>12. Seated(v)
  BY <1>5, <1>7, <1>10, <1>11 DEF Seated, SameVectors, Known, Agrees
<1>13. \A o : Left(v, o) => Left(w, o)
  BY <1>5, <1>11 DEF Left, SameVectors, Known
<1> QED
  BY <1>4, <1>5, <1>9, <1>12, <1>13 DEF Mild, AllSame, v

\* What the sweep announces.
LEMMA AnnounceGood ==
  ASSUME NEW w, Sound(w), Seated(w), NEW g \in w.games, ~Waits(w, g)
  PROVE  /\ Good(w, tell_both([w EXCEPT !.game[g].is_new_round = FALSE], g), nullptr)
         /\ Good(w, tell_both([w EXCEPT !.game[g].send_end_of_round = FALSE], g), nullptr)
         /\ Good(w, announce_game_over(w, g), nullptr)
<1> DEFINE u == [w EXCEPT !.game[g].is_new_round = FALSE]
           v == [w EXCEPT !.game[g].send_end_of_round = FALSE]
           x == [w EXCEPT !.game[g].game_over = FALSE]
<1>0. w \in World /\ g \in GameIds /\ Keeps(w, w)
  BY Types, KeepsSelf DEF Sound
<1>1. Keeps(w, u) /\ Keeps(w, v) /\ Keeps(w, x)
  BY <1>0, GameFields
<1>2. Sound(u) /\ Sound(v) /\ Sound(x)
  BY <1>1, KeepsSound
<1>3. Mild(w, u) /\ g \in u.games /\ ~Waits(u, g)
  BY <1>0, NewRoundMild DEF SameVectors
<1>4. Alike(w, v) /\ Alike(w, x)
  BY <1>0, AlikeSelf, FieldsAlike
<1> HIDE DEF u, v, x
<1>5. Mild(w, v) /\ Mild(w, x)
  BY <1>0, <1>4, AlikeMild
<1>6. g \in v.games /\ ~Waits(v, g) /\ g \in x.games /\ ~Waits(x, g)
  BY <1>0, <1>4 DEF Alike, SameBoard, Waits
<1>7. Good(w, tell_both(u, g), nullptr)
  BY <1>2, <1>3, TellBothGood, GoodAfterMild DEF Mild
<1>8. Good(w, tell_both(v, g), nullptr)
  BY <1>2, <1>5, <1>6, TellBothGood, GoodAfterMild DEF Mild
<1>9. Good(w, announce_game_over(w, g), nullptr)
  <2> DEFINE y1 == tell_both(x, g)
             y2 == tell_verdict(y1, w.game[g].player1)
             y3 == tell_verdict(y2, w.game[g].player2)
  <2>1. y1 \in World /\ Good(w, y1, nullptr)
    BY <1>2, <1>5, <1>6, TellBothGood, GoodAfterMild DEF Mild
  <2>2. /\ w.game[g].player1 \in Objects \cup {nullptr}
        /\ w.game[g].player2 \in Objects \cup {nullptr}
    BY <1>0, Types
  <2>3. announce_game_over(w, g) = y3
    BY DEF announce_game_over, x
  <2> HIDE DEF y1
  <2>4. y2 \in World /\ Alike(y1, y2) /\ (y1.crashed => y2.crashed)
    BY <2>1, <2>2, VerdictAlike
  <2> HIDE DEF y2
  <2>5. Alike(y2, y3) /\ (y2.crashed => y3.crashed)
    BY <2>2, <2>4, VerdictAlike
  <2> HIDE DEF y3
  <2>6. Good(w, y2, nullptr)
    BY <2>1, <2>4, GoodBeforeAlike
  <2>7. Good(w, y3, nullptr)
    BY <2>4, <2>5, <2>6, GoodBeforeAlike
  <2> QED
    BY <2>3, <2>7
<1> QED
  BY <1>7, <1>8, <1>9 DEF u, v

-----------------------------------------------------------------------------
(* Memory that is given back.                                              *)

LEMMA CollectFields ==
  ASSUME NEW w \in World
  PROVE  LET v == Collect(w) IN
         /\ v \in World /\ SameVectors(w, v) /\ v.crashed = w.crashed
         /\ \A o \in Objects : v.player[o] = IF o \in Live(w) THEN w.player[o] ELSE NewPlayer(0)
         /\ \A g \in GameIds : v.game[g] = IF g \in LiveGames(w) THEN w.game[g] ELSE NewGame(nullptr)
<1> DEFINE f == [o \in Objects |-> IF o \in Live(w) THEN w.player[o] ELSE NewPlayer(0)]
           h == [g \in GameIds |-> IF g \in LiveGames(w) THEN w.game[g] ELSE NewGame(nullptr)]
           v == [w EXCEPT !.player = f, !.game = h]
<1>1. f \in [Objects -> Player]
  BY NewTypes, WorldFields, 0 \in Nat
<1>2. h \in [GameIds -> Game]
  BY NewTypes, WorldFields, 0 \in Nat
<1>3. /\ \A o \in Objects : f[o] = IF o \in Live(w) THEN w.player[o] ELSE NewPlayer(0)
      /\ \A g \in GameIds : h[g] = IF g \in LiveGames(w) THEN w.game[g] ELSE NewGame(nullptr)
  OBVIOUS
<1>4. v = Collect(w)
  BY DEF Collect
<1> HIDE DEF f, h
<1>5. v \in World
  BY <1>1, <1>2 DEF World
<1>6. /\ v.player = f /\ v.game = h /\ SameVectors(w, v) /\ v.crashed = w.crashed
  BY DEF World, SameVectors
<1> QED
  BY <1>3, <1>4, <1>5, <1>6

\* What nobody can reach any more is as good as new; nothing that is looked at
\* was there.
LEMMA CollectSeated ==
  ASSUME NEW w \in World, Seated(w)
  PROVE  LET v == Collect(w) IN
         /\ Seated(v) /\ AllSame(w, v)
         /\ \A o : Left(v, o) => Left(w, o)
         /\ \A g \in w.games : v.game[g] = w.game[g]
         /\ \A o \in Known(w) : v.player[o] = w.player[o]
<1> DEFINE v == Collect(w)
           P == Objects \ Live(w)
           G == GameIds \ LiveGames(w)
<1>1. /\ v \in World /\ SameVectors(w, v)
      /\ \A o \in Objects : v.player[o] = IF o \in Live(w) THEN w.player[o] ELSE NewPlayer(0)
      /\ \A g \in GameIds : v.game[g] = IF g \in LiveGames(w) THEN w.game[g] ELSE NewGame(nullptr)
  BY CollectFields
<1>2. /\ w.games \subseteq GameIds /\ Known(w) \subseteq Objects /\ nullptr \notin GameIds
      /\ \A o \in Objects : w.player[o].game \in GameIds \cup {nullptr}
      /\ \A g \in GameIds : Sits(w, g) \subseteq Objects
  BY Types
<1> HIDE DEF v
<1>3. /\ Known(w) \subseteq Live(w) /\ w.games \subseteq LiveGames(w)
      /\ \A o \in Known(w) : w.player[o].game \in LiveGames(w)
  BY DEF Live, LiveGames
<1>4. \A g \in LiveGames(w) \cap GameIds : Sits(w, g) \subseteq Live(w)
  BY <1>2 DEF Live, Sits
<1>5. /\ \A o : o \in P <=> o \in Objects /\ o \notin Live(w)
      /\ \A g : g \in G <=> g \in GameIds /\ g \notin LiveGames(w)
  OBVIOUS
<1> HIDE DEF P, G
<1>6. ASSUME NEW o \in Objects \ P
      PROVE  SamePlayer(w, v, o)
  BY <1>1, <1>5, SameRefl
<1>7. ASSUME NEW h \in GameIds \ G
      PROVE  SameBoard(w, v, h) /\ (h \in v.games <=> h \in w.games)
  BY <1>1, <1>5, SameRefl DEF SameVectors
<1>8. v.players = w.players /\ Dropped(v) = Dropped(w) /\ Known(v) = Known(w) /\ v.games = w.games
  BY <1>1 DEF SameVectors, Dropped, Known
<1>9. \A h \in w.games \ G : \A o \in Sits(w, h) : o \notin P
  BY <1>2, <1>3, <1>4, <1>5
<1>10. v.games \cap G = {}
  BY <1>3, <1>5, <1>8
<1>11. \A o \in Known(v) : o \notin P /\ w.player[o].game \notin G
  BY <1>3, <1>5, <1>8
<1>12. Framed(w, v, P, G, nullptr)
  BY <1>6, <1>7, <1>8, <1>9, <1>10, <1>11 DEF Framed
<1>13. /\ Seated(v)
       /\ \A o : Left(v, o) => o = nullptr \/ Left(w, o)
       /\ \A h \in GameIds \ G : SameGame(w, v, h)
  BY <1>1, <1>12, FrameSeated
<1>14. \A o : Left(v, o) => o # nullptr
  BY <1>1, Types DEF Left
<1>15. \A h \in GameIds : SameGame(w, v, h)
  BY <1>3, <1>5, <1>8, <1>13 DEF SameGame
<1>16. /\ \A g \in w.games : v.game[g] = w.game[g]
       /\ \A o \in Known(w) : v.player[o] = w.player[o]
  BY <1>1, <1>2, <1>3
<1> QED
  BY <1>13, <1>14, <1>15, <1>16 DEF AllSame, v

-----------------------------------------------------------------------------
(* Whose descriptor is whose.                                              *)

Owners(w, v) ==
  /\ v.players \subseteq w.players
  /\ \A o \in v.players : v.player[o].socket = w.player[o].socket

LEMMA KeepsOwners ==
  ASSUME NEW w \in World, NEW v, Keeps(w, v)
  PROVE  Owners(w, v)
BY Types DEF Keeps, Owners

LEMMA LoginOwners ==
  ASSUME NEW w \in World, NEW p \in Objects, NEW name \in Names
  PROVE  Owners(w, login(w, p, name))
<1> DEFINE u == forgive(w, p)
           r0 == u.player[p]
           r == [r0 EXCEPT !.name = name, !.logged_in = TRUE]
           v == [u EXCEPT !.player[p] = r]
<1>1. Keeps(w, w) /\ Keeps(w, u) /\ Keeps(w, player_error_message_inc(w, p))
  BY KeepsSelf, ForgiveKeeps, ErrorKeeps
<1>2. u \in World /\ u.player \in [Objects -> Player] /\ u.players \subseteq Objects
  BY <1>1, KeepsType, Types, WorldFields
<1>3. r0 \in Player
  BY <1>2
<1> HIDE DEF u, r0
<1>4. r.socket = r0.socket
  BY <1>3 DEF Player
<1> HIDE DEF r
<1>5. v.players = u.players /\ v.player = [u.player EXCEPT ![p] = r]
  BY <1>2 DEF World
<1> HIDE DEF v
<1>6. \A o \in Objects : v.player[o].socket = u.player[o].socket
  BY <1>2, <1>4, <1>5 DEF r0
<1>7. Owners(w, v)
  BY <1>1, <1>2, <1>5, <1>6 DEF Owners, Keeps
<1> QED
  BY <1>1, <1>7, KeepsOwners DEF login, v, r, r0, u

LEMMA ReconnectOwners ==
  ASSUME NEW w, Sound(w), NEW p \in w.players, NEW name
  PROVE  Owners(w, reconnect(w, p, name))
<1> DEFINE k == CHOOSE k \in DroppedAs(w, name) : TRUE
           q == w.disconnected_players[k]
           g == w.player[q].game
           v == [copy_session(w, p, q) EXCEPT !.disconnected_players = WithoutEntry(@, k)]
           u == take_over_seat(v, g, p, q)
           o == get_opponent(u, g, p)
           z == restore_session(w, p, k)
<1>0. w \in World /\ p \in Objects
  BY Types DEF Sound
<1>1. Owners(w, player_error_message_inc(w, p))
  BY <1>0, KeepsSelf, ErrorKeeps, KeepsOwners
<1>2. CASE DroppedAs(w, name) = {}
  BY <1>1, <1>2 DEF reconnect
<1>3. CASE DroppedAs(w, name) # {}
  <2>1. k \in DOMAIN w.disconnected_players
    BY <1>3 DEF DroppedAs
  <2> HIDE DEF k
  <2>2. Returns(w, v, p, q)
    BY <2>1, CopySessionFields
  <2>3. q \in Objects
    BY <2>1, EntryFields
  <2>4. g \in GameIds \cup {nullptr}
    BY <1>0, <2>3, Types
  <2>5. z = IF g = nullptr THEN [v EXCEPT !.player[p].state = "IN_MAIN_MENU"]
            ELSE IF o = nullptr THEN leave_game(u, p)
            ELSE game_status(Notify(u, "OPPONENT_RECONNECTED", o), p)
    BY DEF restore_session
  <2> HIDE DEF v, g, z
  <2>6. v \in World /\ Keeps(v, v) /\ v.players \subseteq Objects
    BY <2>2, KeepsSelf, Types DEF Returns
  <2>7. Keeps(v, z)
    <3>1. CASE g = nullptr
      BY <1>0, <2>5, <2>6, <3>1, PlayerFields DEF PlayerState
    <3>2. CASE g # nullptr
      <4>1. Keeps(v, u)
        BY <1>0, <2>4, <2>6, <3>2, TakeOverSeatKeeps
      <4>2. o \in Objects \cup {nullptr}
        BY <2>4, <3>2, <4>1, KeepsType, OpponentType
      <4> HIDE DEF u, o
      <4>3. Keeps(v, leave_game(u, p))
        BY <1>0, <4>1, LeaveGameKeeps
      <4>4. o # nullptr => Keeps(v, game_status(Notify(u, "OPPONENT_RECONNECTED", o), p))
        BY <1>0, <4>1, <4>2, MemoryFields, GameStatusKeeps DEF Notice
      <4> QED
        BY <2>5, <3>2, <4>3, <4>4
    <3> QED
      BY <3>1, <3>2
  <2>8. Owners(w, z)
    BY <1>0, <2>2, <2>6, <2>7 DEF Keeps, Owners, Returns
  <2> QED
    BY <1>1, <1>3, <2>8 DEF reconnect, z, k
<1> QED
  BY <1>2, <1>3

LEMMA DropOwners ==
  ASSUME NEW w, Sound(w), NEW p \in w.players
  PROVE  Owners(w, drop(w, p))
<1>1. w.players \subseteq Objects
  BY Types DEF Sound
<1> QED
  BY <1>1, DropFields DEF Owners, SamePlayer

-----------------------------------------------------------------------------
(* The steps of the loop.                                                  *)

\* Nobody is there.
LEMMA EmptySeated ==
  ASSUME NEW w, w.players = {}, w.disconnected_players = << >>, w.games = {}
  PROVE  Seated(w) /\ \A o : ~Left(w, o)
<1>1. Dropped(w) = {} /\ Known(w) = {}
  BY DEF Dropped, Known
<1> QED
  BY <1>1 DEF Seated, Left

LEMMA InitWorldEmpty ==
  /\ InitWorld.players = {} /\ InitWorld.disconnected_players = << >> /\ InitWorld.games = {}
  /\ LET w == Crash(InitWorld) IN
     w.players = {} /\ w.disconnected_players = << >> /\ w.games = {}
BY DEF InitWorld, Crash

\* v is what a step that served p or nobody makes of s.
Remains(s, v, p) ==
  /\ Seated(v)
  /\ \A o : Left(v, o) => o = p \/ Left(s, o)
  /\ Moves(s, v) \/ v.games = {}

LEMMA SettleGood ==
  ASSUME NEW s \in World, Seated(s), NEW w, Alike(s, w),
         NEW u \in World, NEW p, Good(w, u, p)
  PROVE  LET v == Settle(u) IN
         /\ Remains(s, v, p)
         /\ \A o : Left(v, o) => Left(u, o) /\ v.player[o].socket = u.player[o].socket
<1>1. CASE u.crashed
  <2>1. Settle(u) = Crash(InitWorld)
    BY <1>1 DEF Settle
  <2> QED
    BY <2>1, EmptySeated, InitWorldEmpty DEF Remains
<1>2. CASE ~u.crashed
  <2> DEFINE v == Collect(u)
  <2>1. Settle(u) = v
    BY <1>2 DEF Settle
  <2>2. Seated(u) /\ Moves(w, u) /\ \A o : Left(u, o) => o = p \/ Left(w, o)
    BY <1>2 DEF Good
  <2>3. /\ Seated(v) /\ AllSame(u, v)
        /\ \A o : Left(v, o) => Left(u, o)
        /\ \A g \in u.games : v.game[g] = u.game[g]
        /\ \A o \in Known(u) : v.player[o] = u.player[o]
    BY <2>2, CollectSeated
  <2> HIDE DEF v
  <2>4. Mild(s, w)
    BY AlikeMild
  <2>5. Moves(w, v)
    <3>1. CASE AllSame(w, u)
      BY <2>3, <3>1, SameGameTransitive DEF AllSame, Moves
    <3>2. ASSUME NEW g \in GameIds, Changes(w, u, g), OthersSame(w, u, g)
          PROVE  Moves(w, v)
      <4>1. g \in u.games
        BY <3>2 DEF Changes, Opens, Joins, Starts, Rolls, RollsLast, Vacates, Plays
      <4>2. v.game[g].is_new_round = u.game[g].is_new_round
        BY <2>3, <4>1
      <4>3. Changes(w, v, g)
        BY <2>3, <3>2, <4>2, ChangesBeforeSame DEF AllSame
      <4>4. OthersSame(w, v, g)
        BY <2>3, <3>2, SameGameTransitive DEF AllSame, OthersSame
      <4> QED
        BY <4>3, <4>4 DEF Moves
    <3> QED
      BY <2>2, <3>1, <3>2 DEF Moves
  <2>6. Good(w, v, p)
    BY <2>2, <2>3, <2>5 DEF Good
  <2>7. CASE v.crashed
    <3>1. v.crashed = u.crashed
      BY CollectFields DEF v
    <3> QED
      BY <1>2, <2>7, <3>1
  <2>8. CASE ~v.crashed
    <3>1. Good(s, v, p)
      BY <2>4, <2>6, GoodAfterMild
    <3>2. ASSUME NEW o, Left(v, o)
          PROVE  Left(u, o) /\ v.player[o].socket = u.player[o].socket
      <4>1. Left(u, o) /\ o \in Known(u)
        BY <2>3, <3>2 DEF Left, Known
      <4> QED
        BY <2>3, <4>1
    <3> QED
      BY <2>1, <2>8, <3>1, <3>2 DEF Good, Remains
  <2> QED
    BY <2>7, <2>8
<1> QED
  BY <1>1, <1>2

\* What a step of the loop does to the games.
Deletes(w, v) ==
  /\ v.games \subseteq w.games
  /\ \A g \in v.games : SameGame(w, v, g)
  /\ \A g \in w.games : g \notin v.games => Sits(w, g) = {}

Steps(w, v) == Moves(w, v) \/ v.games = {} \/ Deletes(w, v)

LEMMA SeatInvPrime ==
  /\ Seated(srv') => (Seated(srv))'
  /\ (\A o \in Objects : Left(srv', o) =>
        \/ phase' = "sweep"
        \/ phase' = "serve" /\ srv'.player[o].socket \notin read_fds') => LeftIsServed'
  /\ (phase' = "select" => \A g \in srv'.games : Sits(srv', g) # {}) => GamesAreInhabited'
<1>1. Seated(srv') => (Seated(srv))'
  BY DEF Seated, GameAgrees, RoundAgrees, PlayerAgrees, DroppedAgrees, ClosedAgrees,
         Left, Sits, Filled, Waits, Known, Dropped
<1>2. ASSUME \A o \in Objects : Left(srv', o) =>
               \/ phase' = "sweep"
               \/ phase' = "serve" /\ srv'.player[o].socket \notin read_fds'
      PROVE  LeftIsServed'
  BY <1>2 DEF LeftIsServed, Left
<1>3. ASSUME phase' = "select" => \A g \in srv'.games : Sits(srv', g) # {}
      PROVE  GamesAreInhabited'
  BY <1>3 DEF GamesAreInhabited, Sits
<1> QED
  BY <1>1, <1>2, <1>3

\* Player p, or nobody, has been served at descriptor fd.
LEMMA ServedSeat ==
  ASSUME Inv, SeatInv, phase = "serve", NEW fd, NEW u \in World, Served(fd, u),
         NEW p, p \in Objects => srv.player[p].socket = fd,
         Good(Quiet(srv), u, p),
         \A o : Left(u, o) => u.player[o].socket = srv.player[o].socket
  PROVE  SeatInv' /\ Steps(srv, srv')
<1>0. srv \in World /\ Seated(srv) /\ Alike(srv, Quiet(srv))
  BY AlikeSelf, MemoryAlike DEF Inv, Sound, SeatInv
<1>1. /\ srv' = Settle(u)
      /\ read_fds' = IF u.crashed THEN {} ELSE read_fds \ {fd}
      /\ phase' = IF ~u.crashed /\ read_fds = {fd} THEN "sweep" ELSE "serve"
  BY DEF Served
<1>2. /\ Remains(srv, srv', p)
      /\ \A o : Left(srv', o) => Left(u, o) /\ srv'.player[o].socket = u.player[o].socket
  BY <1>0, <1>1, SettleGood
<1>3. ASSUME NEW o \in Objects, Left(srv', o)
      PROVE  \/ phase' = "sweep"
             \/ phase' = "serve" /\ srv'.player[o].socket \notin read_fds'
  <2>1. srv'.player[o].socket = srv.player[o].socket /\ (o = p \/ Left(srv, o))
    BY <1>2, <1>3 DEF Remains
  <2>2. o # p => srv.player[o].socket \notin read_fds
    BY <2>1 DEF SeatInv, LeftIsServed
  <2> QED
    BY <1>1, <2>1, <2>2
<1>4. phase' # "select"
  BY <1>1
<1>5. Seated(srv') /\ Steps(srv, srv')
  BY <1>2 DEF Remains, Steps
<1> QED
  BY <1>3, <1>4, <1>5, SeatInvPrime DEF SeatInv

LEMMA ServeSeat ==
  ASSUME Inv, SeatInv, NEW p \in srv.players, NEW u \in World, Serve(p, u),
         Good(Quiet(srv), u, p), Owners(Quiet(srv), u)
  PROVE  SeatInv' /\ Steps(srv, srv')
<1>1. srv \in World /\ Quiet(srv).player = srv.player
  BY DEF Inv, Sound, Quiet, World
<1>2. \A o : Left(u, o) => u.player[o].socket = srv.player[o].socket
  BY <1>1 DEF Left, Owners
<1> QED
  BY <1>2, ServedSeat DEF Serve, Turn

\* The sweep has left u.
LEMMA SweptSeat ==
  ASSUME Inv, SeatInv, phase = "sweep", NEW u \in World, Swept(u),
         Good(Quiet(srv), u, nullptr)
  PROVE  SeatInv' /\ Steps(srv, srv')
<1>0. srv \in World /\ Seated(srv) /\ Alike(srv, Quiet(srv))
  BY AlikeSelf, MemoryAlike DEF Inv, Sound, SeatInv
<1>1. srv' = Settle(u) /\ phase' = "sweep"
  BY DEF Swept
<1>2. Remains(srv, srv', nullptr)
  BY <1>0, <1>1, SettleGood
<1>3. Seated(srv') /\ Steps(srv, srv')
  BY <1>2 DEF Remains, Steps
<1> QED
  BY <1>1, <1>3, SeatInvPrime DEF SeatInv

LEMMA QuietSrv ==
  ASSUME Inv, SeatInv
  PROVE  LET w == Quiet(srv) IN
         /\ Sound(w) /\ Seated(w) /\ w \in World /\ OneOwner(w) /\ Apart(w)
         /\ Keeps(w, w) /\ Alike(srv, w)
         /\ w.players = srv.players /\ w.player = srv.player /\ w.games = srv.games
         /\ w.game = srv.game /\ w.disconnected_players = srv.disconnected_players
         /\ w.crashed = srv.crashed
         /\ \A o : Left(w, o) <=> Left(srv, o)
         /\ LiveGames(w) = LiveGames(srv) /\ Live(w) = Live(srv)
<1> DEFINE w == Quiet(srv)
<1>1. srv \in World /\ Seated(srv) /\ Sound(srv)
  BY DEF Inv, Sound, SeatInv
<1>2. Sound(w) /\ Keeps(w, w) /\ w \in World
  BY <1>1, KeepsSelf, MemoryFields, KeepsSound, KeepsType
<1>3. Alike(srv, w)
  BY <1>1, AlikeSelf, MemoryAlike
<1>4. /\ w.players = srv.players /\ w.player = srv.player /\ w.games = srv.games
      /\ w.game = srv.game /\ w.disconnected_players = srv.disconnected_players
      /\ w.crashed = srv.crashed
  BY <1>1 DEF Quiet, World
<1> HIDE DEF w
<1>5. Seated(w) /\ \A o : Left(w, o) <=> Left(srv, o)
  BY <1>1, <1>3, AlikeSeated
<1>6. LiveGames(w) = LiveGames(srv) /\ Live(w) = Live(srv)
  BY <1>4 DEF LiveGames, Live, Known, Dropped
<1> QED
  BY <1>2, <1>3, <1>4, <1>5, <1>6 DEF Sound, w

LEMMA ClientSeat ==
  ASSUME "takeover" \notin Liberties, Inv, SeatInv, NEW p \in Objects, Client(p)
  PROVE  SeatInv' /\ Steps(srv, srv')
<1> DEFINE w == Quiet(srv)
           Goal == SeatInv' /\ Steps(srv, srv')
<1>0. /\ Sound(w) /\ Seated(w) /\ w \in World /\ OneOwner(w) /\ Apart(w) /\ Keeps(w, w)
      /\ w.players = srv.players /\ w.player = srv.player /\ w.crashed = srv.crashed
      /\ \A o : Left(w, o) <=> Left(srv, o)
      /\ LiveGames(w) = LiveGames(srv)
  BY QuietSrv
<1> HIDE DEF w
<1>a. ASSUME NEW u \in World, Serve(p, u), Good(w, u, p), Owners(w, u)
      PROVE  Goal
  BY <1>a, ServeSeat DEF Serve, w
<1>b. ASSUME NEW u, Serve(p, u), Good(w, u, p), Keeps(w, u)
      PROVE  Goal
  BY <1>0, <1>a, <1>b, KeepsOwners, KeepsType
<1>c. ASSUME NEW u, Serve(p, u)
      PROVE  /\ p \in w.players /\ ~Left(w, p) /\ ~w.crashed /\ p \notin Dropped(w)
             /\ p \in w.players \cup {nullptr}
  <2>1. p \in srv.players /\ phase = "serve" /\ ~srv.crashed /\ srv.player[p].socket \in read_fds
    BY <1>c DEF Serve, Turn, Running
  <2>2. ~Left(srv, p)
    BY <2>1 DEF SeatInv, LeftIsServed
  <2> QED
    BY <1>0, <2>1, <2>2 DEF Apart
<1>0a. CASE NotANumber(p)
  <2>1. Serve(p, Crash(w))
    BY <1>0a DEF NotANumber, w
  <2>2. Good(w, Crash(w), p)
    BY <1>0, AlikeSelf, MemoryAlike DEF Good
  <2> QED
    BY <1>0, <1>b, <2>1, <2>2, MemoryFields
<1>1. CASE Reject(p)
  BY <1>0, <1>b, <1>c, <1>1, ErrorKeeps, ErrorGood DEF Reject, w
<1>2. CASE TooLong(p)
  BY <1>0, <1>b, <1>c, <1>2, DisconnectKeeps, KickGood DEF TooLong, w
<1>3. CASE Alive(p)
  BY <1>0, <1>b, <1>c, <1>3, HelloKeeps, HelloGood DEF Alive, w
<1>4. CASE Hello(p)
  BY <1>0, <1>b, <1>c, <1>4, HelloKeeps, HelloGood DEF Hello, w
<1>5. CASE \E name \in Names : Login(p, name)
  <2>1. PICK name \in Names : Serve(p, login(w, p, name))
    BY <1>5 DEF Login, w
  <2>2. Good(w, login(w, p, name), p)
    BY <1>0, <1>c, <2>1, LoginGood
  <2>3. login(w, p, name) \in World
    BY <1>0, LoginSound DEF Sound
  <2>4. Owners(w, login(w, p, name))
    BY <1>0, LoginOwners
  <2> QED
    BY <1>a, <2>1, <2>2, <2>3, <2>4
<1>6. CASE \E name \in Names \cup {NoName} : Reconnect(p, name)
  <2>1. PICK name \in Names \cup {NoName} : Serve(p, reconnect(w, p, name)) /\ ~w.player[p].logged_in
    BY <1>0, <1>6 DEF Reconnect, w
  <2>2. Good(w, reconnect(w, p, name), p)
    BY <1>0, <1>c, <2>1, ReconnectGood
  <2>3. reconnect(w, p, name) \in World
    BY <1>0, <1>c, <2>1, ReconnectSound DEF Sound
  <2>4. Owners(w, reconnect(w, p, name))
    BY <1>0, <1>c, <2>1, ReconnectOwners
  <2> QED
    BY <1>a, <2>1, <2>2, <2>3, <2>4
<1>7. CASE OkResponse(p)
  BY <1>0, <1>b, <1>c, <1>7, HelloGood DEF OkResponse, w
<1>8. CASE Logout(p)
  BY <1>0, <1>b, <1>c, <1>8, LogoutKeeps, LogoutGood DEF Logout, w
<1>9. CASE CreateGame(p)
  <2>1. PICK g \in GameIds \ LiveGames(srv) : Serve(p, create_game(w, p, g))
    BY <1>9 DEF CreateGame, w
  <2>2. w.player[p].logged_in
    BY <1>0, <1>9 DEF CreateGame, MayCommand
  <2>3. Good(w, create_game(w, p, g), p)
    BY <1>0, <1>c, <2>1, <2>2, CreateGameGood
  <2>4. Keeps(w, create_game(w, p, g))
    BY <1>0, <2>1, CreateGameKeeps
  <2> QED
    BY <1>b, <2>1, <2>3, <2>4
<1>10. CASE \E g \in GameIds : JoinGame(p, g)
  <2>1. PICK g \in GameIds : Serve(p, join_game(w, p, g)) /\ w.player[p].logged_in
    BY <1>0, <1>10 DEF JoinGame, MayCommand, w
  <2>2. Good(w, join_game(w, p, g), p)
    BY <1>0, <1>c, <2>1, JoinGameGood
  <2>3. Keeps(w, join_game(w, p, g))
    BY <1>0, <2>1, JoinGameKeeps
  <2> QED
    BY <1>b, <2>1, <2>2, <2>3
<1>11. CASE LeaveGame(p)
  BY <1>0, <1>b, <1>c, <1>11, LeaveGameKeeps, LeaveGameGood DEF LeaveGame, w
<1>12. CASE ListGames(p)
  BY <1>0, <1>b, <1>c, <1>12, ListGamesKeeps, ListGamesGood DEF ListGames, w
<1>13. CASE GameStatus(p)
  BY <1>0, <1>b, <1>c, <1>13, GameStatusKeeps, GameStatusGood DEF GameStatus, w
<1>14. CASE \E result \in Result : Reroll(p, result)
  <2>1. PICK result \in Result : Serve(p, reroll(w, p, result))
    BY <1>14 DEF Reroll, w
  <2>2. Good(w, reroll(w, p, result), p)
    BY <1>0, <1>c, <2>1, RerollGood
  <2>3. Keeps(w, reroll(w, p, result))
    BY <1>0, RerollKeeps
  <2> QED
    BY <1>b, <2>1, <2>2, <2>3
<1>15. CASE AcceptEndOfRound(p)
  BY <1>0, <1>b, <1>c, <1>15, AcceptEndOfRoundKeeps, AcceptEndOfRoundGood DEF AcceptEndOfRound, w
<1>16. CASE Drop(p)
  <2>1. Serve(p, drop(w, p))
    BY <1>16 DEF Drop, w
  <2>2. Good(w, drop(w, p), p)
    BY <1>0, <1>c, <2>1, DropGood
  <2>3. drop(w, p) \in World /\ Owners(w, drop(w, p))
    BY <1>0, <1>c, <2>1, DropSound, DropOwners DEF Sound
  <2> QED
    BY <1>a, <2>1, <2>2, <2>3
<1> QED
  BY <1>0a, <1>1, <1>2, <1>3, <1>4, <1>5, <1>6, <1>7, <1>8, <1>9, <1>10, <1>11,
     <1>12, <1>13, <1>14, <1>15, <1>16 DEF Client, Goal

LEMMA AcceptSeat ==
  ASSUME Inv, SeatInv, Accept
  PROVE  SeatInv' /\ Steps(srv, srv')
<1> DEFINE w == Quiet(srv)
<1>0. /\ Seated(w) /\ w \in World
      /\ w.players = srv.players /\ w.player = srv.player
      /\ \A x : Left(w, x) <=> Left(srv, x)
      /\ Live(w) = Live(srv)
  BY QuietSrv
<1>1. PICK o \in Objects \ Live(srv), fd \in Sockets \ Used :
        Served(server_socket, [w EXCEPT !.player[o] = NewPlayer(fd),
                                        !.players = @ \cup {o}])
  BY DEF Accept
<1>2. phase = "serve"
  BY DEF Accept, Turn
<1> HIDE DEF w
<1> DEFINE r == NewPlayer(fd)
           v == [w EXCEPT !.player[o] = r]
           u == [v EXCEPT !.players = @ \cup {o}]
<1>3. /\ r \in Player /\ r.state = "IN_MAIN_MENU" /\ r.game = nullptr /\ ~r.logged_in
  BY BoundsAssumption, NewTypes, ObjectsAssumption DEF NewPlayer
<1> HIDE DEF r
<1>4. v \in World /\ v.players = w.players /\ w.players \subseteq Objects
  BY <1>0, <1>3, SetPlayer, Types DEF World
<1>5. u \in World
  BY <1>4, SetVectors
<1>6. /\ u.players = w.players \cup {o} /\ u.games = w.games /\ u.game = w.game
      /\ u.disconnected_players = w.disconnected_players
      /\ u.player = [w.player EXCEPT ![o] = r] /\ w.player \in [Objects -> Player]
  BY <1>0 DEF World
<1>7. Served(server_socket, u)
  BY <1>1 DEF r
<1> HIDE DEF u, v
<1>8. /\ Known(w) \subseteq Live(w) /\ o \notin Known(w) /\ o \notin w.players /\ o \notin Dropped(w)
  BY <1>0 DEF Live, Known
<1>9. /\ u.player[o] = r
      /\ \A x \in Objects \ {o} : u.player[x] = w.player[x]
  BY <1>6
<1>10. \A x \in Objects \ {o} : SamePlayer(w, u, x)
  BY <1>9, SameRefl
<1>11. \A h \in w.games : SameBoard(w, u, h) /\ o \notin Sits(w, h)
  BY <1>0, <1>6, <1>8, SameRefl, SitsBelongs
<1>12. Dropped(u) = Dropped(w)
  BY <1>6 DEF Dropped
<1>13. ~Left(u, o) /\ nullptr \notin u.games
  BY <1>3, <1>5, <1>9, Types DEF Left
<1>14. Agrees(u, o)
  <2>1. PlayerAgrees(u, o)
    BY <1>3, <1>9, <1>13 DEF PlayerAgrees
  <2>2. ClosedAgrees(u, o)
    BY <1>3, <1>9 DEF ClosedAgrees
  <2> QED
    BY <1>8, <1>12, <2>1, <2>2 DEF Agrees
<1>15. /\ Seated(u) /\ AllSame(w, u)
       /\ \A x : Left(u, x) => x = o \/ Left(w, x)
  <2>1. \A h \in GameIds : w.game[h].player1 = nullptr => u.game[h].player1 = nullptr
    BY <1>6
  <2>2. u.games = w.games /\ u.players \ {o} = w.players \ {o} /\ Dropped(u) \ {o} = Dropped(w) \ {o}
    BY <1>6, <1>12
  <2> QED
    BY <1>0, <1>5, <1>10, <1>11, <1>14, <2>1, <2>2, ForgetSeated
<1>16. Good(w, u, nullptr)
  BY <1>13, <1>15 DEF Good, Moves
<1>17. \A x : Left(u, x) => u.player[x].socket = srv.player[x].socket
  <2>1. ASSUME NEW x, Left(u, x)
        PROVE  u.player[x].socket = srv.player[x].socket
    <3>1. x # o /\ x \in Objects
      BY <1>5, <1>13, <2>1, Types DEF Left
    <3> QED
      BY <1>0, <1>9, <3>1
  <2> QED
    BY <2>1
<1>18. nullptr \notin Objects
  BY ObjectsAssumption
<1> QED
  BY <1>2, <1>5, <1>7, <1>16, <1>17, <1>18, ServedSeat DEF w

LEMMA GamesSeat ==
  ASSUME Inv, SeatInv, NEW g \in GameIds,
         AnnounceNewRound(g) \/ AnnounceEndOfRound(g) \/ AnnounceGameOver(g)
  PROVE  SeatInv' /\ Steps(srv, srv')
<1> DEFINE w == Quiet(srv)
           u1 == tell_both([w EXCEPT !.game[g].is_new_round = FALSE], g)
           u2 == tell_both([w EXCEPT !.game[g].send_end_of_round = FALSE], g)
           u3 == announce_game_over(w, g)
<1>0. /\ Sound(w) /\ Seated(w) /\ w \in World /\ Keeps(w, w)
      /\ w.games = srv.games /\ w.game = srv.game
  BY QuietSrv
<1>1. phase = "sweep"
  BY DEF AnnounceNewRound, AnnounceEndOfRound, AnnounceGameOver, Sweeping
<1>2. g \in w.games /\ ~Waits(w, g)
  BY <1>0 DEF AnnounceNewRound, AnnounceEndOfRound, AnnounceGameOver,
              NewRounds, EndRounds, GamesOver, Waits
<1>3. Swept(u1) \/ Swept(u2) \/ Swept(u3)
  BY DEF AnnounceNewRound, AnnounceEndOfRound, AnnounceGameOver
<1> HIDE DEF w
<1>4. Good(w, u1, nullptr) /\ Good(w, u2, nullptr) /\ Good(w, u3, nullptr)
  BY <1>0, <1>2, AnnounceGood
<1>5. u1 \in World /\ u2 \in World /\ u3 \in World
  <2>1. /\ Keeps(w, [w EXCEPT !.game[g].is_new_round = FALSE])
        /\ Keeps(w, [w EXCEPT !.game[g].send_end_of_round = FALSE])
    BY <1>0, GameFields
  <2> QED
    BY <1>0, <2>1, TellBothKeeps, AnnounceGameOverKeeps, KeepsType
<1> HIDE DEF u1, u2, u3
<1> QED
  BY <1>1, <1>3, <1>4, <1>5, SweptSeat DEF w

LEMMA ExpireSeat ==
  ASSUME Inv, SeatInv, Expire
  PROVE  SeatInv' /\ Steps(srv, srv')
<1> DEFINE w == Quiet(srv)
<1>1. /\ Sound(w) /\ Seated(w) /\ w.disconnected_players # << >>
  BY QuietSrv DEF Expire, MayExpire
<1>2. phase = "sweep" /\ Swept(time_out(w))
  BY DEF Expire, MayExpire, Sweeping
<1> HIDE DEF w
<1>3. Good(w, time_out(w), nullptr) /\ time_out(w) \in World
  BY <1>1, TimeOutGood, TimeOutSound DEF Sound
<1> QED
  BY <1>2, <1>3, SweptSeat DEF w

LEMMA DeleteFields ==
  ASSUME NEW w \in World
  PROVE  LET u == delete_empty_games(w) IN
         /\ u \in World /\ u.player = w.player /\ u.game = w.game
         /\ u.players = w.players /\ u.disconnected_players = w.disconnected_players
         /\ u.games = {g \in w.games : Inhabited(w, g)} /\ u.crashed = w.crashed
<1>1. {g \in w.games : Inhabited(w, g)} \in SUBSET GameIds
  BY Types
<1> QED
  BY <1>1, SetVectors DEF delete_empty_games, World

\* Games without players are deleted, and whoever has left one of them is in
\* the menu of a game that is gone.
LEMMA DeleteSeated ==
  ASSUME NEW w \in World, Seated(w)
  PROVE  LET u == delete_empty_games(w) IN
         /\ Seated(u) /\ Deletes(w, u)
         /\ \A o : ~Left(u, o)
         /\ \A g \in u.games : Sits(u, g) # {}
<1> DEFINE u == delete_empty_games(w)
<1>1. /\ u \in World /\ u.player = w.player /\ u.game = w.game
      /\ u.players = w.players /\ u.disconnected_players = w.disconnected_players
      /\ u.games = {g \in w.games : Inhabited(w, g)}
  BY DeleteFields
<1> HIDE DEF u
<1>2. /\ w.games \subseteq GameIds /\ w.players \subseteq Objects /\ Known(w) \subseteq Objects
      /\ \A o \in Objects : w.player[o].game \in GameIds \cup {nullptr}
      /\ nullptr \notin Objects /\ nullptr \notin GameIds
  BY Types
<1>3. Dropped(u) = Dropped(w) /\ Known(u) = Known(w)
  BY <1>1 DEF Dropped, Known
<1>4. ASSUME NEW g
      PROVE  /\ Sits(u, g) = Sits(w, g) /\ (Waits(u, g) <=> Waits(w, g))
             /\ (Filled(u, g) <=> Filled(w, g))
  BY <1>1 DEF Sits, Waits, Filled
<1>5. ASSUME NEW g \in w.games
      PROVE  Inhabited(w, g) <=> Sits(w, g) # {}
  <2>1. \A p \in Sits(w, g) : p \in Known(w)
    BY DEF Seated, GameAgrees
  <2>2. nullptr \notin Known(w)
    BY <1>2
  <2> QED
    BY <2>1, <2>2 DEF Inhabited, Sits
<1>6. \A g : g \in u.games <=> g \in w.games /\ Sits(w, g) # {}
  BY <1>1, <1>5
<1>7. ASSUME NEW o, Left(u, o)
      PROVE  FALSE
  <2> DEFINE g == w.player[o].game
  <2>1. Left(w, o) /\ g \in w.games /\ Sits(w, g) # {}
    BY <1>1, <1>6, <1>7 DEF Left
  <2>2. o \in w.players /\ PlayerAgrees(w, o) /\ GameAgrees(w, g)
    BY <2>1 DEF Left, Seated
  <2>3. w.game[g].player1 = nullptr /\ w.game[g].player2 = nullptr
    BY <2>1, <2>2 DEF PlayerAgrees, GameAgrees
  <2> QED
    BY <2>1, <2>3 DEF Sits
<1>8. ASSUME NEW g \in u.games
      PROVE  GameAgrees(u, g) /\ RoundAgrees(u, g)
  <2>1. g \in w.games
    BY <1>6
  <2>2. GameAgrees(w, g) /\ RoundAgrees(w, g)
    BY <2>1 DEF Seated
  <2>3. GameAgrees(u, g)
    BY <1>1, <1>3, <1>4, <2>2 DEF GameAgrees
  <2>4. RoundAgrees(u, g)
    BY <1>1, <1>4, <2>2 DEF RoundAgrees
  <2> QED
    BY <2>3, <2>4
<1>9. ASSUME NEW p \in u.players
      PROVE  PlayerAgrees(u, p)
  <2> DEFINE g == w.player[p].game
  <2>1. PlayerAgrees(w, p) /\ p \in Objects /\ p # nullptr
    BY <1>1, <1>2 DEF Seated
  <2>2. w.player[p].state = "IN_LOBBY" => g \in u.games /\ Waits(u, g) /\ u.game[g].player1 = p
    BY <1>1, <1>4, <1>6, <2>1 DEF PlayerAgrees, Sits
  <2>3. w.player[p].state = "IN_GAME" => g \in u.games /\ ~Waits(u, g) /\ p \in Sits(u, g)
    BY <1>4, <1>6, <2>1 DEF PlayerAgrees
  <2>4. ~w.player[p].logged_in => g = nullptr /\ w.player[p].state = "IN_MAIN_MENU"
    BY <2>1 DEF PlayerAgrees
  <2> QED
    BY <1>1, <1>7, <2>2, <2>3, <2>4 DEF PlayerAgrees
<1>10. ASSUME NEW p \in Dropped(u)
       PROVE  DroppedAgrees(u, p)
  <2>1. DroppedAgrees(w, p) /\ p \in Objects /\ p # nullptr
    BY <1>2, <1>3 DEF Seated, Known
  <2> QED
    BY <1>1, <1>4, <1>6, <2>1 DEF DroppedAgrees, Sits
<1>11. ASSUME NEW p \in Known(u)
       PROVE  ClosedAgrees(u, p)
  <2> DEFINE g == w.player[p].game
  <2>1. ClosedAgrees(w, p)
    BY <1>3 DEF Seated
  <2>2. g \in w.games /\ g \notin u.games => w.game[g].player1 = nullptr
    BY <1>6 DEF Sits
  <2> QED
    BY <1>1, <2>1, <2>2 DEF ClosedAgrees
<1>12. Seated(u)
  BY <1>8, <1>9, <1>10, <1>11 DEF Seated
<1>13. Deletes(w, u)
  <2>1. \A g \in u.games : SameGame(w, u, g)
    BY <1>1, <1>6 DEF SameGame, SameSeat, Holder
  <2> QED
    BY <1>6, <2>1 DEF Deletes
<1> QED
  BY <1>4, <1>6, <1>7, <1>12, <1>13 DEF u

LEMMA ReapSeat ==
  ASSUME Inv, SeatInv, Reap
  PROVE  SeatInv' /\ Steps(srv, srv')
<1> DEFINE w == Quiet(srv)
           u == delete_empty_games(w)
           v == Collect(u)
<1>0. /\ Seated(w) /\ w \in World /\ Alike(srv, w) /\ ~w.crashed
      /\ w.games = srv.games /\ w.game = srv.game
  BY QuietSrv DEF Reap, Sweeping, Running
<1>1. srv' = Settle(u) /\ phase' = "select"
  BY DEF Reap
<1> HIDE DEF w
<1>2. u \in World /\ ~u.crashed
  BY <1>0, DeleteFields
<1>3. /\ Seated(u) /\ Deletes(w, u)
      /\ \A o : ~Left(u, o)
      /\ \A g \in u.games : Sits(u, g) # {}
  BY <1>0, DeleteSeated
<1>4. srv' = v
  BY <1>1, <1>2 DEF Settle
<1> HIDE DEF u
<1>5. /\ Seated(v) /\ AllSame(u, v)
      /\ \A o : Left(v, o) => Left(u, o)
      /\ \A g \in u.games : v.game[g] = u.game[g]
  BY <1>2, <1>3, CollectSeated
<1>6. v.games = u.games /\ u.games \subseteq GameIds
  BY <1>2, CollectFields, Types DEF SameVectors
<1> HIDE DEF v
<1>7. \A g \in v.games : Sits(v, g) # {}
  BY <1>3, <1>5, <1>6 DEF Sits
<1>8. \A g \in GameIds : SameGame(srv, w, g)
  BY <1>0, AlikeSeated DEF SeatInv, Inv, Sound
<1>9. Deletes(srv, v)
  <2>1. ASSUME NEW g \in v.games
        PROVE  SameGame(srv, v, g)
    <3>1. SameGame(srv, w, g) /\ SameGame(w, u, g) /\ SameGame(u, v, g)
      BY <1>3, <1>5, <1>6, <1>8 DEF AllSame, Deletes
    <3>2. SameGame(w, v, g)
      BY <3>1, SameGameTransitive
    <3> QED
      BY <3>1, <3>2, SameGameTransitive
  <2>2. \A g \in srv.games : g \notin v.games => Sits(srv, g) = {}
    BY <1>0, <1>3, <1>6 DEF Deletes, Sits
  <2>3. v.games \subseteq srv.games
    BY <1>0, <1>3, <1>6 DEF Deletes
  <2> QED
    BY <2>1, <2>2, <2>3 DEF Deletes
<1> QED
  BY <1>1, <1>3, <1>4, <1>5, <1>7, <1>9, SeatInvPrime DEF SeatInv, Steps

LEMMA NextSeat ==
  ASSUME "takeover" \notin Liberties, Inv, SeatInv, [Next]_vars
  PROVE  SeatInv' /\ Steps(srv, srv')
<1> DEFINE w == Quiet(srv)
<1>0. /\ Seated(w) /\ w \in World /\ Alike(srv, w)
      /\ w.games = srv.games /\ w.game = srv.game
      /\ \A o : Left(w, o) <=> Left(srv, o)
      /\ srv \in World /\ Seated(srv)
  BY QuietSrv DEF Inv, Sound, SeatInv
<1> HIDE DEF w
<1>1. CASE Select
  <2>1. srv' = w /\ phase = "select" /\ phase' # "select"
    BY <1>1 DEF Select, w
  <2>2. \A o \in Objects : ~Left(srv, o)
    BY <2>1 DEF SeatInv, LeftIsServed
  <2>3. AllSame(srv, w)
    BY <1>0, AlikeSeated DEF AllSame
  <2> QED
    BY <1>0, <2>1, <2>2, <2>3, SeatInvPrime DEF SeatInv, Steps, Moves
<1>2. CASE Exit
  <2>1. srv' = InitWorld /\ phase' = "stopped"
    BY <1>2 DEF Exit
  <2> QED
    BY <2>1, EmptySeated, InitWorldEmpty, SeatInvPrime DEF SeatInv, Steps
<1>3. CASE Accept
  BY <1>3, AcceptSeat
<1>4. CASE \E fd \in Sockets : ServeClosed(fd)
  <2>1. PICK fd \in Sockets : Served(fd, Crash(srv)) /\ phase = "serve"
    BY <1>4 DEF ServeClosed, Turn
  <2>2. Crash(srv) \in World /\ Crash(srv).crashed /\ Good(Quiet(srv), Crash(srv), nullptr)
    BY <1>0, AlikeSelf, MemoryAlike DEF Alike, Good
  <2>3. Crash(srv).player = srv.player
    BY <1>0 DEF Crash, World
  <2>4. nullptr \notin Objects
    BY ObjectsAssumption
  <2> QED
    BY <2>1, <2>2, <2>3, <2>4, ServedSeat
<1>5. CASE \E p \in Objects : Client(p)
  BY <1>5, ClientSeat
<1>6. CASE \E g \in GameIds :
             AnnounceNewRound(g) \/ AnnounceEndOfRound(g) \/ AnnounceGameOver(g)
  BY <1>6, GamesSeat
<1>7. CASE Expire
  BY <1>7, ExpireSeat
<1>8. CASE Reap
  BY <1>8, ReapSeat
<1>9. CASE Stopped \/ UNCHANGED vars
  <2>1. srv' = srv /\ read_fds' = read_fds /\ phase' = phase
    BY <1>9 DEF Stopped, vars
  <2>2. AllSame(srv, srv)
    BY <1>0, AlikeSelf, AlikeSeated DEF AllSame
  <2> QED
    BY <1>0, <2>1, <2>2, SeatInvPrime DEF SeatInv, Steps, Moves, LeftIsServed, GamesAreInhabited
<1> QED
  BY <1>1, <1>2, <1>3, <1>4, <1>5, <1>6, <1>7, <1>8, <1>9 DEF Next, Client
=============================================================================
