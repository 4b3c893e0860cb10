---------------------------- MODULE SeatTheorems ----------------------------
(***************************************************************************)
(* What follows from SeatInv for every number of clients, games and        *)
(* connections: the seat, round and point properties of ServerProperties,  *)
(* and that the server implements module Match.  All theorems are about    *)
(* clients that RECONNECT before they are logged in and with a name; with  *)
(* the liberty "takeover" the properties are false.                        *)
(***************************************************************************)
EXTENDS SeatProofs

-----------------------------------------------------------------------------
(* The inductive invariant.                                                *)

\* Every state of the server is seated: its vectors, seats, back pointers, player
\* states, rounds and points agree as module Seats says, whatever the order in
\* which clients create, join, play, leave, drop, come back and time out.
THEOREM SeatInvariance ==
  ASSUME "takeover" \notin Liberties
  PROVE  Spec => [](Inv /\ SeatInv)
<1>1. Init => Inv /\ SeatInv
  <2> SUFFICES ASSUME Init PROVE Inv /\ SeatInv
    OBVIOUS
  <2>1. srv = InitWorld /\ read_fds = {} /\ phase = "select"
    BY DEF Init
  <2>2. Inv
    BY <2>1, InitWorldSound DEF Inv, TypeOK, Phase, Sound
  <2>3. Seated(srv) /\ \A o : ~Left(srv, o)
    BY <2>1, EmptySeated, InitWorldEmpty
  <2>4. srv.games = {}
    BY <2>1, InitWorldEmpty
  <2> QED
    BY <2>2, <2>3, <2>4 DEF SeatInv, LeftIsServed, GamesAreInhabited
<1>2. Inv /\ SeatInv /\ [Next]_vars => (Inv /\ SeatInv)'
  BY NextInv, NextSeat
<1> QED
  BY <1>1, <1>2, PTL DEF Spec

\* And what a step does, which the properties of steps follow from.
LEMMA SeatSteps ==
  ASSUME "takeover" \notin Liberties
  PROVE  Spec => [][Inv /\ SeatInv /\ Steps(srv, srv')]_vars
<1>1. Inv /\ SeatInv /\ [Next]_vars => [Inv /\ SeatInv /\ Steps(srv, srv')]_vars
  BY NextSeat
<1> QED
  BY <1>1, SeatInvariance, PTL DEF Spec

LEMMA SeatNames ==
  /\ player = srv.player /\ game = srv.game
  /\ \A g : Seats(g) = Sits(srv, g) /\ (Full(g) <=> Filled(srv, g))
BY DEF player, game, Seats, Sits, Full, Filled

-----------------------------------------------------------------------------
(* The theorems.                                                           *)

\* Whoever sits in a game is known to the server, points back to that game and
\* sits in no other seat, through joins, leaves, kicks, drops, RECONNECT and
\* timeouts (player1, player2 and game in Server.cpp).
THEOREM SeatsAgreeAlways ==
  ASSUME "takeover" \notin Liberties
  PROVE  Spec => []SeatsAgree
<1>1. Inv /\ SeatInv => SeatsAgree
  BY SeatNames DEF SeatInv, Seated, GameAgrees, SeatsAgree, Filled
<1> QED
  BY <1>1, SeatInvariance, PTL

\* The state that guards every handler tells where a connected player sits: in no
\* game in the menu, in a game that waits in the lobby, in a match in the game.
THEOREM StateTellsSeatAlways ==
  ASSUME "takeover" \notin Liberties
  PROVE  Spec => []StateTellsSeat
<1>1. ASSUME Inv, SeatInv, NEW p \in srv.players
      PROVE  LET mine == {g \in srv.games : p \in Seats(g)} IN
             CASE player[p].state = "IN_MAIN_MENU" -> mine = {}
               [] player[p].state = "IN_LOBBY" ->
                    mine # {} /\ \A g \in mine : /\ game[g].state = "WAITING_FOR_PLAYERS"
                                                 /\ game[g].player1 = p
               [] player[p].state = "IN_GAME" ->
                    mine # {} /\ \A g \in mine : game[g].state # "WAITING_FOR_PLAYERS"
               [] OTHER -> FALSE
  <2> DEFINE mine == {g \in srv.games : p \in Seats(g)}
             h == srv.player[p].game
  <2>0. srv \in World /\ Seated(srv) /\ OneOwner(srv)
    BY <1>1 DEF Inv, Sound, SeatInv
  <2>1. p \in Objects /\ srv.player[p].state \in PlayerState /\ p # nullptr
    BY <2>0, Types
  <2>2. srv.player[p].state # "DISCONNECTED" /\ PlayerAgrees(srv, p)
    BY <2>0 DEF OneOwner, Seated
  <2>3. \A g : g \in mine <=> g \in srv.games /\ p \in Sits(srv, g)
    BY SeatNames
  <2>4. \A g \in mine : g = h
    BY <2>0, <2>3, SitsBelongs
  <2> HIDE DEF mine
  <2>5. CASE srv.player[p].state = "IN_MAIN_MENU"
    <3>1. mine = {}
      BY <2>0, <2>3, <2>5, MenuHasNoSeat
    <3> QED
      BY <2>5, <3>1, SeatNames DEF mine
  <2>6. CASE srv.player[p].state = "IN_LOBBY"
    <3>1. h \in srv.games /\ Waits(srv, h) /\ srv.game[h].player1 = p
      BY <2>2, <2>6 DEF PlayerAgrees
    <3>2. h \in mine
      BY <2>1, <2>3, <3>1 DEF Sits
    <3>3. mine # {} /\ \A g \in mine : /\ srv.game[g].state = "WAITING_FOR_PLAYERS"
                                       /\ srv.game[g].player1 = p
      BY <2>4, <3>1, <3>2 DEF Waits
    <3> QED
      BY <2>6, <3>3, SeatNames DEF mine
  <2>7. CASE srv.player[p].state = "IN_GAME"
    <3>1. h \in srv.games /\ ~Waits(srv, h) /\ p \in Sits(srv, h)
      BY <2>2, <2>7 DEF PlayerAgrees
    <3>2. h \in mine
      BY <2>3, <3>1
    <3>3. mine # {} /\ \A g \in mine : srv.game[g].state # "WAITING_FOR_PLAYERS"
      BY <2>4, <3>1, <3>2 DEF Waits
    <3> QED
      BY <2>7, <3>3, SeatNames DEF mine
  <2> QED
    BY <2>1, <2>2, <2>5, <2>6, <2>7 DEF PlayerState
<1>2. Inv /\ SeatInv => StateTellsSeat
  BY <1>1 DEF StateTellsSeat
<1> QED
  BY <1>2, SeatInvariance, PTL

\* When the loop waits in select, a game that waits for players has its host and
\* nobody else: what LIST_GAMES offers can be joined (leave_game, and the deletion
\* of empty games at the end of the sweep).
THEOREM LobbyHasHostAlways ==
  ASSUME "takeover" \notin Liberties
  PROVE  Spec => []LobbyHasHost
<1>1. Inv /\ SeatInv => LobbyHasHost
  BY SeatNames DEF SeatInv, Seated, GameAgrees, GamesAreInhabited, LobbyHasHost, Waits, Sits
<1> QED
  BY <1>1, SeatInvariance, PTL

\* A match with both players in it never gets stuck between two rounds: a round
\* is over exactly when nobody may roll, whoever drops and comes back (reroll,
\* end_round, start_round, reconnect).
THEOREM RoundIsPlayedOrOverAlways ==
  ASSUME "takeover" \notin Liberties
  PROVE  Spec => []RoundIsPlayedOrOver
<1>1. Inv /\ SeatInv => RoundIsPlayedOrOver
  BY SeatNames DEF SeatInv, Seated, RoundAgrees, RoundIsPlayedOrOver
<1> QED
  BY <1>1, SeatInvariance, PTL

\* A match with both players in it is finished exactly when one of them has the
\* winning points (end_round, end_game, reconnect).
THEOREM PointsDecideAlways ==
  ASSUME "takeover" \notin Liberties
  PROVE  Spec => []PointsDecide
<1>1. ASSUME Inv, SeatInv, NEW g \in srv.games, Full(g)
      PROVE  game[g].state = "FINISHED" <=> \E p \in Seats(g) : player[p].score >= BEST_OF
  <2>1. /\ srv \in World /\ GameAgrees(srv, g) /\ RoundAgrees(srv, g) /\ Filled(srv, g)
        /\ Seats(g) = Sits(srv, g)
    BY <1>1, SeatNames DEF Inv, Sound, SeatInv, Seated
  <2>2. /\ srv.game[g].state \in GameState /\ Sits(srv, g) \subseteq Objects
        /\ \A p \in Sits(srv, g) : srv.player[p].score \in Nat
    BY <2>1, Types
  <2>3. srv.game[g].state # "WAITING_FOR_PLAYERS"
    BY <2>1 DEF GameAgrees, Filled, Waits
  <2>4. CASE srv.game[g].state = "PLAYING"
    <3>1. \A p \in Sits(srv, g) : srv.player[p].score < BEST_OF
      BY <2>1, <2>4 DEF RoundAgrees
    <3>2. ~ \E p \in Sits(srv, g) : srv.player[p].score >= BEST_OF
      BY <2>2, <3>1, BoundsAssumption
    <3> QED
      BY <2>1, <2>4, <3>2, SeatNames
  <2>5. CASE srv.game[g].state = "FINISHED"
    <3>1. PICK p \in Sits(srv, g) : srv.player[p].score = BEST_OF
      BY <2>1, <2>5 DEF RoundAgrees
    <3>2. srv.player[p].score >= BEST_OF
      BY <3>1, BoundsAssumption
    <3> QED
      BY <2>1, <2>5, <3>2, SeatNames
  <2> QED
    BY <2>2, <2>3, <2>4, <2>5 DEF GameState
<1>2. Inv /\ SeatInv => PointsDecide
  BY <1>1 DEF PointsDecide
<1> QED
  BY <1>2, SeatInvariance, PTL

-----------------------------------------------------------------------------
(* What steps do.                                                          *)

LEMMA HeldHolders ==
  \A g, h : h \in Held(g) =>
    \E s \in {1, 2} : /\ h[1] = Holder(srv, g, s) /\ h[1] # nullptr
                      /\ h[2] = Holder(srv', g, s) /\ h[2] # nullptr
<1> SUFFICES ASSUME NEW g, NEW h, h \in Held(g)
             PROVE  \E s \in {1, 2} : /\ h[1] = Holder(srv, g, s) /\ h[1] # nullptr
                                      /\ h[2] = Holder(srv', g, s) /\ h[2] # nullptr
  OBVIOUS
<1>1. h[1] # nullptr /\ h[2] # nullptr /\ h \in SeatHolders(g)
  BY DEF Held
<1>2. \/ h = <<srv.game[g].player1, srv'.game[g].player1>>
      \/ h = <<srv.game[g].player2, srv'.game[g].player2>>
  BY <1>1 DEF SeatHolders, game
<1>3. CASE h = <<srv.game[g].player1, srv'.game[g].player1>>
  BY <1>1, <1>3 DEF Holder
<1>4. CASE h = <<srv.game[g].player2, srv'.game[g].player2>>
  BY <1>1, <1>4 DEF Holder
<1> QED
  BY <1>2, <1>3, <1>4

\* A game that is there before and after a step is the same or has moved on.
LEMMA KeptCases ==
  ASSUME NEW w \in World, NEW v, Steps(w, v), NEW g \in w.games \cap v.games
  PROVE  SameGame(w, v, g) \/ Changes(w, v, g)
BY Types DEF Steps, Moves, AllSame, OthersSame, Deletes

\* No step but the start of a round gives a seat its roll back, whoever holds the
\* seat afterwards (start_round; can_play in reconnect).
THEOREM OneRollPerRoundAlways ==
  ASSUME "takeover" \notin Liberties
  PROVE  Spec => OneRollPerRound
<1> DEFINE Fine == \A g \in Kept : \A h \in Held(g) :
                     ~player[h[1]].can_play /\ player'[h[2]].can_play =>
                       /\ game'[g].is_new_round
                       /\ game[g].state = "WAITING_FOR_PLAYERS" \/ game[g].is_end_round
<1>1. ASSUME Inv, SeatInv, Steps(srv, srv'), NEW g \in Kept, NEW h \in Held(g),
             ~player[h[1]].can_play, player'[h[2]].can_play
      PROVE  /\ game'[g].is_new_round
             /\ game[g].state = "WAITING_FOR_PLAYERS" \/ game[g].is_end_round
  <2>1. PICK s \in {1, 2} : /\ h[1] = Holder(srv, g, s) /\ h[1] # nullptr
                            /\ h[2] = Holder(srv', g, s) /\ h[2] # nullptr
    BY HeldHolders
  <2>2. ~srv.player[Holder(srv, g, s)].can_play /\ srv'.player[Holder(srv', g, s)].can_play
    BY <1>1, <2>1 DEF player
  <2>3. g \in srv.games \cap srv'.games /\ srv \in World
    BY <1>1 DEF Kept, Inv, Sound
  <2>4. SameGame(srv, srv', g) \/ Changes(srv, srv', g)
    BY <1>1, <2>3, KeptCases
  <2>5. ~SameGame(srv, srv', g)
    BY <2>1, <2>2, <2>3 DEF SameGame, SameSeat
  <2>6. ASSUME NEW t \in {1, 2}
        PROVE  /\ ~Rolls(srv, srv', g, t)
               /\ ~RollsLast(srv, srv', g, t)
               /\ ~Vacates(srv, srv', g, t)
    <3>1. s = t \/ s = 3 - t
      BY 3 - 1 = 2, 3 - 2 = 1
    <3>2. ~SameSeat(srv, srv', g, s)
      BY <2>1, <2>2 DEF SameSeat
    <3> QED
      BY <2>1, <2>2, <3>1, <3>2 DEF Rolls, RollsLast, Vacates
  <2>7. Joins(srv, srv', g) \/ Starts(srv, srv', g)
    BY <2>3, <2>4, <2>5, <2>6 DEF Changes, Opens
  <2> QED
    BY <2>7 DEF Joins, Starts, Plays, Waits, game
<1>2. Inv /\ SeatInv /\ Steps(srv, srv') => Fine
  BY <1>1
<1>3. [Inv /\ SeatInv /\ Steps(srv, srv')]_vars => [Fine]_vars
  BY <1>2
<1>4. Spec => [][Fine]_vars
  BY <1>3, SeatSteps, PTL
<1> QED
  BY <1>4 DEF OneRollPerRound

\* The points of a seat change only by one, and only when a round ends (end_round;
\* score in reconnect and leave_game).
THEOREM PointsAreWonInRoundsAlways ==
  ASSUME "takeover" \notin Liberties
  PROVE  Spec => PointsAreWonInRounds
<1> DEFINE Fine == \A g \in Kept : \A h \in Held(g) :
                     game[g].state # "WAITING_FOR_PLAYERS"
                       /\ player'[h[2]].score # player[h[1]].score =>
                         /\ player'[h[2]].score = player[h[1]].score + 1
                         /\ ~game[g].is_end_round
                         /\ game'[g].is_end_round \/ game'[g].state = "FINISHED"
<1>1. ASSUME Inv, SeatInv, Steps(srv, srv'), NEW g \in Kept, NEW h \in Held(g),
             game[g].state # "WAITING_FOR_PLAYERS",
             player'[h[2]].score # player[h[1]].score
      PROVE  /\ player'[h[2]].score = player[h[1]].score + 1
             /\ ~game[g].is_end_round
             /\ game'[g].is_end_round \/ game'[g].state = "FINISHED"
  <2>1. PICK s \in {1, 2} : /\ h[1] = Holder(srv, g, s) /\ h[1] # nullptr
                            /\ h[2] = Holder(srv', g, s) /\ h[2] # nullptr
    BY HeldHolders
  <2>2. srv'.player[Holder(srv', g, s)].score # srv.player[Holder(srv, g, s)].score
    BY <1>1, <2>1 DEF player
  <2>3. /\ g \in srv.games \cap srv'.games /\ srv \in World /\ g \in GameIds
        /\ ~Waits(srv, g) /\ RoundAgrees(srv, g)
    BY <1>1, Types DEF Kept, Inv, Sound, Waits, game, SeatInv, Seated
  <2>4. SameGame(srv, srv', g) \/ Changes(srv, srv', g)
    BY <1>1, <2>3, KeptCases
  <2>5. ~SameGame(srv, srv', g) /\ ~Joins(srv, srv', g) /\ ~Starts(srv, srv', g)
    BY <2>1, <2>2, <2>3 DEF SameGame, SameSeat, Joins, Starts
  <2>6. ASSUME NEW t \in {1, 2}
        PROVE  ~Rolls(srv, srv', g, t) /\ ~Vacates(srv, srv', g, t)
    <3>1. s = t \/ s = 3 - t
      BY 3 - 1 = 2, 3 - 2 = 1
    <3>2. ~SameSeat(srv, srv', g, s)
      BY <2>1, <2>2 DEF SameSeat
    <3> QED
      BY <2>1, <2>2, <3>1, <3>2 DEF Rolls, Vacates
  <2>7. PICK t \in {1, 2} : RollsLast(srv, srv', g, t)
    BY <2>3, <2>4, <2>5, <2>6 DEF Changes, Opens
  <2>8. PICK winners \in (SUBSET {1, 2}) \ {{}} : Awards(srv, srv', g, winners)
    BY <2>7 DEF RollsLast
  <2>9. srv'.player[Holder(srv', g, s)].score = srv.player[Holder(srv, g, s)].score + 1
    BY <2>2, <2>8 DEF Awards
  <2>10. ~srv.game[g].is_end_round
    <3>1. /\ Filled(srv, g) /\ srv.game[g].state = "PLAYING"
          /\ srv.player[Holder(srv, g, t)].can_play
      BY <2>7 DEF RollsLast, Plays
    <3>2. Holder(srv, g, t) \in Sits(srv, g)
      BY <3>1 DEF Filled, Sits, Holder
    <3> QED
      BY <2>3, <3>1, <3>2 DEF RoundAgrees
  <2>11. srv'.game[g].is_end_round \/ srv'.game[g].state = "FINISHED"
    BY <2>7 DEF RollsLast
  <2> QED
    BY <2>1, <2>9, <2>10, <2>11 DEF player, game
<1>2. Inv /\ SeatInv /\ Steps(srv, srv') => Fine
  BY <1>1
<1>3. [Inv /\ SeatInv /\ Steps(srv, srv')]_vars => [Fine]_vars
  BY <1>2
<1>4. Spec => [][Fine]_vars
  BY <1>3, SeatSteps, PTL
<1> QED
  BY <1>4 DEF OneRollPerRound, PointsAreWonInRounds

-----------------------------------------------------------------------------
(* The games of a world as matches of module Match.                        *)

StageIn(w, g) ==
  CASE w.game[g].state = "WAITING_FOR_PLAYERS" -> "waiting"
    [] w.game[g].state = "PLAYING" -> "playing"
    [] OTHER -> "finished"

TakenIn(w, g) == [s \in {1, 2} |-> Holder(w, g, s) # nullptr]

MayRollIn(w, g) ==
  [s \in {1, 2} |-> /\ w.game[g].state = "PLAYING" /\ Holder(w, g, s) # nullptr
                    /\ w.player[Holder(w, g, s)].can_play]

PointsIn(w, g) ==
  [s \in {1, 2} |-> IF Holder(w, g, s) # nullptr
                      THEN w.player[Holder(w, g, s)].score ELSE 0]

RoundOverIn(w, g) == w.game[g].state = "PLAYING" /\ w.game[g].is_end_round

MatchIn(w, g) ==
  [stage |-> StageIn(w, g), taken |-> TakenIn(w, g), may_roll |-> MayRollIn(w, g),
   points |-> PointsIn(w, g), round_over |-> RoundOverIn(w, g)]

ViewIn(w) == [g \in GameIds |-> IF g \in w.games THEN MatchIn(w, g) ELSE Closed]

LEMMA ViewOfSrv == MatchView = ViewIn(srv) /\ MatchView' = ViewIn(srv')
BY DEF MatchView, MatchOf, ViewIn, MatchIn, StageIn, TakenIn, MayRollIn, PointsIn,
       RoundOverIn, Holder, player, game

LEMMA ClosedIsNoMatch == Promised!NoMatch = Closed /\ Promised!Side = {1, 2}
BY DEF Promised!NoMatch, Promised!Nobody, Promised!NoPoints, Promised!Side, Closed

LEMMA StageCases ==
  ASSUME NEW w \in World, NEW g \in GameIds
  PROVE  /\ w.game[g].state = "WAITING_FOR_PLAYERS" => StageIn(w, g) = "waiting"
         /\ w.game[g].state = "PLAYING" => StageIn(w, g) = "playing"
         /\ w.game[g].state = "FINISHED" => StageIn(w, g) = "finished"
         /\ w.game[g].state \in {"WAITING_FOR_PLAYERS", "PLAYING", "FINISHED"}
BY Types DEF StageIn, GameState

\* The parts of two matches that are equal make equal matches.
LEMMA SameMatch ==
  ASSUME NEW w, NEW v, NEW g, g \in w.games, g \in v.games, SameGame(w, v, g)
  PROVE  MatchIn(v, g) = MatchIn(w, g)
<1>1. v.game[g].state = w.game[g].state /\ v.game[g].is_end_round = w.game[g].is_end_round
  BY DEF SameGame
<1>2. \A s \in {1, 2} :
        LET p == Holder(w, g, s)  q == Holder(v, g, s) IN
        /\ q = nullptr <=> p = nullptr
        /\ p # nullptr => /\ v.player[q].can_play = w.player[p].can_play
                          /\ v.player[q].score = w.player[p].score
  BY DEF SameGame, SameSeat
<1>3. StageIn(v, g) = StageIn(w, g) /\ RoundOverIn(v, g) = RoundOverIn(w, g)
  BY <1>1 DEF StageIn, RoundOverIn
<1>4. TakenIn(v, g) = TakenIn(w, g)
  BY <1>2 DEF TakenIn
<1>5. PointsIn(v, g) = PointsIn(w, g)
  BY <1>2 DEF PointsIn
<1>6. MayRollIn(v, g) = MayRollIn(w, g)
  BY <1>1, <1>2 DEF MayRollIn
<1> QED
  BY <1>3, <1>4, <1>5, <1>6 DEF MatchIn

LEMMA SameViews ==
  ASSUME NEW w, NEW v, AllSame(w, v)
  PROVE  ViewIn(v) = ViewIn(w)
<1>1. ASSUME NEW g \in GameIds
      PROVE  (IF g \in v.games THEN MatchIn(v, g) ELSE Closed)
               = (IF g \in w.games THEN MatchIn(w, g) ELSE Closed)
  <2>1. SameGame(w, v, g) /\ (g \in v.games <=> g \in w.games)
    BY DEF AllSame, SameGame
  <2> QED
    BY <2>1, SameMatch
<1> QED
  BY <1>1 DEF ViewIn

\* One match changes.
LEMMA OneMatch ==
  ASSUME NEW w, NEW v, NEW g \in GameIds, OthersSame(w, v, g), g \in v.games
  PROVE  ViewIn(v) = [ViewIn(w) EXCEPT ![g] = MatchIn(v, g)]
<1>1. ASSUME NEW h \in GameIds, h # g
      PROVE  ViewIn(v)[h] = ViewIn(w)[h]
  <2>1. SameGame(w, v, h) /\ (h \in v.games <=> h \in w.games)
    BY <1>1 DEF OthersSame, SameGame
  <2> QED
    BY <2>1, SameMatch DEF ViewIn
<1>2. ViewIn(v)[g] = MatchIn(v, g)
  BY DEF ViewIn
<1>3. /\ ViewIn(v) = [h \in GameIds |-> ViewIn(v)[h]]
      /\ ViewIn(w) = [h \in GameIds |-> ViewIn(w)[h]]
  BY DEF ViewIn
<1> QED
  BY <1>1, <1>2, <1>3
-----------------------------------------------------------------------------
(* Every change of a game is a step of module Match.                       *)

LEMMA MatchFields ==
  ASSUME NEW w, NEW g
  PROVE  LET m == MatchIn(w, g) IN
         /\ m.stage = StageIn(w, g) /\ m.round_over = RoundOverIn(w, g)
         /\ m.taken = TakenIn(w, g) /\ m.may_roll = MayRollIn(w, g)
         /\ m.points = PointsIn(w, g)
         /\ \A s \in {1, 2} :
              /\ m.taken[s] = (Holder(w, g, s) # nullptr)
              /\ m.may_roll[s] = (/\ w.game[g].state = "PLAYING"
                                  /\ Holder(w, g, s) # nullptr
                                  /\ w.player[Holder(w, g, s)].can_play)
              /\ m.points[s] = IF Holder(w, g, s) # nullptr
                                 THEN w.player[Holder(w, g, s)].score ELSE 0
BY DEF MatchIn, TakenIn, MayRollIn, PointsIn

\* Matches with equal fields are equal.
IsMatch(m) ==
  m = [f \in {"stage", "taken", "may_roll", "points", "round_over"} |-> m[f]]

LEMMA MatchEqual ==
  ASSUME NEW w, NEW g, NEW m, IsMatch(m),
         m.stage = StageIn(w, g), m.taken = TakenIn(w, g), m.may_roll = MayRollIn(w, g),
         m.points = PointsIn(w, g), m.round_over = RoundOverIn(w, g)
  PROVE  m = MatchIn(w, g)
BY DEF IsMatch, MatchIn

LEMMA MatchInIsMatch == ASSUME NEW w, NEW g PROVE IsMatch(MatchIn(w, g))
BY DEF IsMatch, MatchIn

LEMMA HolderIsSeat ==
  ASSUME NEW w, NEW g
  PROVE  Holder(w, g, 1) = w.game[g].player1 /\ Holder(w, g, 2) = w.game[g].player2
BY DEF Holder

LEMMA LobbyFields ==
  LET m == Promised!Lobby IN
  /\ IsMatch(m) /\ m.stage = "waiting" /\ m.round_over = FALSE
  /\ m.taken = [Promised!Nobody EXCEPT ![1] = TRUE]
  /\ m.may_roll = Promised!Nobody /\ m.points = Promised!NoPoints
<1> DEFINE m == Promised!Lobby
<1>1. m.stage = "waiting" /\ m.round_over = FALSE
  BY DEF Promised!Lobby, Promised!NoMatch
<1>2. m.taken = [Promised!Nobody EXCEPT ![1] = TRUE]
  BY DEF Promised!Lobby, Promised!NoMatch
<1>3. m.may_roll = Promised!Nobody
  BY DEF Promised!Lobby, Promised!NoMatch
<1>4. m.points = Promised!NoPoints
  BY DEF Promised!Lobby, Promised!NoMatch
<1>5. IsMatch(m)
  BY DEF Promised!Lobby, Promised!NoMatch, IsMatch
<1> QED
  BY <1>1, <1>2, <1>3, <1>4, <1>5

LEMMA OpensMatch ==
  ASSUME NEW w \in World, NEW v \in World, NEW g \in GameIds, Opens(w, v, g)
  PROVE  ViewIn(w)[g].stage = "none" /\ MatchIn(v, g) = Promised!Lobby
<1>1. ViewIn(w)[g].stage = "none"
  BY DEF ViewIn, Opens, Closed
<1>2. /\ v.game[g].state = "WAITING_FOR_PLAYERS"
      /\ Holder(v, g, 1) # nullptr /\ Holder(v, g, 2) = nullptr
      /\ v.player[Holder(v, g, 1)].score = 0
  BY HolderIsSeat DEF Opens, Waits
<1>3. StageIn(v, g) = "waiting" /\ RoundOverIn(v, g) = FALSE
  BY <1>2, StageCases DEF RoundOverIn
<1>4. TakenIn(v, g) = [Promised!Nobody EXCEPT ![1] = TRUE]
  BY <1>2 DEF TakenIn, Promised!Nobody, Promised!Side
<1>5. MayRollIn(v, g) = Promised!Nobody /\ PointsIn(v, g) = Promised!NoPoints
  BY <1>2 DEF MayRollIn, PointsIn, Promised!Nobody, Promised!NoPoints, Promised!Side
<1>6. Promised!Lobby = MatchIn(v, g)
  <2> DEFINE m == Promised!Lobby
  <2>1. /\ IsMatch(m) /\ m.stage = "waiting" /\ m.round_over = FALSE
        /\ m.taken = [Promised!Nobody EXCEPT ![1] = TRUE]
        /\ m.may_roll = Promised!Nobody /\ m.points = Promised!NoPoints
    BY LobbyFields
  <2> HIDE DEF m
  <2>2. /\ m.stage = StageIn(v, g) /\ m.taken = TakenIn(v, g)
        /\ m.may_roll = MayRollIn(v, g) /\ m.points = PointsIn(v, g)
        /\ m.round_over = RoundOverIn(v, g)
    BY <1>3, <1>4, <1>5, <2>1
  <2>3. m = MatchIn(v, g)
    BY <2>1, <2>2, MatchEqual
  <2> QED
    BY <2>3 DEF m
<1> QED
  BY <1>1, <1>6

LEMMA JoinsMatch ==
  ASSUME NEW w \in World, NEW v \in World, NEW g \in GameIds, Joins(w, v, g)
  PROVE  /\ MatchIn(w, g).stage = "waiting" /\ MatchIn(w, g).taken[1]
         /\ MatchIn(v, g) = Promised!FirstRound
<1>1. MatchIn(w, g).stage = "waiting" /\ MatchIn(w, g).taken[1]
  <2>1. w.game[g].state = "WAITING_FOR_PLAYERS" /\ Holder(w, g, 1) # nullptr
    BY HolderIsSeat DEF Joins, Waits
  <2>2. StageIn(w, g) = "waiting"
    BY <2>1, StageCases
  <2>3. MatchIn(w, g).stage = StageIn(w, g)
    BY MatchFields
  <2>4. MatchIn(w, g).taken[1] = (Holder(w, g, 1) # nullptr)
    BY MatchFields
  <2> QED
    BY <2>1, <2>2, <2>3, <2>4
<1>2. /\ v.game[g].state = "PLAYING" /\ ~v.game[g].is_end_round
      /\ \A s \in {1, 2} : /\ Holder(v, g, s) # nullptr
                           /\ v.player[Holder(v, g, s)].can_play = TRUE
                           /\ v.player[Holder(v, g, s)].score = 0
  <2>1. \A s \in {1, 2} : Holder(v, g, s) \in Objects
    BY Types, HolderIsSeat DEF Joins, Filled
  <2>2. \A s \in {1, 2} : v.player[Holder(v, g, s)].can_play \in BOOLEAN
    BY <2>1, Types
  <2> QED
    BY <2>2, FilledHolders DEF Joins
<1>3. StageIn(v, g) = "playing" /\ RoundOverIn(v, g) = FALSE
  BY <1>2, StageCases DEF RoundOverIn
<1>4. TakenIn(v, g) = [s \in {1, 2} |-> TRUE] /\ MayRollIn(v, g) = [s \in {1, 2} |-> TRUE]
  BY <1>2 DEF TakenIn, MayRollIn
<1>5. PointsIn(v, g) = [s \in {1, 2} |-> 0]
  BY <1>2 DEF PointsIn
<1> QED
  BY <1>1, <1>3, <1>4, <1>5 DEF MatchIn, Promised!FirstRound, Promised!Side,
                                Promised!NoPoints

\* What both seats taken means for a match that is being played.
LEMMA PlaysMatch ==
  ASSUME NEW w \in World, NEW v \in World, NEW g \in GameIds, Plays(w, v, g)
  PROVE  /\ MatchIn(w, g).stage = "playing"
         /\ \A s \in {1, 2} :
              /\ MatchIn(w, g).taken[s]
              /\ MatchIn(w, g).may_roll[s] = w.player[Holder(w, g, s)].can_play
              /\ MatchIn(w, g).points[s] = w.player[Holder(w, g, s)].score
         /\ TakenIn(v, g) = TakenIn(w, g)
         /\ PointsIn(v, g) = [s \in {1, 2} |-> v.player[Holder(v, g, s)].score]
         /\ MayRollIn(v, g) = [s \in {1, 2} |-> /\ v.game[g].state = "PLAYING"
                                                /\ v.player[Holder(v, g, s)].can_play]
         /\ \A s \in {1, 2} : /\ v.player[Holder(v, g, s)].can_play \in BOOLEAN
                              /\ w.player[Holder(w, g, s)].can_play \in BOOLEAN
                              /\ v.player[Holder(v, g, s)].score \in Nat
                              /\ w.player[Holder(w, g, s)].score \in Nat
<1>1. w.game[g].state = "PLAYING"
  BY DEF Plays
<1>2. \A s \in {1, 2} : Holder(w, g, s) # nullptr /\ Holder(v, g, s) # nullptr
  BY FilledHolders DEF Plays
<1>3. \A s \in {1, 2} : Holder(w, g, s) \in Objects /\ Holder(v, g, s) \in Objects
  BY <1>2, Types, HolderIsSeat
<1>4. \A s \in {1, 2} : /\ v.player[Holder(v, g, s)].can_play \in BOOLEAN
                        /\ w.player[Holder(w, g, s)].can_play \in BOOLEAN
                        /\ v.player[Holder(v, g, s)].score \in Nat
                        /\ w.player[Holder(w, g, s)].score \in Nat
  BY <1>3, Types
<1>5. MatchIn(w, g).stage = "playing"
  BY <1>1, MatchFields, StageCases, ZenonT(60)
<1>6. \A s \in {1, 2} :
        /\ MatchIn(w, g).taken[s]
        /\ MatchIn(w, g).may_roll[s] = w.player[Holder(w, g, s)].can_play
        /\ MatchIn(w, g).points[s] = w.player[Holder(w, g, s)].score
  BY <1>1, <1>2, <1>4, MatchFields
<1>7. TakenIn(v, g) = TakenIn(w, g)
  BY <1>2 DEF TakenIn
<1>8. PointsIn(v, g) = [s \in {1, 2} |-> v.player[Holder(v, g, s)].score]
  BY <1>2 DEF PointsIn
<1>9. MayRollIn(v, g) = [s \in {1, 2} |-> /\ v.game[g].state = "PLAYING"
                                          /\ v.player[Holder(v, g, s)].can_play]
  BY <1>2 DEF MayRollIn
<1> QED
  BY <1>4, <1>5, <1>6, <1>7, <1>8, <1>9

LEMMA MatchShape ==
  ASSUME NEW w, NEW g
  PROVE  /\ MatchIn(w, g).points = [s \in {1, 2} |-> MatchIn(w, g).points[s]]
         /\ MatchIn(w, g).may_roll = [s \in {1, 2} |-> MatchIn(w, g).may_roll[s]]
         /\ MatchIn(w, g).taken = [s \in {1, 2} |-> MatchIn(w, g).taken[s]]
<1>1. MatchIn(w, g).points = [s \in {1, 2} |-> MatchIn(w, g).points[s]]
  BY DEF MatchIn, PointsIn
<1>2. MatchIn(w, g).may_roll = [s \in {1, 2} |-> MatchIn(w, g).may_roll[s]]
  BY DEF MatchIn, MayRollIn
<1>3. MatchIn(w, g).taken = [s \in {1, 2} |-> MatchIn(w, g).taken[s]]
  BY DEF MatchIn, TakenIn
<1> QED
  BY <1>1, <1>2, <1>3

\* The parts of a match one by one.
LEMMA MatchParts ==
  ASSUME NEW w, NEW g
  PROVE  /\ MatchIn(w, g).stage = StageIn(w, g)
         /\ MatchIn(w, g).round_over = RoundOverIn(w, g)
         /\ MatchIn(w, g).taken = TakenIn(w, g)
         /\ MatchIn(w, g).may_roll = MayRollIn(w, g)
         /\ MatchIn(w, g).points = PointsIn(w, g)
BY DEF MatchIn

\* What a new round, the last roll of one and a player who goes make of match n.
Started(n) ==
  [n EXCEPT !.may_roll = [s \in Promised!Side |-> TRUE], !.round_over = FALSE]

Awarded(n, winners) ==
  LET points == [t \in Promised!Side |->
                   IF t \in winners THEN n.points[t] + 1 ELSE n.points[t]]
      won    == \E t \in Promised!Side : points[t] = BEST_OF
  IN  [n EXCEPT !.may_roll = Promised!Nobody, !.points = points,
                !.stage = IF won THEN "finished" ELSE @,
                !.round_over = ~won]

Vacated(n, s, stage) ==
  [n EXCEPT !.stage = stage, !.taken[s] = FALSE, !.points[s] = 0,
            !.may_roll = [t \in Promised!Side |-> @[t] /\ t # s /\ stage = "playing"],
            !.round_over = @ /\ stage = "playing"]

LEMMA StartsMatch ==
  ASSUME NEW w \in World, NEW v \in World, NEW g \in GameIds, Starts(w, v, g)
  PROVE  LET n == MatchIn(w, g) IN
         /\ n.stage = "playing" /\ (\A s \in Promised!Side : n.taken[s]) /\ n.round_over
         /\ MatchIn(v, g) = Started(n)
<1> DEFINE n == MatchIn(w, g)
           m == [n EXCEPT !.may_roll = [s \in Promised!Side |-> TRUE],
                          !.round_over = FALSE]
<1>1. Plays(w, v, g) /\ w.game[g].state = "PLAYING" /\ v.game[g].state = "PLAYING"
  BY DEF Starts, Plays
<1>2. /\ n.stage = "playing" /\ \A s \in {1, 2} : n.taken[s]
      /\ n.round_over = TRUE
  <2>1. w.game[g].is_end_round = TRUE
    <3>1. w.game[g].is_end_round \in BOOLEAN
      BY Types
    <3> QED
      BY <3>1 DEF Starts
  <2>2. n.round_over = TRUE
    BY <1>1, <2>1, MatchParts DEF RoundOverIn
  <2> QED
    BY <1>1, <2>2, PlaysMatch
<1>3. StageIn(v, g) = n.stage /\ TakenIn(v, g) = n.taken
  BY <1>1, <1>2, PlaysMatch, StageCases, MatchParts
<1>4. PointsIn(v, g) = n.points
  <2>1. \A s \in {1, 2} : v.player[Holder(v, g, s)].score = n.points[s]
    <3>1. \A s \in {1, 2} : n.points[s] = w.player[Holder(w, g, s)].score
      BY <1>1, PlaysMatch
    <3> HIDE DEF n
    <3> QED
      BY <3>1 DEF Starts
  <2>2. n.points = [s \in {1, 2} |-> n.points[s]]
    BY MatchShape
  <2> HIDE DEF n
  <2> QED
    BY <1>1, <2>1, <2>2, PlaysMatch
<1>5. MayRollIn(v, g) = [s \in {1, 2} |-> TRUE]
  <2>1. \A s \in {1, 2} : v.player[Holder(v, g, s)].can_play = TRUE
    BY <1>1, PlaysMatch DEF Starts
  <2> QED
    BY <1>1, <2>1, PlaysMatch
<1>6. RoundOverIn(v, g) = FALSE
  BY DEF RoundOverIn, Starts
<1>7. IsMatch(n)
  BY MatchInIsMatch
<1> HIDE DEF n
<1>8. IsMatch(m)
  BY <1>7 DEF IsMatch
<1>9. /\ m.may_roll = [s \in {1, 2} |-> TRUE] /\ m.round_over = FALSE
      /\ m.stage = n.stage /\ m.taken = n.taken /\ m.points = n.points
  <2>1. m.round_over = FALSE
    BY <1>7 DEF IsMatch
  <2>2. m.stage = n.stage
    BY <1>7 DEF IsMatch
  <2>3. m.taken = n.taken
    BY <1>7 DEF IsMatch
  <2>4. m.points = n.points
    BY <1>7 DEF IsMatch
  <2>5. m.may_roll = [s \in {1, 2} |-> TRUE]
    BY <1>7 DEF IsMatch, Promised!Side
  <2> QED
    BY <2>1, <2>2, <2>3, <2>4, <2>5
<1> HIDE DEF m
<1>10. m = MatchIn(v, g)
  <2>1. /\ m.stage = StageIn(v, g) /\ m.taken = TakenIn(v, g)
        /\ m.may_roll = MayRollIn(v, g) /\ m.points = PointsIn(v, g)
        /\ m.round_over = RoundOverIn(v, g)
    BY <1>3, <1>4, <1>5, <1>6, <1>9
  <2> QED
    BY <1>8, <2>1, MatchEqual
<1> QED
  BY <1>2, <1>10 DEF n, m, Started, Promised!Side

LEMMA RollsMatch ==
  ASSUME NEW w \in World, NEW v \in World, NEW g \in GameIds, NEW s \in {1, 2},
         Rolls(w, v, g, s)
  PROVE  LET n == MatchIn(w, g) IN
         /\ n.stage = "playing" /\ (\A t \in Promised!Side : n.taken[t])
         /\ n.may_roll[s] /\ n.may_roll[3 - s]
         /\ MatchIn(v, g) = [n EXCEPT !.may_roll[s] = FALSE]
<1> DEFINE n == MatchIn(w, g)
           m == [n EXCEPT !.may_roll[s] = FALSE]
           o == 3 - s
<1>1. /\ Plays(w, v, g) /\ w.game[g].state = "PLAYING" /\ v.game[g].state = "PLAYING"
      /\ o \in {1, 2} /\ o # s /\ \A t \in {1, 2} : t = s \/ t = o
  BY DEF Rolls, Plays
<1>2. /\ n.stage = "playing" /\ \A t \in {1, 2} : n.taken[t]
      /\ n.may_roll[s] /\ n.may_roll[o]
  BY <1>1, PlaysMatch DEF Rolls
<1> HIDE DEF o
<1>3. StageIn(v, g) = n.stage /\ TakenIn(v, g) = n.taken
  BY <1>1, <1>2, PlaysMatch, StageCases, MatchParts
<1>4. /\ ~v.player[Holder(v, g, s)].can_play
      /\ v.player[Holder(v, g, s)].score = w.player[Holder(w, g, s)].score
      /\ w.player[Holder(w, g, o)].can_play
      /\ v.player[Holder(v, g, o)].can_play = w.player[Holder(w, g, o)].can_play
      /\ v.player[Holder(v, g, o)].score = w.player[Holder(w, g, o)].score
  BY <1>1, FilledHolders DEF Rolls, SameSeat, Plays, o
<1>5. PointsIn(v, g) = n.points
  <2>1. \A t \in {1, 2} : v.player[Holder(v, g, t)].score = n.points[t]
    <3>1. \A t \in {1, 2} : n.points[t] = w.player[Holder(w, g, t)].score
      BY <1>1, PlaysMatch
    <3> HIDE DEF n
    <3> QED
      BY <1>1, <1>4, <3>1
  <2>2. n.points = [t \in {1, 2} |-> n.points[t]]
    BY MatchShape
  <2> HIDE DEF n
  <2> QED
    BY <1>1, <2>1, <2>2, PlaysMatch
<1>6. MayRollIn(v, g) = [n.may_roll EXCEPT ![s] = FALSE]
  <2>1. n.may_roll = [t \in {1, 2} |-> n.may_roll[t]]
    BY MatchShape
  <2>2. /\ n.may_roll[o] = TRUE
        /\ v.player[Holder(v, g, s)].can_play = FALSE
        /\ v.player[Holder(v, g, o)].can_play = TRUE
    BY <1>1, <1>2, <1>4, PlaysMatch
  <2> HIDE DEF n
  <2>3. \A t \in {1, 2} :
          (/\ v.game[g].state = "PLAYING"
           /\ v.player[Holder(v, g, t)].can_play) = [n.may_roll EXCEPT ![s] = FALSE][t]
    BY <1>1, <2>1, <2>2
  <2>4. MayRollIn(v, g) = [t \in {1, 2} |-> /\ v.game[g].state = "PLAYING"
                                            /\ v.player[Holder(v, g, t)].can_play]
    BY <1>1, PlaysMatch
  <2> QED
    BY <2>1, <2>3, <2>4
<1>7. RoundOverIn(v, g) = n.round_over
  BY <1>1, MatchParts DEF RoundOverIn, Rolls
<1>8. IsMatch(n)
  BY MatchInIsMatch
<1> HIDE DEF n
<1>9. IsMatch(m)
  BY <1>8 DEF IsMatch
<1>10. /\ m.may_roll = [n.may_roll EXCEPT ![s] = FALSE] /\ m.round_over = n.round_over
       /\ m.stage = n.stage /\ m.taken = n.taken /\ m.points = n.points
  <2>1. m.may_roll = [n.may_roll EXCEPT ![s] = FALSE]
    BY <1>8 DEF IsMatch
  <2>2. m.round_over = n.round_over
    BY <1>8 DEF IsMatch
  <2>3. m.stage = n.stage
    BY <1>8 DEF IsMatch
  <2>4. m.taken = n.taken
    BY <1>8 DEF IsMatch
  <2>5. m.points = n.points
    BY <1>8 DEF IsMatch
  <2> QED
    BY <2>1, <2>2, <2>3, <2>4, <2>5
<1> HIDE DEF m
<1>11. m = MatchIn(v, g)
  <2>1. /\ m.stage = StageIn(v, g) /\ m.taken = TakenIn(v, g)
        /\ m.may_roll = MayRollIn(v, g) /\ m.points = PointsIn(v, g)
        /\ m.round_over = RoundOverIn(v, g)
    BY <1>3, <1>5, <1>6, <1>7, <1>10
  <2> QED
    BY <1>9, <2>1, MatchEqual
<1> QED
  BY <1>2, <1>11 DEF n, m, o, Promised!Side

LEMMA RollsLastMatch ==
  ASSUME NEW w \in World, NEW v \in World, NEW g \in GameIds, NEW s \in {1, 2},
         RollsLast(w, v, g, s)
  PROVE  LET n == MatchIn(w, g) IN
         /\ n.stage = "playing" /\ (\A t \in Promised!Side : n.taken[t])
         /\ n.may_roll[s] /\ ~n.may_roll[3 - s]
         /\ \E winners \in (SUBSET Promised!Side) \ {{}} : MatchIn(v, g) = Awarded(n, winners)
<1> DEFINE n == MatchIn(w, g)
<1>1. Plays(w, v, g) /\ w.game[g].state = "PLAYING" /\ 3 - s \in {1, 2}
  BY DEF RollsLast, Plays
<1>2. /\ n.stage = "playing" /\ \A t \in {1, 2} : n.taken[t]
      /\ n.may_roll[s] /\ ~n.may_roll[3 - s]
  BY <1>1, PlaysMatch DEF RollsLast
<1>3. PICK winners \in (SUBSET {1, 2}) \ {{}} : Awards(w, v, g, winners)
  BY DEF RollsLast
<1> DEFINE points == [t \in {1, 2} |->
                        IF t \in winners THEN n.points[t] + 1 ELSE n.points[t]]
           won == \E t \in {1, 2} : points[t] = BEST_OF
           stage == IF won THEN "finished" ELSE n.stage
           over == ~won
           m == [n EXCEPT !.may_roll = Promised!Nobody, !.points = points,
                          !.stage = IF won THEN "finished" ELSE @,
                          !.round_over = ~won]
<1>4. PointsIn(v, g) = points
  <2>1. \A t \in {1, 2} : n.points[t] = w.player[Holder(w, g, t)].score
    BY <1>1, PlaysMatch
  <2> HIDE DEF n
  <2>2. \A t \in {1, 2} : v.player[Holder(v, g, t)].score = points[t]
    BY <1>3, <2>1 DEF Awards
  <2> HIDE DEF won, stage, over, m
  <2> QED
    BY <1>1, <2>2, PlaysMatch
<1>5. won <=> \E t \in {1, 2} : v.player[Holder(v, g, t)].score = BEST_OF
  <2> HIDE DEF n, points
  <2>1. PointsIn(v, g) = [t \in {1, 2} |-> v.player[Holder(v, g, t)].score]
    BY <1>1, PlaysMatch
  <2> QED
    BY <1>4, <2>1
<1>6. MayRollIn(v, g) = Promised!Nobody
  <2>1. \A t \in {1, 2} : v.player[Holder(v, g, t)].can_play = FALSE
    BY <1>1, PlaysMatch DEF RollsLast
  <2> QED
    BY <1>1, <2>1, PlaysMatch DEF Promised!Nobody, Promised!Side
<1>7. TakenIn(v, g) = n.taken
  BY <1>1, PlaysMatch, MatchParts
<1> HIDE DEF points
<1>8. StageIn(v, g) = stage /\ RoundOverIn(v, g) = over
  <2>1. CASE won
    <3>1. v.game[g].state = "FINISHED"
      BY <1>5, <2>1 DEF RollsLast
    <3>2. StageIn(v, g) = "finished" /\ RoundOverIn(v, g) = FALSE
      BY <3>1, StageCases DEF RoundOverIn
    <3> HIDE DEF n, won
    <3> QED
      BY <2>1, <3>2
  <2>2. CASE ~won
    <3>1. v.game[g].state = "PLAYING" /\ v.game[g].is_end_round
      BY <1>5, <2>2 DEF RollsLast
    <3>2. StageIn(v, g) = "playing"
      BY <3>1, StageCases
    <3>3. RoundOverIn(v, g) = TRUE
      BY <3>1, Types DEF RoundOverIn
    <3> HIDE DEF n, won
    <3> QED
      BY <1>2, <2>2, <3>2, <3>3
  <2> QED
    BY <2>1, <2>2
<1>9. IsMatch(n)
  BY MatchInIsMatch
<1> HIDE DEF n
<1>10. m = [n EXCEPT !.may_roll = Promised!Nobody, !.points = points,
                     !.stage = stage, !.round_over = over]
  BY <1>9 DEF IsMatch
<1> HIDE DEF m, won, stage, over
<1>11. m = MatchIn(v, g)
  <2>1. IsMatch(m)
    BY <1>9, <1>10 DEF IsMatch
  <2>2. m.may_roll = Promised!Nobody
    BY <1>9, <1>10 DEF IsMatch
  <2>3. m.points = points
    BY <1>9, <1>10 DEF IsMatch
  <2>4. m.stage = stage
    BY <1>9, <1>10 DEF IsMatch
  <2>5. m.round_over = over
    BY <1>9, <1>10 DEF IsMatch
  <2>6. m.taken = n.taken
    BY <1>9, <1>10 DEF IsMatch
  <2>7. /\ m.stage = StageIn(v, g) /\ m.taken = TakenIn(v, g)
        /\ m.may_roll = MayRollIn(v, g) /\ m.points = PointsIn(v, g)
        /\ m.round_over = RoundOverIn(v, g)
    BY <1>4, <1>6, <1>7, <1>8, <2>2, <2>3, <2>4, <2>5, <2>6
  <2> QED
    BY <2>1, <2>7, MatchEqual
<1> QED
  BY <1>2, <1>3, <1>11 DEF n, m, points, won, Awarded, Promised!Side

LEMMA VacatesMatch ==
  ASSUME NEW w \in World, NEW v \in World, NEW g \in GameIds, NEW s \in {1, 2},
         Vacates(w, v, g, s)
  PROVE  LET n == MatchIn(w, g) IN
         /\ n.taken[s]
         /\ \E stage \in {n.stage, "finished"} :
              MatchIn(v, g) = Vacated(n, s, stage)
<1> DEFINE n == MatchIn(w, g)
           stage == StageIn(v, g)
           o == 3 - s
           may == [t \in {1, 2} |-> n.may_roll[t] /\ t # s /\ stage = "playing"]
           over == n.round_over /\ stage = "playing"
           m == [n EXCEPT !.stage = stage, !.taken[s] = FALSE, !.points[s] = 0,
                          !.may_roll = [t \in Promised!Side |->
                                          @[t] /\ t # s /\ stage = "playing"],
                          !.round_over = @ /\ stage = "playing"]
<1>1. /\ Holder(w, g, s) # nullptr /\ Holder(v, g, s) = nullptr
      /\ v.game[g].state \in {w.game[g].state, "FINISHED"}
      /\ o \in {1, 2} /\ o # s /\ \A t \in {1, 2} : t = s \/ t = o
  BY DEF Vacates
<1>2. /\ Holder(v, g, o) = nullptr <=> Holder(w, g, o) = nullptr
      /\ Holder(w, g, o) # nullptr =>
           /\ v.player[Holder(v, g, o)].can_play = w.player[Holder(w, g, o)].can_play
           /\ v.player[Holder(v, g, o)].score = w.player[Holder(w, g, o)].score
  BY DEF Vacates, SameSeat
<1> HIDE DEF o
<1>3. stage = "playing" <=> v.game[g].state = "PLAYING"
  BY StageCases
<1>4. n.stage = "playing" <=> w.game[g].state = "PLAYING"
  BY StageCases, MatchParts
<1>5. stage \in {n.stage, "finished"}
  BY <1>1, StageCases, MatchParts
<1>6. /\ \A t \in {1, 2} :
           /\ n.taken[t] = (Holder(w, g, t) # nullptr)
           /\ n.may_roll[t] = (/\ w.game[g].state = "PLAYING"
                               /\ Holder(w, g, t) # nullptr
                               /\ w.player[Holder(w, g, t)].can_play)
           /\ n.points[t] = IF Holder(w, g, t) # nullptr
                              THEN w.player[Holder(w, g, t)].score ELSE 0
      /\ n.points = [t \in {1, 2} |-> n.points[t]]
      /\ n.may_roll = [t \in {1, 2} |-> n.may_roll[t]]
      /\ n.taken = [t \in {1, 2} |-> n.taken[t]]
      /\ n.round_over = RoundOverIn(w, g)
      /\ IsMatch(n)
  <2>1. \A t \in {1, 2} :
           /\ n.taken[t] = (Holder(w, g, t) # nullptr)
           /\ n.may_roll[t] = (/\ w.game[g].state = "PLAYING"
                               /\ Holder(w, g, t) # nullptr
                               /\ w.player[Holder(w, g, t)].can_play)
           /\ n.points[t] = IF Holder(w, g, t) # nullptr
                              THEN w.player[Holder(w, g, t)].score ELSE 0
    BY MatchFields
  <2>2. /\ n.points = [t \in {1, 2} |-> n.points[t]]
        /\ n.may_roll = [t \in {1, 2} |-> n.may_roll[t]]
        /\ n.taken = [t \in {1, 2} |-> n.taken[t]]
    BY MatchShape
  <2>3. n.round_over = RoundOverIn(w, g)
    BY MatchParts
  <2>4. IsMatch(n)
    BY MatchInIsMatch
  <2> QED
    BY <2>1, <2>2, <2>3, <2>4
<1> HIDE DEF n, stage
<1>7. TakenIn(v, g) = [n.taken EXCEPT ![s] = FALSE]
  <2>1. \A t \in {1, 2} : (Holder(v, g, t) # nullptr) = [n.taken EXCEPT ![s] = FALSE][t]
    BY <1>1, <1>2, <1>6
  <2> QED
    BY <1>6, <2>1 DEF TakenIn
<1>8. PointsIn(v, g) = [n.points EXCEPT ![s] = 0]
  <2>1. \A t \in {1, 2} :
          (IF Holder(v, g, t) # nullptr THEN v.player[Holder(v, g, t)].score ELSE 0)
            = [n.points EXCEPT ![s] = 0][t]
    BY <1>1, <1>2, <1>6
  <2> QED
    BY <1>6, <2>1 DEF PointsIn
<1>9. MayRollIn(v, g) = may
  <2>1. \A t \in {1, 2} :
          (/\ v.game[g].state = "PLAYING" /\ Holder(v, g, t) # nullptr
           /\ v.player[Holder(v, g, t)].can_play)
            <=> (n.may_roll[t] /\ t # s /\ stage = "playing")
    BY <1>1, <1>2, <1>3, <1>6
  <2> QED
    BY <2>1 DEF MayRollIn
<1>10. RoundOverIn(v, g) = over
  BY <1>1, <1>3, <1>6 DEF RoundOverIn, Vacates
<1>11. n.taken[s]
  BY <1>1, <1>6
<1>12. /\ IsMatch(m)
       /\ m.stage = stage /\ m.taken = [n.taken EXCEPT ![s] = FALSE]
       /\ m.points = [n.points EXCEPT ![s] = 0] /\ m.may_roll = may
       /\ m.round_over = over
  <2>1. IsMatch(m)
    BY <1>6 DEF IsMatch
  <2>2. m.stage = stage
    BY <1>6 DEF IsMatch
  <2>3. m.taken = [n.taken EXCEPT ![s] = FALSE]
    BY <1>6 DEF IsMatch
  <2>4. m.points = [n.points EXCEPT ![s] = 0]
    BY <1>6 DEF IsMatch
  <2>5. m.may_roll = may
    BY <1>6 DEF IsMatch, Promised!Side
  <2>6. m.round_over = over
    BY <1>6 DEF IsMatch
  <2> QED
    BY <2>1, <2>2, <2>3, <2>4, <2>5, <2>6
<1> HIDE DEF m, may, over
<1>13. m = MatchIn(v, g)
  <2>1. /\ m.stage = StageIn(v, g) /\ m.taken = TakenIn(v, g)
        /\ m.may_roll = MayRollIn(v, g) /\ m.points = PointsIn(v, g)
        /\ m.round_over = RoundOverIn(v, g)
    BY <1>7, <1>8, <1>9, <1>10, <1>12 DEF stage
  <2> QED
    BY <1>12, <2>1, MatchEqual
<1> QED
  BY <1>5, <1>11, <1>13 DEF n, m, Vacated

\* A change of game g is a step of match g.
LEMMA ChangeIsPromised ==
  ASSUME srv \in World, srv' \in World, NEW g \in GameIds,
         Changes(srv, srv', g), OthersSame(srv, srv', g)
  PROVE  Promised!Next
<1> DEFINE V == MatchView
           W == MatchView'
           n == MatchIn(srv, g)
           m == MatchIn(srv', g)
<1>1. g \in srv'.games
  BY DEF Changes, Opens, Joins, Starts, Rolls, RollsLast, Vacates, Plays
<1>2. ViewIn(srv') = [ViewIn(srv) EXCEPT ![g] = m]
  BY <1>1, OneMatch
<1>3. MatchView' = [MatchView EXCEPT ![g] = m]
  BY <1>2, ViewOfSrv
<1>4. g \in srv.games => MatchView[g] = n
  BY ViewOfSrv DEF ViewIn
<1>5. CASE Opens(srv, srv', g)
  <2>1. MatchView[g].stage = "none" /\ m = Promised!Lobby
    BY <1>5, ViewOfSrv, OpensMatch
  <2> HIDE DEF m
  <2>2. Promised!Open(g)
    BY <1>3, <2>1 DEF Promised!Open, Promised!Becomes
  <2> QED
    BY <2>2 DEF Promised!Next
<1>6. CASE Joins(srv, srv', g)
  <2>1. n.stage = "waiting" /\ n.taken[1] /\ m = Promised!FirstRound
    BY <1>6, JoinsMatch
  <2>2. MatchView[g] = n
    BY <1>4, <1>6 DEF Joins
  <2> HIDE DEF m, n
  <2>3. Promised!Join(g)
    BY <1>3, <2>1, <2>2 DEF Promised!Join, Promised!Becomes
  <2> QED
    BY <2>3 DEF Promised!Next
<1>7. CASE Starts(srv, srv', g)
  <2>1. /\ n.stage = "playing" /\ (\A s \in Promised!Side : n.taken[s]) /\ n.round_over
        /\ m = Started(n)
    BY <1>7, StartsMatch
  <2>2. MatchView[g] = n
    BY <1>4, <1>7 DEF Starts, Plays
  <2> HIDE DEF m, n
  <2>3. Promised!NextRound(g)
    BY <1>3, <2>1, <2>2 DEF Promised!NextRound, Promised!Playing, Promised!Full,
                             Promised!Becomes, Started
  <2> QED
    BY <2>3 DEF Promised!Next
<1>8. ASSUME NEW s \in {1, 2}, Rolls(srv, srv', g, s)
      PROVE  Promised!Next
  <2>1. /\ n.stage = "playing" /\ (\A t \in Promised!Side : n.taken[t])
        /\ n.may_roll[s] /\ n.may_roll[3 - s]
        /\ m = [n EXCEPT !.may_roll[s] = FALSE]
    BY <1>8, RollsMatch
  <2>2. MatchView[g] = n
    BY <1>4, <1>8 DEF Rolls, Plays
  <2> HIDE DEF m, n
  <2>3. Promised!Roll(g, s)
    BY <1>3, <2>1, <2>2 DEF Promised!Roll, Promised!MayRoll, Promised!Playing,
                             Promised!Full, Promised!Other, Promised!Becomes
  <2> QED
    BY <2>3 DEF Promised!Next, Promised!Side
<1>9. ASSUME NEW s \in {1, 2}, RollsLast(srv, srv', g, s)
      PROVE  Promised!Next
  <2>1. /\ n.stage = "playing" /\ (\A t \in Promised!Side : n.taken[t])
        /\ n.may_roll[s] /\ ~n.may_roll[3 - s]
        /\ \E winners \in (SUBSET Promised!Side) \ {{}} : m = Awarded(n, winners)
    BY <1>9, RollsLastMatch
  <2>2. MatchView[g] = n
    BY <1>4, <1>9 DEF RollsLast, Plays
  <2> HIDE DEF m, n
  <2>3. PICK winners \in (SUBSET Promised!Side) \ {{}} : m = Awarded(n, winners)
    BY <2>1
  <2>4. Promised!Becomes(g, Awarded(MatchView[g], winners))
    BY <1>3, <2>2, <2>3 DEF Promised!Becomes
  <2>5. Promised!MayRoll(g, s) /\ ~MatchView[g].may_roll[Promised!Other(s)]
    BY <2>1, <2>2 DEF Promised!MayRoll, Promised!Playing, Promised!Full, Promised!Other
  <2>6. \E x \in (SUBSET Promised!Side) \ {{}} :
          Promised!Becomes(g, Awarded(MatchView[g], x))
    BY <2>3, <2>4
  <2>7. Promised!LastRoll(g, s)
    BY <2>5, <2>6 DEF Promised!LastRoll, Awarded
  <2> QED
    BY <2>7 DEF Promised!Next, Promised!Side
<1>10. ASSUME NEW s \in {1, 2}, Vacates(srv, srv', g, s)
       PROVE  Promised!Next
  <2>1. /\ n.taken[s]
        /\ \E stage \in {n.stage, "finished"} :
             m = Vacated(n, s, stage)
    BY <1>10, VacatesMatch
  <2>2. MatchView[g] = n
    BY <1>4, <1>10 DEF Vacates
  <2> HIDE DEF m, n
  <2>3. Promised!Vacate(g, s)
    <3>1. PICK stage \in {n.stage, "finished"} : m = Vacated(n, s, stage)
      BY <2>1
    <3>2. Promised!Becomes(g, Vacated(MatchView[g], s, stage))
      BY <1>3, <2>2, <3>1 DEF Promised!Becomes
    <3>3. MatchView[g].taken[s] /\ stage \in {MatchView[g].stage, "finished"}
      BY <2>1, <2>2, <3>1
    <3> QED
      BY <3>2, <3>3 DEF Promised!Vacate, Vacated
  <2> QED
    BY <2>3 DEF Promised!Next, Promised!Side
<1> QED
  BY <1>5, <1>6, <1>7, <1>8, <1>9, <1>10 DEF Changes

\* The games that nobody is in go, or all of them with the process.
LEMMA DeletesArePromised ==
  ASSUME srv \in World, srv' \in World, Deletes(srv, srv')
  PROVE  Promised!Next
<1> DEFINE gone == srv.games \ srv'.games
<1>1. /\ srv.games \subseteq GameIds /\ srv'.games \subseteq srv.games
      /\ \A g \in srv'.games : SameGame(srv, srv', g)
  BY Types DEF Deletes
<1>2. ASSUME NEW g \in gone
      PROVE  g \in GameIds /\ MatchView[g].taken = Promised!Nobody
  <2>1. g \in GameIds /\ Sits(srv, g) = {}
    BY <1>1 DEF Deletes
  <2>2. srv.game[g].player1 = nullptr /\ srv.game[g].player2 = nullptr
    BY <2>1 DEF Sits
  <2>3. TakenIn(srv, g) = Promised!Nobody
    BY <2>2 DEF TakenIn, Holder, Promised!Nobody, Promised!Side
  <2>4. MatchView[g] = MatchIn(srv, g)
    BY <2>1, <1>2, ViewOfSrv DEF ViewIn
  <2> QED
    BY <2>1, <2>3, <2>4, MatchParts
<1>3. ASSUME NEW g \in GameIds
      PROVE  (IF g \in srv'.games THEN MatchIn(srv', g) ELSE Closed)
               = IF g \in gone THEN Promised!NoMatch ELSE MatchView[g]
  <2>1. MatchView[g] = IF g \in srv.games THEN MatchIn(srv, g) ELSE Closed
    BY ViewOfSrv DEF ViewIn
  <2>2. g \in srv'.games => MatchIn(srv', g) = MatchIn(srv, g)
    BY <1>1, SameMatch
  <2> QED
    BY <1>1, <2>1, <2>2, ClosedIsNoMatch
<1>4. MatchView' = [g \in GameIds |-> IF g \in srv'.games THEN MatchIn(srv', g) ELSE Closed]
  BY ViewOfSrv DEF ViewIn
<1> HIDE DEF gone
<1>5. MatchView' = [g \in GameIds |-> IF g \in gone THEN Promised!NoMatch ELSE MatchView[g]]
  BY <1>3, <1>4
<1>6. gone \in SUBSET {g \in GameIds : MatchView[g].taken = Promised!Nobody}
  BY <1>2
<1>7. Promised!Delete
  BY <1>5, <1>6 DEF Promised!Delete
<1> QED
  BY <1>7 DEF Promised!Next

LEMMA EndIsPromised ==
  ASSUME srv'.games = {}
  PROVE  Promised!Next
<1>1. MatchView' = [g \in GameIds |-> Promised!NoMatch]
  BY ViewOfSrv, ClosedIsNoMatch DEF ViewIn
<1> QED
  BY <1>1 DEF Promised!Next, Promised!Shutdown

\* The server implements Match, as long as nobody who is logged in reconnects
\* (every handler, the sweep and the timeouts; reconnect is no step of a match).
THEOREM ServerImplementsMatch ==
  ASSUME "takeover" \notin Liberties
  PROVE  Spec => ImplementsMatch
<1>1. Init => Promised!Init
  <2> SUFFICES ASSUME Init PROVE Promised!Init
    OBVIOUS
  <2>1. srv.games = {}
    BY InitWorldEmpty DEF Init
  <2>2. MatchView = [g \in GameIds |-> Promised!NoMatch]
    BY <2>1, ViewOfSrv, ClosedIsNoMatch DEF ViewIn
  <2> QED
    BY <2>2 DEF Promised!Init
<1>2. [Inv /\ SeatInv /\ Steps(srv, srv')]_vars /\ Inv /\ Inv'
        => [Promised!Next]_MatchView
  <2> SUFFICES ASSUME [Inv /\ SeatInv /\ Steps(srv, srv')]_vars, Inv, Inv'
               PROVE  [Promised!Next]_MatchView
    OBVIOUS
  <2>1. srv \in World /\ srv' \in World
    BY DEF Inv, TypeOK
  <2>2. CASE UNCHANGED vars
    <3>1. srv' = srv
      BY <2>2 DEF vars
    <3>2. MatchView' = MatchView
      BY <3>1, ViewOfSrv
    <3> QED
      BY <3>2
  <2>3. CASE AllSame(srv, srv')
    BY <2>3, SameViews, ViewOfSrv
  <2>4. CASE \E g \in GameIds : Changes(srv, srv', g) /\ OthersSame(srv, srv', g)
    BY <2>1, <2>4, ChangeIsPromised
  <2>5. CASE srv'.games = {}
    BY <2>5, EndIsPromised
  <2>6. CASE Deletes(srv, srv')
    BY <2>1, <2>6, DeletesArePromised
  <2> QED
    BY <2>2, <2>3, <2>4, <2>5, <2>6 DEF Steps, Moves
<1> QED
  BY <1>1, <1>2, SeatSteps, SeatInvariance, PTL DEF Spec, ImplementsMatch, Promised!Spec
=============================================================================
