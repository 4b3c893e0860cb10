---------------------------- MODULE VerdictProofs ----------------------------
(***************************************************************************)
(* That verdicts are final (VerdictsAreFinal).  Most methods tell nobody   *)
(* how his game has ended (Mute).  The three that do, leave_match, the     *)
(* timeout and announce_game_over, look the player up by the descriptor of *)
(* whoever holds the seat, which may be somebody else's by then: SeatInv   *)
(* says when it is not.                                                    *)
(***************************************************************************)
EXTENDS SeatTheorems

Verdicts == {"WIN", "LOSS", "DRAW"}

WorldFieldNames ==
  {"player", "game", "players", "disconnected_players", "games", "sent", "crashed"}

\* Nobody has been told how his game has ended.
Mute(v) ==
  /\ v = [f \in WorldFieldNames |-> v[f]]
  /\ \A m \in v.sent : m.notice \notin Verdicts

LEMMA MuteUpdates ==
  ASSUME NEW w, Mute(w), NEW x
  PROVE  /\ Mute([w EXCEPT !.player = x]) /\ Mute([w EXCEPT !.game = x])
         /\ Mute([w EXCEPT !.players = x]) /\ Mute([w EXCEPT !.games = x])
         /\ Mute([w EXCEPT !.disconnected_players = x])
         /\ Mute([w EXCEPT !.crashed = x])
<1>1. Mute([w EXCEPT !.player = x])
  BY DEF Mute, WorldFieldNames
<1>2. Mute([w EXCEPT !.game = x])
  BY DEF Mute, WorldFieldNames
<1>3. Mute([w EXCEPT !.players = x])
  BY DEF Mute, WorldFieldNames
<1>4. Mute([w EXCEPT !.games = x])
  BY DEF Mute, WorldFieldNames
<1>5. Mute([w EXCEPT !.disconnected_players = x])
  BY DEF Mute, WorldFieldNames
<1>6. Mute([w EXCEPT !.crashed = x])
  BY DEF Mute, WorldFieldNames
<1> QED
  BY <1>1, <1>2, <1>3, <1>4, <1>5, <1>6

LEMMA QuietMute ==
  ASSUME NEW w \in World
  PROVE  Mute(Quiet(w))
<1>1. w = [f \in WorldFieldNames |-> w[f]]
  BY DEF World, WorldFieldNames
<1> QED
  BY <1>1 DEF Quiet, Mute, WorldFieldNames

LEMMA ObjectMute ==
  ASSUME NEW w, Mute(w), NEW p, NEW g
  PROVE  /\ Mute(Crash(w)) /\ Mute(erase(w, p)) /\ Mute(free_seat(w, g, p))
         /\ Mute(forgive(w, p)) /\ Mute(fresh_roll(w, p))
         /\ Mute(end_game(w, g)) /\ Mute(leave_lobby(w, p, g))
         /\ Mute(handshake(w, p)) /\ Mute(LeavingPlayer(w, p, g))
<1>1. Mute(Crash(w)) /\ Mute(erase(w, p)) /\ Mute(free_seat(w, g, p))
  BY MuteUpdates DEF Crash, erase, free_seat
<1>2. Mute(forgive(w, p)) /\ Mute(fresh_roll(w, p))
  BY DEF Mute, WorldFieldNames, forgive, fresh_roll
<1>3. Mute(end_game(w, g)) /\ Mute(leave_lobby(w, p, g))
  BY DEF Mute, WorldFieldNames, end_game, leave_lobby
<1>4. Mute(handshake(w, p))
  BY <1>2, MuteUpdates DEF handshake
<1>5. Mute(LeavingPlayer(w, p, g))
  BY <1>1, MuteUpdates DEF LeavingPlayer
<1> QED
  BY <1>1, <1>2, <1>3, <1>4, <1>5

LEMMA NotifyMute ==
  ASSUME NEW w, Mute(w), NEW n, n \notin Verdicts, NEW p
  PROVE  Mute(Notify(w, n, p))
BY DEF Notify, Mute, WorldFieldNames

LEMMA ErrorMute ==
  ASSUME NEW w, Mute(w), NEW p
  PROVE  Mute(disconnect_player(w, p)) /\ Mute(player_error_message_inc(w, p))
<1>1. ASSUME NEW u, Mute(u)
      PROVE  Mute(disconnect_player(u, p))
  <2>1. Mute([u EXCEPT !.player[p].game = nullptr])
    BY <1>1, MuteUpdates
  <2> QED
    BY <2>1, ObjectMute DEF disconnect_player
<1>2. Mute([w EXCEPT !.player[p].number_of_error_messages = @ + 1])
  BY MuteUpdates
<1> QED
  BY <1>1, <1>2 DEF player_error_message_inc

LEMMA StatusMute ==
  ASSUME NEW w, Mute(w), NEW p
  PROVE  Mute(game_status(w, p)) /\ Mute(tell_status(w, p))
<1>1. \A x : Mute(game_status(w, x))
  BY ObjectMute, ErrorMute DEF game_status
<1> QED
  BY <1>1 DEF tell_status

LEMMA TellBothMute ==
  ASSUME NEW w, Mute(w), NEW g
  PROVE  Mute(tell_both(w, g))
BY StatusMute DEF tell_both

LEMMA StartRoundMute ==
  ASSUME NEW w, Mute(w), NEW g
  PROVE  Mute(start_round(w, g))
<1> DEFINE p1 == w.game[g].player1
           p2 == w.game[g].player2
           v  == fresh_roll(fresh_roll(w, p1), p2)
<1>1. Mute(v)
  BY ObjectMute
<1> HIDE DEF v
<1>2. Mute([v EXCEPT !.game[g].is_new_round = TRUE, !.game[g].is_end_round = FALSE])
  BY <1>1, ZenonT(60) DEF Mute, WorldFieldNames
<1> QED
  BY <1>2, ObjectMute DEF start_round, v

LEMMA JoinGameMute ==
  ASSUME NEW w, Mute(w), NEW p, NEW g
  PROVE  Mute(join_game(w, p, g))
<1> DEFINE f == forgive(w, p)
<1>1. Mute(f)
  BY ObjectMute
<1> HIDE DEF f
<1>2. Mute(take_seat(f, g, p))
  <2> DEFINE p1 == f.game[g].player1
             u == [f EXCEPT !.game[g].player2 = p, !.game[g].state = "PLAYING",
                            !.player[p].game = g, !.player[p].score = 0,
                            !.player[p1].state = "IN_GAME",
                            !.player[p].state = "IN_GAME"]
  <2>1. Mute(u)
    BY <1>1, MuteUpdates
  <2>2. take_seat(f, g, p) = IF p1 = nullptr THEN Crash(f) ELSE start_round(u, g)
    BY DEF take_seat
  <2> HIDE DEF u
  <2> QED
    BY <1>1, <2>1, <2>2, StartRoundMute, ObjectMute
<1>3. "JOIN_GAME" \notin Verdicts
  BY DEF Verdicts
<1>4. \A q : Mute(Notify(take_seat(f, g, p), "JOIN_GAME", q))
  BY <1>2, <1>3, NotifyMute
<1> QED
  BY <1>2, <1>4, ObjectMute, ErrorMute DEF join_game, f

LEMMA CreateGameMute ==
  ASSUME NEW w, Mute(w), NEW p, NEW g
  PROVE  Mute(create_game(w, p, g))
<1> DEFINE f == forgive(w, p)
<1>1. Mute(f)
  BY ObjectMute
<1> HIDE DEF f
<1>2. Mute(construct_game(f, g, p))
  BY <1>1, MuteUpdates DEF construct_game
<1> DEFINE c == construct_game(f, g, p)
           u == [c EXCEPT !.player[p].game = g]
<1> HIDE DEF c
<1>3. Mute(u)
  BY <1>2, MuteUpdates DEF c
<1> HIDE DEF u
<1>4. Mute([u EXCEPT !.games = @ \cup {g}])
  BY <1>3, MuteUpdates
<1>5. [c EXCEPT !.player[p].game = g, !.games = @ \cup {g}] = [u EXCEPT !.games = @ \cup {g}]
  BY DEF u
<1> QED
  BY <1>4, <1>5, ErrorMute DEF create_game, c, f

LEMMA MenuMute ==
  ASSUME NEW w, Mute(w), NEW p, NEW name
  PROVE  Mute(list_games(w, p)) /\ Mute(login(w, p, name))
<1>1. Mute(list_games(w, p))
  BY ObjectMute, ErrorMute DEF list_games
<1>2. \A x : Mute([forgive(w, p) EXCEPT !.player[p] = x])
  BY ObjectMute, MuteUpdates
<1> QED
  BY <1>1, <1>2, ErrorMute DEF login

LEMMA RerollMute ==
  ASSUME NEW w, Mute(w), NEW p, NEW result
  PROVE  Mute(reroll(w, p, result))
<1> DEFINE f == forgive(w, p)
           h == [f EXCEPT !.player[p].can_play = FALSE]
<1>1. Mute(f) /\ Mute(h)
  BY ObjectMute, MuteUpdates
<1> HIDE DEF f
<1>2. ASSUME NEW g, NEW u0, Mute(u0)
      PROVE  Mute(end_round(u0, g, result))
  <2> DEFINE p1 == u0.game[g].player1
             p2 == u0.game[g].player2
             v  == IF result \in {"player1", "draw"} \/ p1 = p2
                     THEN [u0 EXCEPT !.player[p1].score = @ + 1] ELSE u0
             u  == IF result \in {"player2", "draw"} \/ p1 = p2
                     THEN [v EXCEPT !.player[p2].score = @ + 1] ELSE v
  <2>1. Mute(v)
    BY <1>2, MuteUpdates
  <2> HIDE DEF v
  <2>2. Mute(u)
    BY <2>1, MuteUpdates
  <2> HIDE DEF u
  <2>3. Mute([u EXCEPT !.game[g].is_end_round = TRUE, !.game[g].send_end_of_round = TRUE])
    BY <2>2, ZenonT(60) DEF Mute, WorldFieldNames
  <2> QED
    BY <2>2, <2>3, ObjectMute DEF end_round, u, v
<1>3. Mute(reroll_hand(f, p, result))
  BY <1>1, <1>2, ObjectMute DEF reroll_hand
<1>4. "REROLL_OPPONENT" \notin Verdicts
  BY DEF Verdicts
<1>5. \A q : Mute(Notify(reroll_hand(f, p, result), "REROLL_OPPONENT", q))
  BY <1>3, <1>4, NotifyMute
<1> QED
  BY <1>3, <1>5, ObjectMute, ErrorMute DEF reroll, f

LEMMA AcceptMute ==
  ASSUME NEW w, Mute(w), NEW p
  PROVE  Mute(accept_end_of_round(w, p))
<1> DEFINE v == [forgive(w, p) EXCEPT !.player[p].accepted_end_of_round = TRUE]
<1>1. Mute(v)
  BY ObjectMute, MuteUpdates
<1> HIDE DEF v
<1>2. \A g : Mute(start_round(v, g))
  BY <1>1, StartRoundMute
<1> QED
  BY <1>1, <1>2, ObjectMute, ErrorMute DEF accept_end_of_round, v

LEMMA DropMute ==
  ASSUME NEW w, Mute(w), NEW p
  PROVE  Mute(drop(w, p))
<1> DEFINE g == w.player[p].game
           v == [w EXCEPT !.player[p] =
                            [@ EXCEPT !.logged_in = FALSE, !.state = "DISCONNECTED"],
                          !.disconnected_players = Append(@, p)]
           u == [v EXCEPT !.game[g].paused = TRUE]
           q == get_opponent(u, g, p)
<1>1. Mute(v)
  BY DEF Mute, WorldFieldNames
<1> HIDE DEF v, g
<1>2. Mute(u)
  BY <1>1, MuteUpdates
<1> HIDE DEF u
<1>3. "OPPONENT_DISCONNECTED" \notin Verdicts
  BY DEF Verdicts
<1>4. Mute(Notify(u, "OPPONENT_DISCONNECTED", q))
  BY <1>2, <1>3, NotifyMute
<1> QED
  BY <1>1, <1>2, <1>4, ObjectMute DEF drop, v, u, g

\* Who leaves a game in which he has no opponent tells nobody.
LEMMA AloneMute ==
  ASSUME NEW w \in World, Mute(w), NEW p \in Objects,
         get_opponent(w, w.player[p].game, p) = nullptr
  PROVE  Mute(leave_game(w, p))
<1> DEFINE f == forgive(w, p)
           g == w.player[p].game
<1>1. Mute(f) /\ Mute(leave_lobby(f, p, g)) /\ Mute(LeavingPlayer(f, p, g))
  BY ObjectMute
<1>2. f.game = w.game
  BY DEF forgive, World
<1>3. get_opponent(f, g, p) = nullptr
  BY <1>2 DEF get_opponent
<1> HIDE DEF f, g
<1>4. leave_match(f, p, g) = LeavingPlayer(f, p, g)
  BY <1>3 DEF leave_match, LeavingPlayer, Present
<1> QED
  BY <1>1, <1>4, ObjectMute, ErrorMute DEF leave_game, f, g

LEMMA RestoreMute ==
  ASSUME NEW w, Sound(w), Mute(w), NEW p \in w.players,
         NEW k \in DOMAIN w.disconnected_players
  PROVE  Mute(restore_session(w, p, k))
<1> DEFINE q == w.disconnected_players[k]
           g == w.player[q].game
           c == copy_session(w, p, q)
           v == [c EXCEPT !.disconnected_players = WithoutEntry(@, k)]
           u == take_over_seat(v, g, p, q)
           o == get_opponent(u, g, p)
           z == restore_session(w, p, k)
<1>1. z = IF g = nullptr THEN [v EXCEPT !.player[p].state = "IN_MAIN_MENU"]
          ELSE IF o = nullptr THEN leave_game(u, p)
          ELSE game_status(Notify(u, "OPPONENT_RECONNECTED", o), p)
  BY DEF restore_session
<1>2. Mute(c)
  <2>1. Mute(forgive(w, p))
    BY ObjectMute
  <2>2. \A x : Mute([forgive(w, p) EXCEPT !.player[p] = x])
    BY <2>1, MuteUpdates
  <2> QED
    BY <2>2 DEF copy_session
<1>3. v \in World /\ v.player[p].game = g /\ p \in Objects /\ g \in GameIds \cup {nullptr}
  <2>1. Returns(w, v, p, q)
    BY CopySessionFields
  <2>2. v \in World /\ v.player[p].game = g
    BY <2>1 DEF Returns
  <2>3. p \in Objects
    BY Types DEF Sound
  <2> HIDE DEF v
  <2> QED
    BY <2>2, <2>3, Types
<1> HIDE DEF c, z
<1>4. Mute(v)
  BY <1>2, MuteUpdates
<1> HIDE DEF v, g, q
<1>5. Mute([v EXCEPT !.player[p].state = "IN_MAIN_MENU"])
  BY <1>4, MuteUpdates
<1>6. CASE g # nullptr
  <2>1. /\ u \in World /\ u.player[p].game = g
    BY <1>3, <1>6, TakeOverSeatFields
  <2>2. Mute(u)
    <3> DEFINE state == IF v.game[g].state = "WAITING_FOR_PLAYERS" THEN "IN_LOBBY"
                                                                   ELSE "IN_GAME"
               x == [v EXCEPT !.game[g].paused = FALSE, !.player[p].state = state]
    <3>1. Mute(x)
      BY <1>4, MuteUpdates
    <3> HIDE DEF x
    <3>2. Mute([x EXCEPT !.game[g].player1 = p]) /\ Mute([x EXCEPT !.game[g].player2 = p])
      BY <3>1, MuteUpdates
    <3> QED
      BY <3>2 DEF take_over_seat, x
  <2> HIDE DEF u
  <2>3. o = nullptr => Mute(leave_game(u, p))
    BY <1>3, <2>1, <2>2, AloneMute
  <2>4. "OPPONENT_RECONNECTED" \notin Verdicts
    BY DEF Verdicts
  <2>5. Mute(game_status(Notify(u, "OPPONENT_RECONNECTED", o), p))
    BY <2>2, <2>4, NotifyMute, StatusMute
  <2> QED
    BY <1>1, <1>6, <2>3, <2>5 DEF z
<1> QED
  BY <1>1, <1>5, <1>6 DEF z

LEMMA ReconnectMute ==
  ASSUME NEW w, Sound(w), Mute(w), NEW p \in w.players, NEW name
  PROVE  Mute(reconnect(w, p, name))
<1> DEFINE k == CHOOSE k \in DroppedAs(w, name) : TRUE
<1>1. DroppedAs(w, name) # {} => k \in DOMAIN w.disconnected_players
  BY DEF DroppedAs
<1> HIDE DEF k
<1>2. DroppedAs(w, name) # {} => Mute(restore_session(w, p, k))
  BY <1>1, RestoreMute
<1> QED
  BY <1>2, ErrorMute DEF reconnect, k

-----------------------------------------------------------------------------
(* Verdicts.                                                               *)

Steady(v) == \A o \in Dropped(v) : v.player[o].state = "DISCONNECTED"

\* The verdicts sent in v are right, and none is to p.
Judged(v, p) ==
  \A m \in v.sent :
    m.notice \in Verdicts =>
      /\ Steady(v) => /\ m.to \in v.players \ {p}
                      /\ v.player[m.to].game \in GameIds
                      /\ v.game[v.player[m.to].game].state = "FINISHED"
      /\ \A n \in v.sent : m.notice = "WIN" /\ n.notice = "WIN" => n = m

LEMMA MuteJudged ==
  ASSUME NEW v, Mute(v), NEW p
  PROVE  Judged(v, p)
BY DEF Mute, Judged

\* Whom a verdict may be sent to by way of his descriptor.
Owed(u, q) ==
  \/ q \in Dropped(u) /\ u.player[q].state # "DISCONNECTED"
  \/ /\ q \in u.players
     /\ u.player[q].game \in GameIds
     /\ u.game[u.player[q].game].state = "FINISHED"

LEMMA NotifyFields ==
  ASSUME NEW u \in World, NEW n, NEW q
  PROVE  LET v == Notify(u, n, q) IN
         /\ v.player = u.player /\ v.game = u.game /\ v.players = u.players
         /\ v.disconnected_players = u.disconnected_players /\ v.crashed = u.crashed
         /\ v.sent = u.sent \cup {[notice |-> n, to |-> q]}
BY DEF Notify, World

LEMMA OwedVerdict ==
  ASSUME NEW u \in World, OneOwner(u), Mute(u), NEW q, Owed(u, q), NEW p, q # p
  PROVE  Judged(game_over(u, AtSocketOf(u, q)), p)
<1> DEFINE x == AtSocketOf(u, q)
           n == Verdict(u, x)
           v == Notify(u, n, x)
<1>1. CASE ~HasGame(u, x)
  BY <1>1, ObjectMute, MuteJudged DEF game_over
<1>2. CASE HasGame(u, x)
  <2>1. game_over(u, x) = v
    BY <1>2 DEF game_over
  <2>2. /\ v.player = u.player /\ v.game = u.game /\ v.players = u.players
        /\ v.disconnected_players = u.disconnected_players
        /\ v.sent = u.sent \cup {[notice |-> n, to |-> x]}
    BY NotifyFields
  <2> HIDE DEF v, n, x
  <2>3. \A m \in v.sent : m.notice \in Verdicts => m = [notice |-> n, to |-> x]
    BY <2>2 DEF Mute
  <2>4. Steady(v) <=> Steady(u)
    BY <2>2 DEF Steady, Dropped
  <2>5. q \in u.players => x = q
    BY FoundAtSocket DEF x
  <2>6. Steady(u) => /\ q \in u.players \ {p} /\ x = q
                     /\ u.player[q].game \in GameIds
                     /\ u.game[u.player[q].game].state = "FINISHED"
    BY <2>5 DEF Owed, Steady
  <2>7. ASSUME NEW m \in v.sent, m.notice \in Verdicts
        PROVE  /\ Steady(v) => /\ m.to \in v.players \ {p}
                               /\ v.player[m.to].game \in GameIds
                               /\ v.game[v.player[m.to].game].state = "FINISHED"
               /\ \A y \in v.sent : m.notice = "WIN" /\ y.notice = "WIN" => y = m
    <3>1. m = [notice |-> n, to |-> x] /\ m.to = x
      BY <2>3, <2>7
    <3>2. "WIN" \in Verdicts
      BY DEF Verdicts
    <3> QED
      BY <2>2, <2>3, <2>4, <2>6, <3>1, <3>2
  <2>8. Judged(v, p)
    BY <2>7 DEF Judged
  <2> QED
    BY <2>1, <2>8 DEF x
<1> QED
  BY <1>1, <1>2

LEMMA JudgedErase ==
  ASSUME NEW v, v \in World, NEW p, Judged(v, p)
  PROVE  Judged(erase(v, p), nullptr)
<1> DEFINE u == erase(v, p)
<1>1. /\ u.player = v.player /\ u.game = v.game /\ u.sent = v.sent
      /\ u.disconnected_players = v.disconnected_players /\ u.players = v.players \ {p}
  BY DEF erase, World
<1>2. nullptr \notin v.players
  BY Types
<1> HIDE DEF u
<1>3. Steady(u) <=> Steady(v)
  BY <1>1 DEF Steady, Dropped
<1>4. Judged(u, nullptr)
  BY <1>1, <1>2, <1>3 DEF Judged
<1> QED
  BY <1>4 DEF u

\* Telling a player of a match that has begun leaves him where he is: he is
\* found himself, or he is away and whoever is found may be kicked for it.
LEMMA ToldStays ==
  ASSUME NEW w, Sound(w), Seated(w), NEW g \in w.games, ~Waits(w, g),
         NEW q \in Sits(w, g),
         NEW u \in World, OneOwner(u), u.players = w.players, u.player = w.player,
         q \in Dropped(w) => q \in Dropped(u)
  PROVE  LET v == tell_status(u, q) IN
         /\ v \in World /\ OneOwner(v)
         /\ \/ v.crashed
            \/ q \in w.players /\ Alike(u, v)
            \/ q \in Dropped(v) /\ q \notin w.players /\ Dropped(v) = Dropped(u)
<1> DEFINE v == tell_status(u, q)
           x == AtSocketOf(u, q)
<1>1. /\ w \in World /\ OneOwner(w) /\ u \in World /\ OneOwner(u) /\ g \in GameIds
      /\ q \in Objects /\ q \in Known(w) /\ nullptr \notin Objects
  <2>1. w \in World /\ g \in GameIds
    BY Types DEF Sound
  <2>2. q \in Known(w)
    BY DEF Seated, GameAgrees
  <2> QED
    BY <2>1, <2>2, Types DEF Sound
<1>2. v \in World /\ OneOwner(v)
  <2>1. Keeps(u, v)
    BY <1>1, KeepsSelf, TellKeeps
  <2>2. u.players \subseteq Objects
    BY Types
  <2> HIDE DEF v
  <2> QED
    BY <1>1, <2>1, <2>2 DEF Keeps, OneOwner
<1>3. \/ v.crashed
      \/ Alike(u, v)
      \/ x \in u.players /\ u.player[x].state # "IN_GAME" /\ Kicks(u, v, x)
  BY <1>1, TellCases
<1> HIDE DEF v
<1>4. CASE q \in w.players
  <2>1. w.player[q].state = "IN_GAME"
    BY <1>1, <1>4, SeatedPlays
  <2>2. x = q
    BY <1>1, <1>4, FoundAtSocket
  <2> QED
    BY <1>2, <1>3, <1>4, <2>1, <2>2 DEF v
<1>5. CASE q \notin w.players
  <2>1. q \in Dropped(u)
    BY <1>1, <1>5 DEF Known
  <2>2. Alike(u, v) => Dropped(v) = Dropped(u)
    BY DEF Alike, Dropped
  <2>3. x \in u.players /\ Kicks(u, v, x) => Dropped(v) = Dropped(u)
    <3> SUFFICES ASSUME x \in u.players, Kicks(u, v, x)
                 PROVE  Dropped(v) = Dropped(u)
      OBVIOUS
    <3>1. x \in Objects
      BY <1>1, Types
    <3>2. v.disconnected_players = u.disconnected_players
      BY <1>1, <3>1, KicksFields
    <3> QED
      BY <3>2 DEF Dropped
  <2> QED
    BY <1>2, <1>3, <1>5, <2>1, <2>2, <2>3 DEF v
<1> QED
  BY <1>4, <1>5

\* When the opponent of p, whom the match has waited for, is told of the end of
\* it, he is connected or known to be away.
LEMMA LeaveMatchJudged ==
  ASSUME NEW w, Sound(w), Seated(w), Mute(w), NEW p \in w.players,
         NEW g \in w.games, p \in Sits(w, g), ~Waits(w, g)
  PROVE  LET v == leave_match(w, p, g) IN v.crashed \/ Judged(v, p)
<1> DEFINE q == get_opponent(w, g, p)
           v1 == tell_status(w, q)
           u == FinishedByLeaving(v1, p, g, q)
           v == leave_match(w, p, g)
<1>1. /\ w \in World /\ OneOwner(w) /\ g \in GameIds /\ p \in Objects
      /\ p \notin Dropped(w) /\ nullptr \notin Objects /\ nullptr \notin Dropped(w)
  BY Types DEF Sound, Apart
<1>2. v = LeavingTail(v1, p, g, q)
  BY DEF leave_match, LeavingTail, LeavingPlayer, tell_status
<1>3. q \in Objects \cup {nullptr} /\ q # p /\ (q # nullptr => q \in Sits(w, g))
  <2>1. q \in Objects \cup {nullptr} /\ (q # nullptr => q \in Sits(w, g))
    BY <1>1, OpponentType DEF get_opponent, Sits
  <2>2. GameAgrees(w, g)
    BY DEF Seated
  <2> QED
    BY <1>1, <2>1, <2>2 DEF get_opponent, GameAgrees, Filled
<1> HIDE DEF q, v
<1>4. Mute(v1) /\ v1 \in World
  BY <1>1, <1>3, StatusMute, TellCases
<1> HIDE DEF v1
<1>5. Mute(LeavingPlayer(v1, p, g)) /\ Mute(Notify(LeavingPlayer(v1, p, g), "LEAVE_GAME_OPPONENT", q))
  <2>1. "LEAVE_GAME_OPPONENT" \notin Verdicts
    BY DEF Verdicts
  <2> QED
    BY <1>4, <2>1, ObjectMute, NotifyMute
<1>6. Mute(u)
  <2> DEFINE y == Notify(LeavingPlayer(v1, p, g), "LEAVE_GAME_OPPONENT", q)
  <2> HIDE DEF y
  <2>1. Mute([y EXCEPT !.game[g].state = "FINISHED", !.game[g].game_over = FALSE])
    BY <1>5, MuteUpdates DEF y
  <2> QED
    BY <2>1 DEF FinishedByLeaving, y
<1>7. CASE ~(Present(v1, q) /\ v1.game[g].state # "FINISHED")
  <2>1. /\ LeavingPlayer(v1, p, g).game[g].state = v1.game[g].state
        /\ LeavesSeat(v1, LeavingPlayer(v1, p, g), p, g)
    BY <1>1, <1>4, LeavingPlayerFields
  <2>2. Present(LeavingPlayer(v1, p, g), q) <=> Present(v1, q)
    BY <1>3, <2>1 DEF LeavesSeat, SamePlayer, Present
  <2>3. v \in {LeavingPlayer(v1, p, g), Notify(LeavingPlayer(v1, p, g), "LEAVE_GAME_OPPONENT", q)}
    BY <1>2, <1>7, <2>1, <2>2 DEF LeavingTail
  <2> QED
    BY <1>5, <2>3, MuteJudged DEF v
<1>8. CASE Present(v1, q) /\ v1.game[g].state # "FINISHED"
  <2>1. /\ LeavesSeat(v1, u, p, g) /\ u.crashed = v1.crashed
        /\ v = game_over(u, AtSocketOf(u, q)) /\ u.game[g].state = "FINISHED"
    BY <1>1, <1>2, <1>3, <1>4, <1>8, LeavingTailFields
  <2>2. q \in Sits(w, g) \ {p} /\ q \in Objects
    BY <1>3, <1>8 DEF Present
  <2>3. /\ OneOwner(v1)
        /\ \/ v1.crashed
           \/ q \in w.players /\ Alike(w, v1)
           \/ q \in Dropped(v1) /\ q \notin w.players /\ Dropped(v1) = Dropped(w)
    BY <1>1, <2>2, ToldStays DEF v1
  <2>4. u \in World /\ u.players = v1.players /\ Dropped(u) = Dropped(v1) /\ p \in Objects
    BY <1>1, <2>1 DEF LeavesSeat, SameVectors, Dropped
  <2>5. OneOwner(u)
    <3>1. \A o \in v1.players : /\ u.player[o].socket = v1.player[o].socket
                                /\ u.player[o].state # "DISCONNECTED"
      <4>1. v1.players \subseteq Objects /\ OneOwner(v1)
        BY <1>4, <2>3, Types
      <4> QED
        BY <2>1, <4>1 DEF LeavesSeat, SamePlayer, OneOwner
    <3> QED
      BY <2>3, <2>4, <3>1 DEF OneOwner
  <2>6. /\ u.player[q].state = v1.player[q].state /\ u.player[q].game = v1.player[q].game
        /\ v1.player[q].state # "DISCONNECTED"
    BY <1>8, <2>1, <2>2 DEF LeavesSeat, SamePlayer, Present
  <2>7. CASE v1.crashed
    BY <2>1, <2>4, <2>7, AtSocketType, CrashStays DEF v
  <2>8. CASE q \in w.players /\ Alike(w, v1)
    <3>1. w.player[q].game = g
      BY <1>1, <2>2, SitsBelongs
    <3>2. q \in u.players /\ u.player[q].game = g
      BY <2>2, <2>4, <2>6, <2>8, <3>1 DEF Alike, SamePlayer
    <3>3. Owed(u, q)
      BY <1>1, <2>1, <3>2 DEF Owed
    <3> QED
      BY <1>6, <2>1, <2>2, <2>4, <2>5, <3>3, OwedVerdict DEF v
  <2>9. CASE q \in Dropped(v1)
    <3>1. Owed(u, q)
      BY <2>4, <2>6, <2>9 DEF Owed
    <3> QED
      BY <1>6, <2>1, <2>2, <2>4, <2>5, <3>1, OwedVerdict DEF v
  <2> QED
    BY <2>3, <2>7, <2>8, <2>9
<1> QED
  BY <1>7, <1>8

LEMMA LeaveGameJudged ==
  ASSUME NEW w, Sound(w), Seated(w), Mute(w), NEW p \in w.players
  PROVE  LET v == leave_game(w, p) IN v.crashed \/ Judged(v, p)
<1> DEFINE f == forgive(w, p)
           g == w.player[p].game
           v == leave_game(w, p)
<1>1. /\ p \in Objects /\ w \in World /\ PlayerAgrees(w, p)
  BY Types DEF Sound, Seated
<1>2. Mute(f) /\ Mute(leave_lobby(f, p, g)) /\ Mute(Crash(w))
  BY ObjectMute
<1>3. Mute(player_error_message_inc(w, p))
  BY ErrorMute
<1>4. Alike(w, f) /\ Mild(w, f) /\ f \in World
  BY <1>1, AlikeSelf, ForgiveAlike, AlikeMild
<1>5. Sound(f)
  BY <1>1, KeepsSelf, ForgiveKeeps, KeepsSound
<1>6. ASSUME w.player[p].state \in {"IN_LOBBY", "IN_GAME"}, ~Waits(w, g)
      PROVE  leave_match(f, p, g).crashed \/ Judged(leave_match(f, p, g), p)
  <2>1. g \in w.games /\ p \in Sits(w, g)
    BY <1>1, <1>6 DEF PlayerAgrees
  <2> HIDE DEF f
  <2>2. g \in GameIds
    BY <1>1, <2>1, Types
  <2>3. /\ Seated(f) /\ p \in f.players /\ g \in f.games /\ p \in Sits(f, g) /\ ~Waits(f, g)
    BY <1>4, <1>6, <2>1, <2>2 DEF Mild, Alike, SameBoard, Sits, Waits
  <2> QED
    BY <1>2, <1>5, <2>3, LeaveMatchJudged
<1>7. v = IF w.player[p].state \notin {"IN_LOBBY", "IN_GAME"} THEN player_error_message_inc(w, p)
          ELSE IF g = nullptr THEN Crash(w)
          ELSE IF Waits(w, g) THEN leave_lobby(f, p, g)
          ELSE leave_match(f, p, g)
  BY DEF leave_game, Waits
<1> HIDE DEF v, f, g
<1> SUFFICES v.crashed \/ Judged(v, p)
  BY DEF v
<1>8. Mute(v) => Judged(v, p)
  BY MuteJudged
<1> QED
  BY <1>2, <1>3, <1>6, <1>7, <1>8

LEMMA LogoutJudged ==
  ASSUME NEW w, Sound(w), Seated(w), Mute(w), NEW p \in w.players
  PROVE  LET v == logout(w, p) IN v.crashed \/ Judged(v, nullptr)
<1> DEFINE u == leave_game(w, p)
           v == logout(w, p)
<1>1. p \in Objects /\ w \in World
  BY Types DEF Sound
<1>2. Mute(erase(w, p))
  BY ObjectMute
<1>3. u.crashed \/ Judged(u, p)
  BY LeaveGameJudged
<1>4. u \in World
  BY <1>1, KeepsSelf, LeaveGameKeeps, KeepsType
<1> HIDE DEF u
<1>5. u.crashed => erase(u, p).crashed
  BY <1>4 DEF erase, World
<1>6. Judged(u, p) => Judged(erase(u, p), nullptr)
  BY <1>4, JudgedErase
<1> QED
  BY <1>2, <1>3, <1>5, <1>6, MuteJudged DEF logout, u

\* The opponent of the player who is out of time is told in the same way.
LEMMA TimeOutJudged ==
  ASSUME NEW w, Sound(w), Seated(w), Mute(w), w.disconnected_players # << >>
  PROVE  LET v == time_out(w) IN v.crashed \/ Judged(v, nullptr)
<1> DEFINE p  == Head(w.disconnected_players)
           g  == w.player[p].game
           v1 == [w EXCEPT !.disconnected_players = Tail(@)]
           v2 == FinishedFor(v1, g)
           q  == get_opponent(v2, g, p)
           u1 == tell_status(v2, q)
           v3 == free_seat(u1, g, p)
           v  == IF g = nullptr THEN v1 ELSE tell_verdict(v3, q)
<1>0. w \in World /\ OneOwner(w)
  BY DEF Sound
<1>1. /\ p \in Objects /\ p \in Dropped(w) /\ p \notin w.players
      /\ v1 \in World /\ v1.players = w.players /\ v1.games = w.games
      /\ v1.player = w.player /\ v1.game = w.game
      /\ Dropped(v1) = Dropped(w) \ {p}
  BY HeadFields
<1>2. /\ g \in GameIds \cup {nullptr} /\ nullptr \notin GameIds /\ nullptr \notin Objects
      /\ w.games \subseteq GameIds /\ w.players \subseteq Objects
  BY <1>0, <1>1, Types
<1>3. v = time_out(w)
  BY DEF time_out, FinishedFor
<1> SUFFICES v.crashed \/ Judged(v, nullptr)
  BY <1>3
<1>4. DroppedAgrees(w, p) /\ ClosedAgrees(w, p)
  BY <1>1 DEF Seated, Known
<1>5. Mute(v1) /\ Mute(v2)
  <2>1. Mute(v1)
    BY MuteUpdates
  <2> HIDE DEF v1, g
  <2> DEFINE x1 == [v1 EXCEPT !.game[g].paused = FALSE]
  <2>2. Mute(x1)
    BY <2>1, MuteUpdates
  <2> HIDE DEF x1
  <2> DEFINE x2 == [x1 EXCEPT !.game[g].game_over = FALSE]
  <2>3. Mute(x2)
    BY <2>2, MuteUpdates
  <2> HIDE DEF x2
  <2>4. Mute([x2 EXCEPT !.game[g].state = "FINISHED"])
    BY <2>3, MuteUpdates
  <2> QED
    BY <2>1, <2>4 DEF FinishedFor, x1, x2
<1> HIDE DEF p, g, v1
<1>6. CASE g = nullptr
  BY <1>5, <1>6, MuteJudged
<1>7. CASE g \in GameIds
  <2> g \in GameIds
    BY <1>7
  <2>1. /\ v2 \in World /\ SameVectors(v1, v2) /\ v2.player = v1.player
        /\ v2.game[g].player1 = v1.game[g].player1
        /\ v2.game[g].player2 = v1.game[g].player2
        /\ v2.game[g].state = "FINISHED"
    BY <1>1, FinishedFields
  <2> HIDE DEF v2
  <2>2. q \in Objects \cup {nullptr}
    BY <2>1, OpponentType
  <2>3. q = IF w.game[g].player1 = p THEN w.game[g].player2
            ELSE IF w.game[g].player2 = p THEN w.game[g].player1 ELSE nullptr
    BY <1>1, <2>1 DEF get_opponent
  <2> HIDE DEF q
  <2>4. v2.players = w.players /\ Dropped(v2) = Dropped(w) \ {p}
    BY <1>1, <2>1 DEF SameVectors, Dropped
  <2>5. OneOwner(v2)
    BY <1>0, <1>1, <2>1, <2>4 DEF OneOwner
  <2>6. u1 \in World /\ Mute(v3)
    <3>1. u1 \in World
      BY <2>1, <2>2, TellCases
    <3>2. Mute(u1)
      BY <1>5, StatusMute
    <3> HIDE DEF u1
    <3> QED
      BY <3>1, <3>2, ObjectMute
  <2>7. /\ v3.player = u1.player /\ SameVectors(u1, v3) /\ v3.crashed = u1.crashed
        /\ v3.game[g].state = u1.game[g].state
    BY <2>6, FreeSeatFields
  <2>8. v3 \in World
    BY <1>1, <2>6, KeepsSelf, FreeSeatKeeps, KeepsType
  <2>9. v = IF Present(v3, q) THEN game_over(v3, AtSocketOf(v3, q)) ELSE v3
    BY <1>2 DEF tell_verdict
  <2>10. v3.crashed => v.crashed
    BY <2>2, <2>8, <2>9, VerdictAlike DEF tell_verdict
  <2> HIDE DEF v
  <2>11. CASE ~Present(v3, q)
    BY <2>6, <2>9, <2>11, MuteJudged
  <2>12. CASE Present(v3, q)
    <3>1. q \in Objects
      BY <2>2, <2>12 DEF Present
    <3>2. g \in w.games
      BY <1>1, <1>2, <1>4, <2>3, <3>1 DEF ClosedAgrees, g
    <3>3. p \in Sits(w, g) /\ GameAgrees(w, g)
      BY <1>4, <3>2 DEF DroppedAgrees, Seated, g
    <3>4. q \in Sits(w, g) /\ q # p /\ ~Waits(w, g)
      BY <1>1, <1>2, <2>3, <3>1, <3>3 DEF GameAgrees, Filled, Sits
    <3>5. w.player[q].game = g
      BY <1>0, <3>2, <3>4, SitsBelongs
    <3>6. /\ OneOwner(u1)
          /\ \/ u1.crashed
             \/ q \in w.players /\ Alike(v2, u1)
             \/ q \in Dropped(u1) /\ q \notin w.players /\ Dropped(u1) = Dropped(v2)
      BY <1>1, <2>1, <2>4, <2>5, <3>2, <3>4, ToldStays DEF u1
    <3> HIDE DEF u1, v3
    <3>7. OneOwner(v3) /\ v3.players = u1.players /\ Dropped(v3) = Dropped(u1)
      BY <2>7, <3>6 DEF OneOwner, SameVectors, Dropped
    <3>8. CASE u1.crashed
      BY <2>7, <2>10, <3>8
    <3>9. CASE q \in w.players /\ Alike(v2, u1)
      <4>1. q \in v3.players /\ v3.player[q].game = g /\ v3.game[g].state = "FINISHED"
        <5>1. SamePlayer(v2, u1, q) /\ SameBoard(v2, u1, g) /\ u1.players = v2.players
          BY <3>1, <3>9 DEF Alike
        <5> QED
          BY <1>1, <2>1, <2>4, <2>7, <3>5, <3>7, <3>9, <5>1 DEF SamePlayer, SameBoard
      <4>2. Owed(v3, q)
        BY <4>1 DEF Owed
      <4> QED
        BY <1>2, <2>6, <2>8, <2>9, <2>12, <3>1, <3>7, <4>2, OwedVerdict
    <3>10. CASE q \in Dropped(u1)
      <4>1. Owed(v3, q)
        BY <2>12, <3>7, <3>10 DEF Owed, Present
      <4> QED
        BY <1>2, <2>6, <2>8, <2>9, <2>12, <3>1, <3>7, <4>1, OwedVerdict
    <3> QED
      BY <3>6, <3>8, <3>9, <3>10
  <2> QED
    BY <2>11, <2>12
<1> QED
  BY <1>2, <1>6, <1>7

\* Who is told of the end of a game that both players have finished is himself
\* found at his descriptor: a player who is away cannot roll, so he is known to
\* be away.
LEMMA FinishedIsAttended ==
  ASSUME NEW w \in World, OneOwner(w), Seated(w), NEW g \in w.games,
         w.game[g].state = "FINISHED", Filled(w, g), NEW q \in Sits(w, g), Present(w, q)
  PROVE  /\ q \in w.players /\ AtSocketOf(w, q) = q
         /\ w.player[q].state = "IN_GAME" /\ w.player[q].game = g
<1>1. g \in GameIds /\ q \in Objects /\ ~Waits(w, g)
  BY Types DEF Waits
<1>2. GameAgrees(w, g) /\ RoundAgrees(w, g)
  BY DEF Seated
<1>3. q \in Known(w) /\ w.player[q].game = g
  BY <1>2 DEF GameAgrees
<1>4. ~w.player[q].can_play
  BY <1>2 DEF RoundAgrees
<1>5. q \in w.players
  <2> SUFFICES ASSUME q \notin w.players PROVE FALSE
    OBVIOUS
  <2>1. q \in Dropped(w) /\ DroppedAgrees(w, q)
    BY <1>3 DEF Known, Seated
  <2> QED
    BY <1>4, <2>1 DEF DroppedAgrees, Present
<1>6. w.player[q].state = "IN_GAME"
  BY <1>1, <1>5, SeatedPlays
<1>7. AtSocketOf(w, q) = q
  BY <1>5, FoundAtSocket
<1> QED
  BY <1>3, <1>5, <1>6, <1>7

LEMMA FinishedTold ==
  ASSUME NEW w \in World, OneOwner(w), Seated(w), NEW g \in w.games,
         w.game[g].state = "FINISHED", Filled(w, g), NEW q \in Sits(w, g)
  PROVE  LET v == tell_status(w, q) IN v \in World /\ (v.crashed \/ Alike(w, v))
<1>1. q \in Objects
  BY Types
<1>2. Present(w, q) => AtSocketOf(w, q) = q /\ w.player[q].state = "IN_GAME"
  BY FinishedIsAttended
<1> QED
  BY <1>1, <1>2, TellCases

\* What AnnounceGameOver sends to whom.
VerdictTo(w, q) ==
  IF Present(w, q) THEN {[notice |-> Verdict(w, q), to |-> q]} ELSE {}

LEMMA VerdictFields ==
  ASSUME NEW w \in World, NEW q \in Objects,
         Present(w, q) => AtSocketOf(w, q) = q /\ w.player[q].game # nullptr
  PROVE  LET v == tell_verdict(w, q) IN
         /\ v.player = w.player /\ v.game = w.game /\ v.players = w.players
         /\ v.disconnected_players = w.disconnected_players
         /\ v.sent = w.sent \cup VerdictTo(w, q)
<1> DEFINE n == Verdict(w, q)
<1>1. CASE ~Present(w, q)
  BY <1>1 DEF tell_verdict, VerdictTo
<1>2. CASE Present(w, q)
  <2>1. AtSocketOf(w, q) = q /\ HasGame(w, q)
    BY <1>2, Types DEF HasGame
  <2>2. tell_verdict(w, q) = Notify(w, n, q)
    BY <1>2, <2>1 DEF tell_verdict, game_over
  <2>3. VerdictTo(w, q) = {[notice |-> n, to |-> q]}
    BY <1>2 DEF VerdictTo
  <2> HIDE DEF n
  <2>4. LET v == Notify(w, n, q) IN
         /\ v.player = w.player /\ v.game = w.game /\ v.players = w.players
         /\ v.disconnected_players = w.disconnected_players
         /\ v.sent = w.sent \cup {[notice |-> n, to |-> q]}
    BY NotifyFields
  <2> QED
    BY <2>2, <2>3, <2>4
<1> QED
  BY <1>1, <1>2

\* Of two players who are both there only one has more points.
LEMMA OneWinner ==
  ASSUME NEW w \in World, NEW g \in GameIds, Filled(w, g),
         w.game[g].player1 # w.game[g].player2,
         \A q \in Sits(w, g) : w.player[q].game = g,
         Present(w, w.game[g].player1), Present(w, w.game[g].player2)
  PROVE  ~(/\ Verdict(w, w.game[g].player1) = "WIN"
           /\ Verdict(w, w.game[g].player2) = "WIN")
<1> DEFINE p1 == w.game[g].player1
           p2 == w.game[g].player2
<1>1. /\ p1 \in Objects /\ p2 \in Objects /\ w.player[p1].game = g /\ w.player[p2].game = g
  BY Types DEF Filled, Sits
<1>2. /\ get_opponent(w, w.player[p1].game, p1) = p2
      /\ get_opponent(w, w.player[p2].game, p2) = p1
  BY <1>1 DEF get_opponent
<1> HIDE DEF p1, p2
<1>3. Verdict(w, p1) = "WIN" => w.player[p1].score > w.player[p2].score
  BY <1>2 DEF Verdict, p1, p2
<1>4. Verdict(w, p2) = "WIN" => w.player[p2].score > w.player[p1].score
  BY <1>2 DEF Verdict, p1, p2
<1>5. w.player[p1].score \in Nat /\ w.player[p2].score \in Nat
  BY <1>1, Types
<1>6. ~(Verdict(w, p1) = "WIN" /\ Verdict(w, p2) = "WIN")
  BY <1>3, <1>4, <1>5
<1> QED
  BY <1>6 DEF p1, p2

\* A game that both players have finished, and what keeps it one.
Finale(w, g) ==
  /\ w \in World /\ OneOwner(w) /\ Seated(w)
  /\ g \in w.games /\ w.game[g].state = "FINISHED" /\ Filled(w, g)

LEMMA FinaleAlike ==
  ASSUME NEW w, NEW g, Finale(w, g), NEW v, Alike(w, v)
  PROVE  /\ Finale(v, g)
         /\ v.game[g].player1 = w.game[g].player1
         /\ v.game[g].player2 = w.game[g].player2
<1>1. w \in World /\ g \in GameIds
  BY Types DEF Finale
<1>2. SameBoard(w, v, g) /\ v \in World /\ v.games = w.games
  BY <1>1 DEF Alike
<1>3. OneOwner(v)
  <2>1. w.players \subseteq Objects /\ OneOwner(w)
    BY <1>1, Types DEF Finale
  <2> QED
    BY <2>1 DEF Alike, SamePlayer, OneOwner
<1>4. Seated(v)
  BY <1>1, AlikeSeated DEF Finale
<1>5. Filled(v, g) /\ v.game[g].state = "FINISHED"
  BY <1>2 DEF SameBoard, Filled, Finale
<1> QED
  BY <1>2, <1>3, <1>4, <1>5 DEF Finale, SameBoard

LEMMA BothTold ==
  ASSUME NEW w, NEW g, Finale(w, g), Mute(w)
  PROVE  LET v == tell_both(w, g) IN
         /\ v \in World /\ Mute(v)
         /\ \/ v.crashed
            \/ /\ Finale(v, g)
               /\ v.game[g].player1 = w.game[g].player1
               /\ v.game[g].player2 = w.game[g].player2
<1> DEFINE p1 == w.game[g].player1
           p2 == w.game[g].player2
           u == tell_status(w, p1)
           v == tell_status(u, p2)
<1>1. p1 \in Sits(w, g) /\ p2 \in Sits(w, g) /\ w \in World /\ p2 \in Objects
  BY Types DEF Finale, Filled, Sits
<1>2. u \in World /\ (u.crashed \/ Alike(w, u))
  BY <1>1, FinishedTold DEF Finale
<1>3. Mute(u) /\ Mute(v)
  BY StatusMute
<1> HIDE DEF u
<1>4. v \in World /\ (u.crashed => v.crashed)
  BY <1>1, <1>2, TellCases
<1>5. CASE Alike(w, u)
  <2>1. Finale(u, g) /\ u.game[g].player1 = p1 /\ u.game[g].player2 = p2
    BY <1>5, FinaleAlike
  <2>2. p2 \in Sits(u, g)
    BY <1>1, <2>1 DEF Sits
  <2>3. v.crashed \/ Alike(u, v)
    BY <2>1, <2>2, FinishedTold DEF Finale
  <2> HIDE DEF v
  <2>4. Alike(u, v) => Finale(v, g) /\ v.game[g].player1 = p1 /\ v.game[g].player2 = p2
    BY <2>1, FinaleAlike
  <2> QED
    BY <1>3, <1>4, <2>3, <2>4 DEF tell_both, u, v
<1> QED
  BY <1>2, <1>3, <1>4, <1>5 DEF tell_both, u

\* The two verdicts of a game that both players have finished are right.
LEMMA FinaleJudged ==
  ASSUME NEW w, NEW g, Finale(w, g), Mute(w)
  PROVE  LET v == tell_verdict(tell_verdict(w, w.game[g].player1), w.game[g].player2)
         IN  Judged(v, nullptr)
<1> DEFINE p1 == w.game[g].player1
           p2 == w.game[g].player2
           u == tell_verdict(w, p1)
           v == tell_verdict(u, p2)
<1>1. /\ w \in World /\ g \in GameIds /\ nullptr \notin GameIds /\ nullptr \notin Objects
      /\ p1 \in Objects /\ p2 \in Objects /\ p1 \in Sits(w, g) /\ p2 \in Sits(w, g)
      /\ Sits(w, g) = {p1, p2}
  BY Types DEF Finale, Filled, Sits
<1>2. ASSUME NEW q \in Sits(w, g), Present(w, q)
      PROVE  q \in w.players /\ AtSocketOf(w, q) = q /\ w.player[q].game = g
  BY <1>2, FinishedIsAttended DEF Finale
<1>3. GameAgrees(w, g)
  BY DEF Finale, Seated
<1>4. p1 # p2 /\ \A q \in Sits(w, g) : w.player[q].game = g
  BY <1>3 DEF GameAgrees, Finale
<1>5. w.game[g].state = "FINISHED" /\ Filled(w, g)
  BY DEF Finale
<1>6. ~(/\ Present(w, p1) /\ Verdict(w, p1) = "WIN"
        /\ Present(w, p2) /\ Verdict(w, p2) = "WIN")
  BY <1>1, <1>4, <1>5, OneWinner
<1>7. u \in World
  BY <1>1, VerdictAlike
<1> HIDE DEF p1, p2
<1>8. /\ u.player = w.player /\ u.game = w.game /\ u.players = w.players
      /\ u.disconnected_players = w.disconnected_players
      /\ u.sent = w.sent \cup VerdictTo(w, p1)
  BY <1>1, <1>2, VerdictFields
<1> HIDE DEF u
<1>9. /\ AtSocketOf(u, p2) = AtSocketOf(w, p2) /\ Verdict(u, p2) = Verdict(w, p2)
      /\ Present(u, p2) <=> Present(w, p2)
  BY <1>8 DEF AtSocketOf, get_player_by_fd, Verdict, get_opponent, Present
<1>10. /\ v.player = u.player /\ v.game = u.game /\ v.players = u.players
       /\ v.disconnected_players = u.disconnected_players
       /\ v.sent = u.sent \cup VerdictTo(u, p2)
  BY <1>1, <1>2, <1>7, <1>8, <1>9, VerdictFields
<1>11. VerdictTo(u, p2) = VerdictTo(w, p2)
  BY <1>9 DEF VerdictTo
<1> HIDE DEF v
<1>12. v.sent = (w.sent \cup VerdictTo(w, p1)) \cup VerdictTo(w, p2)
  BY <1>8, <1>10, <1>11
<1>13. ASSUME NEW m \in v.sent, m.notice \in Verdicts
       PROVE  m \in VerdictTo(w, p1) \/ m \in VerdictTo(w, p2)
  BY <1>12, <1>13 DEF Mute
<1>14. \A q, m : m \in VerdictTo(w, q) =>
         Present(w, q) /\ m.to = q /\ m.notice = Verdict(w, q)
                       /\ m = [notice |-> Verdict(w, q), to |-> q]
  BY DEF VerdictTo
<1>15. ASSUME NEW m \in v.sent, m.notice \in Verdicts
       PROVE  /\ m.to \in v.players \ {nullptr}
              /\ v.player[m.to].game \in GameIds
              /\ v.game[v.player[m.to].game].state = "FINISHED"
  <2>1. PICK q \in Sits(w, g) : Present(w, q) /\ m.to = q
    BY <1>1, <1>13, <1>14, <1>15
  <2> QED
    BY <1>1, <1>2, <1>5, <1>8, <1>10, <2>1 DEF Present
<1>16. ASSUME NEW m \in v.sent, NEW n \in v.sent, m.notice = "WIN", n.notice = "WIN"
       PROVE  n = m
  <2>1. m.notice \in Verdicts /\ n.notice \in Verdicts
    BY <1>16 DEF Verdicts
  <2>2. /\ m \in VerdictTo(w, p1) \/ m \in VerdictTo(w, p2)
        /\ n \in VerdictTo(w, p1) \/ n \in VerdictTo(w, p2)
    BY <1>13, <2>1
  <2> QED
    BY <1>6, <1>14, <1>16, <2>2
<1>17. Judged(v, nullptr)
  BY <1>15, <1>16 DEF Judged
<1> QED
  BY <1>17 DEF v, u, p1, p2

LEMMA AnnounceJudged ==
  ASSUME NEW w, Sound(w), Seated(w), Mute(w), NEW g \in w.games,
         w.game[g].state = "FINISHED"
  PROVE  LET v == announce_game_over(w, g) IN v.crashed \/ Judged(v, nullptr)
<1> DEFINE x == [w EXCEPT !.game[g].game_over = FALSE]
           p1 == w.game[g].player1
           p2 == w.game[g].player2
           y == tell_both(x, g)
           z == tell_verdict(y, p1)
           v == tell_verdict(z, p2)
<1>0. /\ w \in World /\ OneOwner(w) /\ g \in GameIds /\ nullptr \notin Objects
      /\ p1 \in Objects \cup {nullptr} /\ p2 \in Objects \cup {nullptr} /\ ~Waits(w, g)
  BY Types DEF Sound, Waits
<1>1. /\ Alike(w, x) /\ Mute(x) /\ x.player = w.player
      /\ x.players = w.players /\ Dropped(x) = Dropped(w)
  <2>1. Alike(w, x)
    BY <1>0, AlikeSelf, FieldsAlike
  <2>2. x.player = w.player
    BY <1>0 DEF World
  <2> QED
    BY <2>1, <2>2, MuteUpdates DEF Alike, Dropped
<1>2. v = announce_game_over(w, g)
  BY DEF announce_game_over
<1> HIDE DEF x
<1>3. /\ x \in World /\ x.game[g].state = "FINISHED" /\ g \in x.games
      /\ x.game[g].player1 = p1 /\ x.game[g].player2 = p2
  BY <1>0, <1>1 DEF Alike, SameBoard
<1>4. OneOwner(x)
  BY <1>0, <1>1 DEF OneOwner
<1>5. y \in World /\ Mute(y)
  <2>1. Keeps(x, y)
    BY <1>0, <1>3, KeepsSelf, TellBothKeeps
  <2> QED
    BY <1>1, <2>1, KeepsType, TellBothMute
<1>6. /\ z \in World /\ v \in World
      /\ y.crashed => z.crashed
      /\ z.crashed => v.crashed
  <2> HIDE DEF y
  <2>1. z \in World /\ (y.crashed => z.crashed)
    BY <1>0, <1>5, VerdictAlike
  <2> HIDE DEF z
  <2> QED
    BY <1>0, <2>1, VerdictAlike
<1> SUFFICES v.crashed \/ Judged(v, nullptr)
  BY <1>2
<1>7. CASE Filled(w, g)
  <2>1. Finale(w, g)
    BY <1>0, <1>7 DEF Finale
  <2>2. Finale(x, g)
    BY <1>1, <2>1, FinaleAlike
  <2>3. \/ y.crashed
        \/ /\ Finale(y, g) /\ y.game[g].player1 = p1 /\ y.game[g].player2 = p2
    BY <1>1, <1>3, <2>2, BothTold
  <2> HIDE DEF y, p1, p2
  <2>4. Finale(y, g) /\ y.game[g].player1 = p1 /\ y.game[g].player2 = p2
          => Judged(v, nullptr)
    BY <1>5, FinaleJudged
  <2> QED
    BY <1>6, <2>3, <2>4
<1>8. CASE p1 = nullptr /\ p2 = nullptr
  <2>1. v = y
    BY <1>8 DEF tell_verdict, Present
  <2> QED
    BY <1>5, <2>1, MuteJudged
<1>9. ASSUME NEW q \in {p1, p2}, q # nullptr, \A o \in {p1, p2} : o = q \/ o = nullptr,
             p1 = nullptr \/ p2 = nullptr
      PROVE  v.crashed \/ Judged(v, nullptr)
  <2>1. q \in Sits(w, g) /\ q \in Objects
    BY <1>0, <1>9 DEF Sits
  <2>2. y = tell_status(x, q)
    BY <1>3, <1>9 DEF tell_both, tell_status, Present
  <2>3. v = tell_verdict(y, q)
    BY <1>9 DEF tell_verdict, Present
  <2>4. /\ OneOwner(y)
        /\ \/ y.crashed
           \/ q \in w.players /\ Alike(x, y)
           \/ q \in Dropped(y) /\ q \notin w.players /\ Dropped(y) = Dropped(x)
    <3> HIDE DEF y
    <3> QED
      BY <1>0, <1>1, <1>3, <1>4, <2>1, <2>2, ToldStays
  <2>5. w.player[q].game = g
    BY <1>0, <2>1, SitsBelongs
  <2>6. v = IF Present(y, q) THEN game_over(y, AtSocketOf(y, q)) ELSE y
    BY <2>3 DEF tell_verdict
  <2> HIDE DEF y, z, v, p1, p2
  <2>7. CASE ~Present(y, q)
    BY <1>5, <2>6, <2>7, MuteJudged
  <2>8. CASE Present(y, q)
    <3>1. CASE y.crashed
      BY <1>6, <3>1
    <3>2. CASE q \in w.players /\ Alike(x, y)
      <4>1. q \in y.players /\ y.player[q].game = g /\ y.game[g].state = "FINISHED"
        BY <1>0, <1>1, <1>3, <2>1, <2>5, <3>2 DEF Alike, SamePlayer, SameBoard
      <4>2. Owed(y, q)
        BY <1>0, <4>1 DEF Owed
      <4> QED
        BY <1>0, <1>5, <2>1, <2>4, <2>6, <2>8, <4>2, OwedVerdict
    <3>3. CASE q \in Dropped(y)
      <4>1. Owed(y, q)
        BY <2>8, <3>3 DEF Owed, Present
      <4> QED
        BY <1>0, <1>5, <2>1, <2>4, <2>6, <2>8, <4>1, OwedVerdict
    <3> QED
      BY <2>4, <3>1, <3>2, <3>3
  <2> QED
    BY <2>7, <2>8
<1>10. CASE ~Filled(w, g) /\ ~(p1 = nullptr /\ p2 = nullptr)
  <2>1. CASE p1 = nullptr /\ p2 # nullptr
    BY <1>9, <2>1
  <2>2. CASE p2 = nullptr /\ p1 # nullptr
    BY <1>9, <2>2
  <2> QED
    BY <1>10, <2>1, <2>2 DEF Filled
<1> QED
  BY <1>7, <1>8, <1>10

-----------------------------------------------------------------------------
(* The steps.                                                              *)

\* VerdictsAreFinal, of a world.
Final(v) ==
  \A m \in v.sent :
    m.notice \in Verdicts =>
      /\ Steady(v) => /\ v.player[m.to].game \in GameIds
                      /\ v.game[v.player[m.to].game].state = "FINISHED"
      /\ \A n \in v.sent : m.notice = "WIN" /\ n.notice = "WIN" => n = m

LEMMA FinalPrime == Final(srv') => VerdictsAreFinal'
BY DEF Final, VerdictsAreFinal, Steady, Dropped, Verdicts, player, game

LEMMA CrashFinal == Final(Crash(InitWorld)) /\ Final(InitWorld)
BY DEF Final, Crash, InitWorld

LEMMA MuteSettles ==
  ASSUME NEW u, Mute(u)
  PROVE  Final(Settle(u))
<1>1. Collect(u).sent = u.sent
  BY DEF Collect, Mute, WorldFieldNames
<1>2. Final(Collect(u))
  BY <1>1 DEF Final, Mute
<1> QED
  BY <1>2, CrashFinal DEF Settle

LEMMA JudgedSettles ==
  ASSUME NEW u \in World, NEW p, u.crashed \/ Judged(u, p)
  PROVE  Final(Settle(u))
<1> DEFINE v == Collect(u)
<1>1. CASE u.crashed
  BY <1>1, CrashFinal DEF Settle
<1>2. CASE ~u.crashed
  <2>1. /\ v \in World /\ SameVectors(u, v)
        /\ \A o \in Objects : v.player[o] = IF o \in Live(u) THEN u.player[o] ELSE NewPlayer(0)
        /\ \A g \in GameIds : v.game[g] = IF g \in LiveGames(u) THEN u.game[g] ELSE NewGame(nullptr)
    BY CollectFields
  <2>2. v.sent = u.sent
    BY DEF Collect, World
  <2> HIDE DEF v
  <2>3. ASSUME NEW o \in Known(u)
        PROVE  /\ v.player[o] = u.player[o]
               /\ u.player[o].game \in GameIds =>
                    v.game[u.player[o].game] = u.game[u.player[o].game]
    <3>1. o \in Objects /\ o \in Live(u) /\ u.player[o].game \in LiveGames(u)
      BY Types DEF Live, LiveGames
    <3> QED
      BY <2>1, <3>1
  <2>4. Steady(v) => Steady(u)
    <3>1. Dropped(v) = Dropped(u)
      BY <2>1 DEF SameVectors, Dropped
    <3>2. \A o \in Dropped(u) : v.player[o] = u.player[o]
      BY <2>3 DEF Known
    <3> QED
      BY <3>1, <3>2 DEF Steady
  <2>5. u.players \subseteq Known(u)
    BY DEF Known
  <2>6. Judged(u, p)
    BY <1>2
  <2>7. ASSUME NEW m \in v.sent, m.notice \in Verdicts
        PROVE  /\ Steady(v) => /\ v.player[m.to].game \in GameIds
                               /\ v.game[v.player[m.to].game].state = "FINISHED"
               /\ \A n \in v.sent : m.notice = "WIN" /\ n.notice = "WIN" => n = m
    <3>1. m \in u.sent
      BY <2>2
    <3>2. ASSUME Steady(v)
          PROVE  /\ v.player[m.to].game \in GameIds
                 /\ v.game[v.player[m.to].game].state = "FINISHED"
      <4>1. /\ m.to \in u.players /\ u.player[m.to].game \in GameIds
            /\ u.game[u.player[m.to].game].state = "FINISHED"
        BY <2>4, <2>6, <2>7, <3>1, <3>2 DEF Judged
      <4> QED
        BY <2>3, <2>5, <4>1
    <3> QED
      BY <2>2, <2>6, <2>7, <3>1, <3>2 DEF Judged
  <2>8. Final(v)
    BY <2>7 DEF Final
  <2> QED
    BY <1>2, <2>8 DEF Settle, v
<1> QED
  BY <1>1, <1>2

LEMMA ClientVerdicts ==
  ASSUME Inv, SeatInv, NEW p \in Objects, Client(p)
  PROVE  VerdictsAreFinal'
<1> DEFINE w == Quiet(srv)
<1>0. /\ Sound(w) /\ Seated(w) /\ w \in World /\ Keeps(w, w) /\ Mute(w)
      /\ w.players = srv.players
  <2>1. Mute(w)
    BY QuietMute DEF Inv, Sound
  <2> HIDE DEF w
  <2> QED
    BY <2>1, QuietSrv DEF w
<1> HIDE DEF w
<1>a. ASSUME NEW u, Serve(p, u), Mute(u)
      PROVE  VerdictsAreFinal'
  BY <1>a, MuteSettles, FinalPrime DEF Serve, Served
<1>b. ASSUME NEW u \in World, Serve(p, u), NEW q, u.crashed \/ Judged(u, q)
      PROVE  VerdictsAreFinal'
  BY <1>b, JudgedSettles, FinalPrime DEF Serve, Served
<1>c. ASSUME NEW u, Serve(p, u)
      PROVE  p \in w.players
  BY <1>0, <1>c DEF Serve
<1>1. CASE Reject(p)
  BY <1>0, <1>1, <1>a, ErrorMute DEF Reject, w
<1>2. CASE NotANumber(p) \/ TooLong(p)
  BY <1>0, <1>2, <1>a, ErrorMute, ObjectMute DEF NotANumber, TooLong, w
<1>3. CASE Alive(p) \/ Hello(p)
  BY <1>0, <1>3, <1>a, ObjectMute DEF Alive, Hello, alive, w
<1>4. CASE \E name \in Names : Login(p, name)
  BY <1>0, <1>4, <1>a, MenuMute DEF Login, w
<1>5. CASE \E name \in Names \cup {NoName} : Reconnect(p, name)
  <2>1. PICK name \in Names \cup {NoName} : Serve(p, reconnect(w, p, name))
    BY <1>5 DEF Reconnect, w
  <2>2. Mute(reconnect(w, p, name))
    BY <1>0, <1>c, <2>1, ReconnectMute
  <2> QED
    BY <1>a, <2>1, <2>2
<1>6. CASE OkResponse(p)
  BY <1>0, <1>6, <1>a DEF OkResponse, w
<1>7. CASE Logout(p)
  <2>1. Serve(p, logout(w, p))
    BY <1>7 DEF Logout, w
  <2>2. logout(w, p).crashed \/ Judged(logout(w, p), nullptr)
    BY <1>0, <1>c, <2>1, LogoutJudged
  <2>3. logout(w, p) \in World
    BY <1>0, LogoutKeeps, KeepsType
  <2> QED
    BY <1>b, <2>1, <2>2, <2>3
<1>8. CASE CreateGame(p) \/ \E g \in GameIds : JoinGame(p, g)
  BY <1>0, <1>8, <1>a, CreateGameMute, JoinGameMute DEF CreateGame, JoinGame, w
<1>9. CASE LeaveGame(p)
  <2>1. Serve(p, leave_game(w, p))
    BY <1>9 DEF LeaveGame, w
  <2>2. leave_game(w, p).crashed \/ Judged(leave_game(w, p), p)
    BY <1>0, <1>c, <2>1, LeaveGameJudged
  <2>3. leave_game(w, p) \in World
    BY <1>0, LeaveGameKeeps, KeepsType
  <2> QED
    BY <1>b, <2>1, <2>2, <2>3
<1>10. CASE ListGames(p) \/ GameStatus(p)
  BY <1>0, <1>10, <1>a, MenuMute, StatusMute DEF ListGames, GameStatus, w
<1>11. CASE \E result \in Result : Reroll(p, result)
  BY <1>0, <1>11, <1>a, RerollMute DEF Reroll, w
<1>12. CASE AcceptEndOfRound(p) \/ Drop(p)
  BY <1>0, <1>12, <1>a, AcceptMute, DropMute DEF AcceptEndOfRound, Drop, w
<1> QED
  BY <1>1, <1>2, <1>3, <1>4, <1>5, <1>6, <1>7, <1>8, <1>9, <1>10, <1>11, <1>12 DEF Client

LEMMA SweepVerdicts ==
  ASSUME Inv, SeatInv,
         \/ \E g \in GameIds :
              AnnounceNewRound(g) \/ AnnounceEndOfRound(g) \/ AnnounceGameOver(g)
         \/ Expire
         \/ Reap
  PROVE  VerdictsAreFinal'
<1> DEFINE w == Quiet(srv)
<1>0. /\ Sound(w) /\ Seated(w) /\ w \in World /\ Keeps(w, w) /\ Mute(w)
      /\ w.games = srv.games /\ w.game = srv.game
      /\ w.disconnected_players = srv.disconnected_players
  <2>1. Mute(w)
    BY QuietMute DEF Inv, Sound
  <2> HIDE DEF w
  <2> QED
    BY <2>1, QuietSrv DEF w
<1> HIDE DEF w
<1>a. ASSUME NEW u, srv' = Settle(u), Mute(u)
      PROVE  VerdictsAreFinal'
  BY <1>a, MuteSettles, FinalPrime
<1>b. ASSUME NEW u \in World, Swept(u), u.crashed \/ Judged(u, nullptr)
      PROVE  VerdictsAreFinal'
  BY <1>b, JudgedSettles, FinalPrime DEF Swept
<1>1. CASE \E g \in GameIds : AnnounceNewRound(g)
  <2>1. PICK g \in GameIds : Swept(tell_both([w EXCEPT !.game[g].is_new_round = FALSE], g))
    BY <1>1 DEF AnnounceNewRound, w
  <2>2. Mute(tell_both([w EXCEPT !.game[g].is_new_round = FALSE], g))
    BY <1>0, MuteUpdates, TellBothMute
  <2> QED
    BY <1>a, <2>1, <2>2 DEF Swept
<1>2. CASE \E g \in GameIds : AnnounceEndOfRound(g)
  <2>1. PICK g \in GameIds : Swept(tell_both([w EXCEPT !.game[g].send_end_of_round = FALSE], g))
    BY <1>2 DEF AnnounceEndOfRound, w
  <2>2. Mute(tell_both([w EXCEPT !.game[g].send_end_of_round = FALSE], g))
    BY <1>0, MuteUpdates, TellBothMute
  <2> QED
    BY <1>a, <2>1, <2>2 DEF Swept
<1>3. CASE \E g \in GameIds : AnnounceGameOver(g)
  <2>1. PICK g \in GameIds : Swept(announce_game_over(w, g)) /\ g \in GamesOver
    BY <1>3 DEF AnnounceGameOver, w
  <2>2. g \in w.games /\ w.game[g].state = "FINISHED"
    BY <1>0, <2>1 DEF GamesOver
  <2>3. announce_game_over(w, g).crashed \/ Judged(announce_game_over(w, g), nullptr)
    BY <1>0, <2>2, AnnounceJudged
  <2>4. announce_game_over(w, g) \in World
    BY <1>0, AnnounceGameOverKeeps, KeepsType
  <2> QED
    BY <1>b, <2>1, <2>3, <2>4
<1>4. CASE Expire
  <2>1. Swept(time_out(w)) /\ w.disconnected_players # << >>
    BY <1>0, <1>4 DEF Expire, MayExpire, w
  <2>2. time_out(w).crashed \/ Judged(time_out(w), nullptr)
    BY <1>0, <2>1, TimeOutJudged
  <2>3. time_out(w) \in World
    BY <1>0, <2>1, TimeOutSound DEF Sound
  <2> QED
    BY <1>b, <2>1, <2>2, <2>3
<1>5. CASE Reap
  <2>1. Mute(delete_empty_games(w))
    BY <1>0, MuteUpdates DEF delete_empty_games
  <2> QED
    BY <1>5, <1>a, <2>1 DEF Reap, w
<1> QED
  BY <1>1, <1>2, <1>3, <1>4, <1>5

LEMMA NextVerdicts ==
  ASSUME Inv, SeatInv, VerdictsAreFinal, [Next]_vars
  PROVE  VerdictsAreFinal'
<1> DEFINE w == Quiet(srv)
<1>0. srv \in World /\ Mute(w)
  BY QuietMute DEF Inv, Sound
<1> HIDE DEF w
<1>1. CASE Select
  <2>1. srv' = w
    BY <1>1 DEF Select, w
  <2>2. Final(w)
    BY <1>0 DEF Mute, Final
  <2> QED
    BY <2>1, <2>2, FinalPrime
<1>2. CASE Exit
  BY <1>2, CrashFinal, FinalPrime DEF Exit
<1>3. CASE Accept
  <2>1. PICK o, fd : srv' = Settle([w EXCEPT !.player[o] = NewPlayer(fd), !.players = @ \cup {o}])
    BY <1>3 DEF Accept, Served, w
  <2> DEFINE x == [w EXCEPT !.player[o] = NewPlayer(fd)]
  <2>2. Mute(x)
    BY <1>0, MuteUpdates
  <2> HIDE DEF x
  <2>3. Mute([x EXCEPT !.players = @ \cup {o}])
    BY <2>2, MuteUpdates
  <2> QED
    BY <2>1, <2>3, MuteSettles, FinalPrime DEF x
<1>4. CASE \E fd \in Sockets : ServeClosed(fd)
  <2>1. srv' = Settle(Crash(srv))
    BY <1>4 DEF ServeClosed, Served
  <2>2. Crash(srv) \in World /\ Crash(srv).crashed
    BY <1>0, AlikeSelf, MemoryAlike DEF Alike
  <2> QED
    BY <2>1, <2>2, JudgedSettles, FinalPrime
<1>5. CASE \E p \in Objects : Client(p)
  BY <1>5, ClientVerdicts
<1>6. CASE \/ \E g \in GameIds :
                AnnounceNewRound(g) \/ AnnounceEndOfRound(g) \/ AnnounceGameOver(g)
           \/ Expire
           \/ Reap
  BY <1>6, SweepVerdicts
<1>7. CASE Stopped \/ UNCHANGED vars
  BY <1>7 DEF Stopped, vars, VerdictsAreFinal, Dropped, player, game
<1> QED
  BY <1>1, <1>2, <1>3, <1>4, <1>5, <1>6, <1>7 DEF Next, Client

\* No step tells two players WIN, and as long as nobody who has dropped is taken
\* for connected nobody is told WIN, LOSS or DRAW of a game that goes on.  Yet
\* leave_match, the timeout and announce_game_over send a verdict to whoever is
\* found at the descriptor of the player it is meant for, and he may have dropped
\* and his descriptor be another's (Server::game_over, called on
\* opponent->socket).
THEOREM VerdictsAreFinalAlways ==
  ASSUME "takeover" \notin Liberties
  PROVE  Spec => []VerdictsAreFinal
<1>1. Init => VerdictsAreFinal
  BY DEF Init, VerdictsAreFinal, InitWorld
<1>2. Inv /\ SeatInv /\ VerdictsAreFinal /\ [Next]_vars => VerdictsAreFinal'
  BY NextVerdicts
<1> QED
  BY <1>1, <1>2, SeatInvariance, PTL DEF Spec
=============================================================================
