-------------------------- MODULE SessionProperties --------------------------
(***************************************************************************)
(* What a player at a client of module Session may rely on.                *)
(***************************************************************************)
EXTENDS Session

SessionTypeOK ==
  /\ client \in [Names -> C!ClientState]
  /\ conn \in [Names -> Objects \cup {nullptr}]
  /\ \A o \in Objects : \A i \in DOMAIN up[o] : up[o][i] \in C!Request
  /\ rare \in 0 .. MaxRare

\* Nothing is under way: all messages are read and all rounds announced.
Settled ==
  /\ phase = "select"
  /\ \A n \in Names : down[n] = << >> /\ client[n].awaiting \in {"", "off"}
  /\ \A o \in srv.players : up[o] = << >>

Board(n) == srv.player[conn[n]].game

\* Client n shows the match its player sits in, with both players there.
AtBoard(n) ==
  /\ client[n].current_scene = "play" /\ client[n].has_args
  /\ conn[n] # nullptr /\ srv.player[conn[n]].state = "IN_GAME"
  /\ srv.game[Board(n)].state = "PLAYING"
  /\ Present(srv, get_opponent(srv, Board(n), conn[n]))

\* What client n shows of its own turn is what the server holds it to be: no
\* GAME_STATUS is lost or taken for a reply when two players roll and accept at
\* the same time (client.py:364-397 and the global player_turn, reroll).
TurnIsShown ==
  Settled => \A n \in Names :
    AtBoard(n) => client[n].player_turn = srv.player[conn[n]].can_play

\* A click that client n can make and the server will not refuse.
MayGoOn(n) ==
  \E click \in C!Clicks(client[n]) :
    /\ C!Sends(client[n], click)
    /\ \/ click.cmd = "REROLL" /\ srv.player[conn[n]].can_play
       \/ /\ click.cmd = "ACCEPT_END_OF_ROUND"
          /\ srv.game[Board(n)].is_end_round
          /\ ~srv.player[conn[n]].accepted_end_of_round

\* What client n remembers of having accepted the end of the round is true.
RemembersAcceptance(n) ==
  client[n].accepted_end_of_round => srv.player[conn[n]].accepted_end_of_round

\* Two players at the board of a match are never both waiting for the other: one
\* of them has a button that the server will take, after rolls and acceptances
\* in any order and before or after the announcements of the sweep, unless a
\* client believes that it has accepted the end of the round and has not (see
\* SomebodyMayGoOn).
RoundGoesOn ==
  Settled => \A n, m \in Names :
    /\ n # m /\ AtBoard(n) /\ AtBoard(m) /\ Board(n) = Board(m)
    /\ RemembersAcceptance(n) /\ RemembersAcceptance(m)
    => MayGoOn(n) \/ MayGoOn(m)

IsWaiting(n) == client[n].awaiting \in C!Command \cup {"HELLO", "LOGIN", "RECONNECT"}

\* A client never waits for a reply that nobody will send: as long as it waits,
\* its command is on the way to the server or a message, or the end of the
\* connection, is on the way back (every handler answers, through drops, kicks
\* and GOODBYE, or the connection is closed).
ReplyIsUnderWay ==
  \A n \in Names : IsWaiting(n) =>
    \/ down[n] # << >>
    \/ conn[n] # nullptr /\ up[conn[n]] # << >>

\* A client that offers its player a roll offers one the server will take, even
\* after connections were lost and replies taken for others.
OfferedRollIsOpen ==
  Settled => \A n \in Names :
    AtBoard(n) /\ client[n].player_turn => srv.player[conn[n]].can_play

-----------------------------------------------------------------------------
(* Liveness, under SessionFairness.                                        *)

\* Every command is answered in the end: a client that waits for a reply goes on,
\* whatever the other players do (the blocking recv of client.py).
EveryCommandIsAnswered ==
  \A n \in Names : IsWaiting(n) ~> ~IsWaiting(n)

-----------------------------------------------------------------------------
(* What the documentation says and the code does not do.                   *)

\* "The player with three rounds won, wins the game" (README.md:11): as long as
\* two players sit at the board of a match, one of them can go on with it.  The
\* buttons of the two clients and the flags of the server would never leave both
\* waiting for the other, but accepted_end_of_round of the client is set by any
\* reply to ACCEPT_END_OF_ROUND (client.py:210-215), a refusal of the new round
\* among them, and then nothing is left that the server would take.
SomebodyMayGoOn ==
  Settled => \A n, m \in Names :
    n # m /\ AtBoard(n) /\ AtBoard(m) /\ Board(n) = Board(m)
    => MayGoOn(n) \/ MayGoOn(m)

\* "LEAVE_GAME|OK" is the reply to LEAVE_GAME (README.md:201-215): a player who has
\* left his match is not shown it any more.  client.py:179-183 compares with that
\* text what it receives next, which may be a notice that was on the way.
LeftMatchIsNotShown ==
  Settled => \A n \in Names :
    conn[n] # nullptr /\ client[n].current_scene = "play" =>
      srv.player[conn[n]].state # "IN_MAIN_MENU"

\* "C -> S: RECONNECT|<nickname>", "S -> C: RECONNECT|OK or
\* RECONNECT|ERR|<error_message>" (README.md:147-161).
ReconnectIsAnswered ==
  \A n \in Names :
    client[n].awaiting = "RECONNECT" /\ down[n] # << >> =>
      Head(down[n]).cmd \in {"RECONNECT", "EOF"}
=============================================================================
