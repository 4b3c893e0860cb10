------------------------------- MODULE Session -------------------------------
(***************************************************************************)
(* Clients (module Client) and the server (module Server) joined by the    *)
(* messages they send: a server step takes its command from the connection *)
(* it serves, and what every handler writes on the sockets is what the     *)
(* clients read.                                                           *)
(*                                                                         *)
(* A connection is the Player object accept() makes for it.                *)
(***************************************************************************)
EXTENDS Server

CONSTANTS
  Merging,       \* see module Client
  Free, Rare, MaxRare

ASSUME RareAssumption == MaxRare \in Nat

VARIABLES client, conn, up, down, rare

C == INSTANCE Client WITH Clients <- Names, Connections <- Objects, Lobbies <- GameIds

wires == <<client, conn, up, down, rare>>

svars == <<vars, wires>>

SessionInit == Init /\ C!ClientInit

(***************************************************************************)
(* The session of two players who have just begun their first match: its   *)
(* first round has been announced and nothing is under way.  n hosts it at *)
(* connection p and m has joined it at q.                                  *)
(***************************************************************************)
Greeted(w, p, fd, name) ==
  login(handshake([w EXCEPT !.player[p] = NewPlayer(fd), !.players = @ \cup {p}], p), p, name)

AtMatch(n, m, p, q, g) ==
  LET atBoard == [C!Off EXCEPT !.current_scene = "play", !.has_args = TRUE,
                               !.player_turn = TRUE, !.opponent_turn = TRUE, !.awaiting = ""]
  IN  /\ \E fd, other \in Sockets :
           /\ fd # other
           /\ LET world == Greeted(Greeted(InitWorld, p, fd, n), q, other, m)
                  begun == join_game(create_game(world, p, g), q, g)
              IN  srv = Quiet([begun EXCEPT !.game[g].is_new_round = FALSE])
      /\ read_fds = {} /\ phase = "select"
      /\ client = [c \in Names |->
                     IF c = m THEN [atBoard EXCEPT !.listed_games = {g}]
                     ELSE IF c = n THEN atBoard ELSE C!Off]
      /\ conn = [c \in Names |-> IF c = n THEN p ELSE IF c = m THEN q ELSE nullptr]
      /\ up = [o \in Objects |-> << >>]
      /\ down = [c \in Names |-> << >>]
      /\ rare = 0

MatchInit ==
  \E n, m \in Names, p, q \in Objects, g \in GameIds :
    n # m /\ p # q /\ AtMatch(n, m, p, q, g)

Message(cmd, code) == C!Message(cmd, code)

-----------------------------------------------------------------------------
(* What the server reads.                                                  *)

\* One read takes all bytes that have arrived, up to the end of the connection;
\* what two sends have brought is one text.
Arrived(o) ==
  IF up[o][1] = C!EOF \/ "to_server" \notin Merging THEN 1
  ELSE Cardinality({i \in 1 .. Len(up[o]) : \A j \in 1 .. i : up[o][j] # C!EOF})

\* The command of a text: its first word.  Two words run together are no command,
\* but what follows a number is not looked at (std::stoi), unless it brings
\* parameters of its own.
unknown == "UNKNOWN"

Commanded(o) ==
  LET first == up[o][1]
      HasParameter(r) == r.cmd \in {"REROLL", "JOIN_GAME", "LOGIN", "RECONNECT"}
      plain == \A i \in 2 .. Arrived(o) : ~HasParameter(up[o][i])
  IN  IF Arrived(o) = 1 \/ (first.cmd \in {"REROLL", "JOIN_GAME"} /\ plain)
        THEN first ELSE C!Ask(unknown)

-----------------------------------------------------------------------------
(* What the server writes.  Mail is what one step sends to every client, in *)
(* order.  The code sends to a descriptor: mail for the Player object o     *)
(* reaches the client on the connection that has o's descriptor, which need *)
(* not be o's own once o has dropped.                                       *)

Reaches(o, n) == o # nullptr /\ conn[n] # nullptr /\ AtSocketOf(srv, o) = conn[n]

nothing == [n \in Names |-> << >>]

To(o, m) == [n \in Names |-> IF Reaches(o, n) THEN <<m>> ELSE << >>]

first ++ second == [n \in Names |-> first[n] \o second[n]]

Opponent(w, o) ==
  IF w.player[o].game = nullptr THEN nullptr ELSE get_opponent(w, w.player[o].game, o)

\* Slip: the two flags in the order of the opponent.
Status_of_opponent(w, o) ==
  LET q == Opponent(w, o)
  IN  IF w.player[o].state # "IN_GAME" \/ q = nullptr THEN Message("GAME_STATUS", "ERR")
      ELSE [Message("GAME_STATUS", "OK") EXCEPT
              !.player_turn = w.player[q].can_play,
              !.opponent_turn = w.player[o].can_play]

Status(w, o) ==
  LET q == Opponent(w, o)
  IN  IF w.player[o].state # "IN_GAME" \/ q = nullptr THEN Message("GAME_STATUS", "ERR")
      ELSE [Message("GAME_STATUS", "OK") EXCEPT
              !.player_turn = w.player[o].can_play,
              !.opponent_turn = w.player[q].can_play]

\* "game_status(o->socket, {})" looks up who is connected there now: his status is
\* sent, and if he is in no match it is an error of his.
StatusTo(w, o) ==
  LET r == AtSocketOf(w, o)
  IN  IF ~Present(w, o) \/ r = nullptr THEN nothing
      ELSE To(o, Status(w, r))
             ++ IF r \in srv'.players THEN nothing ELSE To(o, Message("KICKED", ""))

\* The handler has counted an error.
Refused(o) ==
  \/ o \notin srv'.players
  \/ srv'.player[o].number_of_error_messages > srv.player[o].number_of_error_messages

\* Slip: a refusal is counted and not sent.
Answer_if_accepted(o, cmd) == IF ~Refused(o) THEN To(o, Message(cmd, "OK")) ELSE nothing

\* Slip: what is no command is not answered.
Answer_if_known(o, cmd) ==
  IF ~Refused(o) THEN To(o, Message(cmd, "OK"))
  ELSE IF cmd = "CMD" THEN nothing
  ELSE To(o, Message(cmd, "ERR"))
         ++ IF o \in srv'.players THEN nothing ELSE To(o, Message("KICKED", ""))

\* The reply to a command and, after the last error, the farewell.
Answer(o, cmd) ==
  IF ~Refused(o) THEN To(o, Message(cmd, "OK"))
  ELSE To(o, Message(cmd, "ERR"))
         ++ IF o \in srv'.players THEN nothing ELSE To(o, Message("KICKED", ""))

\* The notice every handler's model keeps in w.sent, for the opponent.
Noticed(o, notice) ==
  IF [notice |-> notice, to |-> o] \in srv'.sent THEN To(o, Message(notice, "OK")) ELSE nothing

\* game_over(o->socket), likewise.
Verdicts(o) ==
  IF o # nullptr /\ \E m \in srv'.sent : /\ m.to = AtSocketOf(srv, o)
                                        /\ m.notice \in {"WIN", "LOSS", "DRAW"}
    THEN To(o, Message("GAME_OVER", "OK")) ELSE nothing

\* Whoever leaves a match sends his opponent its status first and then the end.
LeftMail(o) ==
  LET q == Opponent(srv, o)
  IN  StatusTo(srv, q) ++ To(o, Message("LEAVE_GAME", "OK"))
        ++ Noticed(q, "LEAVE_GAME_OPPONENT") ++ Verdicts(q)

MayLeave(o) == srv.player[o].state \in {"IN_LOBBY", "IN_GAME"}

LeaveMail(o) == IF MayLeave(o) THEN LeftMail(o) ELSE Answer(o, "LEAVE_GAME")

LogoutMail(o) ==
  (IF srv.player[o].game = nullptr THEN nothing
   ELSE IF MayLeave(o) THEN LeftMail(o) ELSE To(o, Message("LEAVE_GAME", "ERR")))
    ++ To(o, Message("GOODBYE", ""))

RerollMail(o) == Answer(o, "REROLL") ++ Noticed(Opponent(srv, o), "REROLL_OPPONENT")

JoinMail(o, g) ==
  Answer(o, "JOIN_GAME")
    ++ IF Refused(o) THEN nothing ELSE Noticed(srv.game[g].player1, "JOIN_GAME")

ListMail(o) ==
  IF Refused(o) THEN Answer(o, "LIST_GAMES")
  ELSE To(o, [Message("LIST_GAMES", "OK") EXCEPT
                !.listed = {g \in srv.games : srv.game[g].state = "WAITING_FOR_PLAYERS"}])

LoginMail(o) ==
  IF Refused(o) \/ srv'.player[o].logged_in THEN Answer(o, "LOGIN")
  ELSE To(o, Message("NAME_TAKEN", "ERR"))

\* A game whose other seat is empty is left at once, and LEAVE_GAME|OK follows
\* the reply.
ReconnectMail(o, name) ==
  IF Refused(o) THEN Answer(o, "RECONNECT")
  ELSE LET k == CHOOSE k \in DroppedAs(srv, name) : TRUE
           p == srv.disconnected_players[k]
           q == Opponent(srv, p)
           reply == Answer(o, "RECONNECT")
       IN  IF srv.player[p].game = nullptr THEN reply
           ELSE IF q = nullptr THEN reply ++ To(o, Message("LEAVE_GAME", "OK"))
           ELSE To(q, Message("OPPONENT_RECONNECTED", "")) ++ reply
                  ++ To(o, Status(srv', o))

DropMail(o) == Noticed(Opponent(srv, o), "OPPONENT_DISCONNECTED")

\* Slip: the host only is told.
StatusMail_to_host(g) == StatusTo(srv, srv.game[g].player1)

\* The announcements of the sweep, to both seats in their order.
StatusMail(g) == StatusTo(srv, srv.game[g].player1) ++ StatusTo(srv, srv.game[g].player2)

VerdictMail(g) == Verdicts(srv.game[g].player1) ++ Verdicts(srv.game[g].player2)

ExpireMail ==
  LET q == Opponent(srv, Head(srv.disconnected_players))
  IN  StatusTo(srv, q) ++ Verdicts(q)

-----------------------------------------------------------------------------
(* Delivery.                                                               *)

\* The server has closed the connection of client n in this step, or died.
ClosedFor(n) == conn[n] # nullptr /\ conn[n] \in srv.players \ srv'.players

\* A server that dies in a step says nothing in it.
Delivered(mail) ==
  /\ down' = [n \in Names |->
       down[n] \o (IF srv'.crashed THEN << >> ELSE mail[n])
               \o (IF ClosedFor(n) THEN <<C!EOF>> ELSE << >>)]
  /\ conn' = [n \in Names |-> IF ClosedFor(n) THEN nullptr ELSE conn[n]]
  /\ UNCHANGED <<client, rare>>

-----------------------------------------------------------------------------
(* Steps of the server.                                                    *)

Connecting == {n \in Names : client[n].awaiting = "connect"}

\* The descriptors select() finds readable: all of them.
Readable ==
  (IF Connecting # {} /\ Room THEN {server_socket} ELSE {})
    \cup {srv.player[o].socket : o \in {p \in srv.players : up[p] # << >>}}

\* A turn in which there is nothing to read is one in which somebody may time
\* out; others change nothing.
HasWork == Running /\ (phase = "select" => Readable # {} \/ srv.disconnected_players # << >>)

SelectReady ==
  /\ HasWork
  /\ Select /\ read_fds' = Readable
  /\ UNCHANGED wires

AcceptClient ==
  /\ Accept
  /\ \E n \in Connecting, o \in srv'.players \ srv.players :
       C!Connected(n, o)
  /\ UNCHANGED <<down, rare>>

\* What a closed connection still holds is lost.
Took(o) ==
  up' = [p \in Objects |-> IF p \notin srv'.players THEN << >>
                           ELSE IF p = o THEN SubSeq(up[p], Arrived(p) + 1, Len(up[p]))
                           ELSE up[p]]

\* The command on connection o is handled and mail is sent.
Handled(o, mail) == Took(o) /\ Delivered(mail)

Handle(o) ==
  /\ o \in srv.players /\ up[o] # << >>
  /\ LET request == Commanded(o)
         cmd     == request.cmd
     IN  \/ cmd = "HELLO" /\ Hello(o) /\ Handled(o, Answer(o, "HELLO"))
         \/ cmd = "LOGIN" /\ Login(o, request.arg) /\ Handled(o, LoginMail(o))
         \/ /\ cmd = "RECONNECT" /\ Reconnect(o, request.arg)
            /\ Handled(o, ReconnectMail(o, request.arg))
         \/ cmd = "OK" /\ OkResponse(o) /\ Handled(o, nothing)
         \/ cmd = unknown /\ Reject(o) /\ Handled(o, Answer(o, "CMD"))
         \/ cmd = "LOGOUT" /\ Logout(o) /\ Handled(o, LogoutMail(o))
         \/ cmd = "CREATE_GAME" /\ CreateGame(o) /\ Handled(o, Answer(o, cmd))
         \/ /\ cmd = "JOIN_GAME" /\ JoinGame(o, request.arg)
            /\ Handled(o, JoinMail(o, request.arg))
         \/ cmd = "LEAVE_GAME" /\ LeaveGame(o) /\ Handled(o, LeaveMail(o))
         \/ cmd = "LIST_GAMES" /\ ListGames(o) /\ Handled(o, ListMail(o))
         \/ /\ cmd = "REROLL" /\ \E result \in Result : Reroll(o, result)
            /\ Handled(o, RerollMail(o))
         \/ /\ cmd = "ACCEPT_END_OF_ROUND" /\ AcceptEndOfRound(o)
            /\ Handled(o, Answer(o, cmd))
         \/ request = C!EOF /\ Drop(o) /\ Handled(o, DropMail(o))

Sweep ==
  /\ \/ \E g \in GameIds :
          \/ AnnounceNewRound(g) /\ Delivered(StatusMail(g))
          \/ AnnounceEndOfRound(g) /\ Delivered(StatusMail(g))
          \/ AnnounceGameOver(g) /\ Delivered(StatusMail(g) ++ VerdictMail(g))
     \/ Expire /\ Delivered(ExpireMail)
     \/ Reap /\ Delivered(nothing)
  /\ UNCHANGED up

ServerStep == SelectReady \/ AcceptClient \/ (\E o \in Objects : Handle(o)) \/ Sweep

-----------------------------------------------------------------------------

\* A client receives what it waits for, or what there is.
Receive(n) ==
  /\ \/ C!Read(n) \/ C!ReadEnd(n) \/ C!Reply(n) \/ C!Handshake(n)
     \/ C!Reset(n)
  /\ UNCHANGED vars

\* Bound: nobody asks for a game while the model has no id left for it.
IdsLeft ==
  LET asked == {o \in Objects : \E i \in DOMAIN up[o] : up[o][i].cmd = "CREATE_GAME"}
      clicked == {n \in Names : client[n].gui_input.cmd = "CREATE_GAME"}
  IN  Cardinality(LiveGames(srv) \ {nullptr}) + Cardinality(asked) + Cardinality(clicked)
        <= Cardinality(GameIds)

ClientStep(n) ==
  \/ Receive(n)
  \/ (C!Start(n) \/ C!Click(n) \/ C!Quit(n) \/ C!Cut(n)) /\ UNCHANGED vars

SessionNext == ServerStep \/ \E n \in Names : ClientStep(n) /\ IdsLeft'

SessionSpec == SessionInit /\ [][SessionNext]_svars

MatchSpec == MatchInit /\ [][SessionNext]_svars

(***************************************************************************)
(* The server's thread keeps running as long as there is something to do,  *)
(* and the thread of every client as long as there is something to receive.*)
(* Nothing is assumed of the players: nobody has to start, click or come   *)
(* back.  The first conjunct is WF_svars(ServerStep) with ENABLED written  *)
(* out, as in Server!Fairness.                                             *)
(***************************************************************************)
SessionFairness ==
  /\ []<>~HasWork \/ []<><<ServerStep>>_svars
  /\ \A n \in Names : WF_svars(Receive(n))

FairSession == SessionSpec /\ SessionFairness
=============================================================================
