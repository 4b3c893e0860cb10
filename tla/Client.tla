------------------------------- MODULE Client -------------------------------
(***************************************************************************)
(* The client of Zappe (client/client.py) and the clicks its scenes allow  *)
(* (client/gui/gui_scenes.py): one thread that reads a message if there is *)
(* one, acts on what was clicked in the last frame and draws the next.     *)
(*                                                                         *)
(* A command blocks the thread until something can be received, and        *)
(* whatever that is is taken for the reply.  Messages the loop does not    *)
(* know, a late reply among them, are ignored.                             *)
(*                                                                         *)
(* down[n] is what the server has sent client n and up[o] what has been    *)
(* sent on connection o, both in order.  TCP keeps no boundaries between   *)
(* messages: module Session says what a server makes of two of them.       *)
(***************************************************************************)
EXTENDS Integers, Sequences

CONSTANTS
  Clients,       \* the nicknames of the clients
  Connections,   \* connections there may be at one time
  Lobbies,       \* ids of games
  nullptr,       \* no connection, no parameter
  Merging,       \* where two messages may be received as one
  Free,          \* what players do or suffer: their clicks, "start", "quit", "cut"
  Rare,          \* what they do or suffer at most MaxRare times in all
  MaxRare

(***************************************************************************)
(* Merging says where:                                                     *)
(*   "to_client"  one recv(1024) of the client returns several messages;   *)
(*   "to_server"  the server reads all bytes that have arrived at once.    *)
(***************************************************************************)
VARIABLES
  client,        \* the state of each client
  conn,          \* the connection of each client, nullptr when it has none
  up,            \* messages to the server, per connection
  down,          \* messages to the client, per client
  rare           \* how often something of Rare has happened

clientVars == <<client, conn, up, down, rare>>

Scene == {"main_menu", "waiting_for_opponent", "list_of_games", "play", "disconnected"}

Command == {"CREATE_GAME", "LIST_GAMES", "JOIN_GAME", "LEAVE_GAME", "REROLL",
            "ACCEPT_END_OF_ROUND", "LOGOUT"}

\* What is sent to the server; EOF is the end of the connection.
Request == [cmd : Command \cup {"HELLO", "LOGIN", "RECONNECT", "OK", "EOF"},
            arg : Lobbies \cup Clients \cup {nullptr}]

Ask(cmd) == [cmd |-> cmd, arg |-> nullptr]

EOF == Ask("EOF")

\* What is sent to a client.  The fields after code are those of GAME_STATUS and
\* of LIST_GAMES.
Message(cmd, code) ==
  [cmd |-> cmd, code |-> code, player_turn |-> FALSE, opponent_turn |-> FALSE,
   listed |-> {}]

\* gui_input is what was clicked and not acted on yet: BACK_TO_MAIN_MENU changes
\* the scene only, and nothing is the frame in which nobody clicked.
nothing == Ask("")
back    == Ask("BACK_TO_MAIN_MENU")

(***************************************************************************)
(* The globals of client.py.  awaiting is the command whose reply the      *)
(* thread is blocked for, connect while it waits for a connection, off     *)
(* when the process does not run.  has_args says that args holds the nine  *)
(* values of scene play, without which it draws nothing and sees no click. *)
(* game_over is kept as whether there is a text.  The scores are left out: *)
(* client.py:379-384 compares them, strings, with the number 3.            *)
(***************************************************************************)
ClientState ==
  [current_scene : Scene, listed_games : SUBSET Lobbies, player_turn : BOOLEAN,
   opponent_turn : BOOLEAN, accepted_end_of_round : BOOLEAN, game_over : BOOLEAN,
   has_args : BOOLEAN, gui_input : [cmd : Command \cup {"", "BACK_TO_MAIN_MENU"},
                                    arg : Lobbies \cup {nullptr}],
   awaiting : Command \cup {"", "off", "connect", "HELLO", "LOGIN", "RECONNECT"}]

Off == [current_scene |-> "main_menu", listed_games |-> {}, player_turn |-> FALSE,
        opponent_turn |-> FALSE, accepted_end_of_round |-> FALSE,
        game_over |-> FALSE, has_args |-> FALSE, gui_input |-> nothing,
        awaiting |-> "off"]

ClientInit ==
  /\ client = [n \in Clients |-> Off]
  /\ conn = [n \in Clients |-> nullptr]
  /\ up = [o \in Connections |-> << >>]
  /\ down = [n \in Clients |-> << >>]
  /\ rare = 0

-----------------------------------------------------------------------------
(* What can be clicked in each scene.                                      *)

Clicks(view) ==
  CASE view.current_scene = "main_menu" ->
         {Ask("CREATE_GAME"), Ask("LIST_GAMES"), Ask("LOGOUT")}
    [] view.current_scene = "waiting_for_opponent" -> {Ask("LEAVE_GAME")}
    [] view.current_scene = "list_of_games" ->
         {back} \cup {[cmd |-> "JOIN_GAME", arg |-> g] : g \in view.listed_games}
    [] view.current_scene = "play" /\ view.has_args ->
         {Ask("LEAVE_GAME")}
           \cup (IF view.player_turn /\ ~view.game_over THEN {Ask("REROLL")} ELSE {})
           \cup (IF ~view.player_turn /\ ~view.opponent_turn /\ ~view.game_over
                   THEN {Ask("ACCEPT_END_OF_ROUND")} ELSE {})
    [] OTHER -> {}

-----------------------------------------------------------------------------
(* process_gui_input: each command changes the view before it is sent.     *)

\* Slip: BACK_TO_MAIN_MENU is sent like any other input.
Sends_back(view, click) ==
  /\ click # nothing
  /\ click.cmd = "ACCEPT_END_OF_ROUND" => ~view.accepted_end_of_round

Sends(view, click) ==
  /\ click \notin {nothing, back}
  /\ click.cmd = "ACCEPT_END_OF_ROUND" => ~view.accepted_end_of_round

\* Slip: reroll() does not clear the turn.
Processed_keeping_turn(view, click) ==
  LET v == [view EXCEPT !.gui_input = nothing]
  IN  IF click = back THEN [v EXCEPT !.current_scene = "main_menu", !.has_args = FALSE]
      ELSE IF ~Sends(view, click) THEN v
      ELSE [v EXCEPT !.awaiting = click.cmd, !.game_over = @ /\ click.cmd # "LEAVE_GAME"]

Processed(view, click) ==
  LET v == [view EXCEPT !.gui_input = nothing]
      u == [v EXCEPT !.awaiting = click.cmd]
  IN  IF click = back THEN [v EXCEPT !.current_scene = "main_menu", !.has_args = FALSE]
      ELSE IF ~Sends(view, click) THEN v
      ELSE CASE click.cmd = "LEAVE_GAME" -> [u EXCEPT !.game_over = FALSE]
             [] click.cmd = "REROLL"     -> [u EXCEPT !.player_turn = FALSE]
             [] OTHER                    -> u

Sent(view, click) == IF Sends(view, click) THEN <<click>> ELSE << >>

-----------------------------------------------------------------------------
(* A message read by the loop.  merged: another one was received with it.  *)

\* "send_and_log(client_socket, "OK")"
IsAcknowledged(m, merged) ==
  \/ m.cmd \in {"REROLL_OPPONENT", "GAME_OVER"}
  \/ m.cmd \in {"OPPONENT_DISCONNECTED", "OPPONENT_RECONNECTED"} /\ ~merged

Noticed(view, m) ==
  CASE m.cmd = "JOIN_GAME" /\ m.code = "OK" ->
         [view EXCEPT !.current_scene = "play", !.has_args = FALSE]
    [] m.cmd = "GAME_STATUS" /\ m.code = "OK" ->
         LET fresh == m.player_turn /\ m.opponent_turn
         IN  [view EXCEPT !.current_scene = "play", !.has_args = TRUE,
                          !.player_turn = m.player_turn,
                          !.opponent_turn = m.opponent_turn,
                          !.accepted_end_of_round = @ /\ ~fresh,
                          !.game_over = @ /\ ~fresh]
    [] m.cmd = "REROLL_OPPONENT" -> [view EXCEPT !.opponent_turn = FALSE, !.has_args = TRUE]
    [] m.cmd = "GAME_OVER"       -> [view EXCEPT !.game_over = TRUE, !.has_args = TRUE]
    [] m.cmd \in {"OPPONENT_DISCONNECTED", "OPPONENT_RECONNECTED"} ->
         [view EXCEPT !.has_args = TRUE]
    [] OTHER -> view

\* int() of a last field that another message follows raises what nobody
\* catches.
Raises(m, merged) ==
  merged /\ m.code = "OK" /\ m.cmd \in {"REROLL_OPPONENT", "REROLL", "CREATE_GAME"}

-----------------------------------------------------------------------------
(* A message taken for the reply to the command awaited.                   *)

Is(m, cmd) == m.cmd = cmd /\ m.code = "OK"

Replied(view, m, merged) ==
  LET v == [view EXCEPT !.awaiting = ""]
  IN  CASE view.awaiting = "CREATE_GAME" ->
             [v EXCEPT !.current_scene = IF Is(m, "CREATE_GAME")
                                           THEN "waiting_for_opponent" ELSE @,
                       !.has_args = FALSE]
        [] view.awaiting = "LIST_GAMES" ->
             [v EXCEPT !.current_scene = IF Is(m, "LIST_GAMES") THEN "list_of_games" ELSE @,
                       !.listed_games = IF Is(m, "LIST_GAMES") THEN m.listed ELSE @,
                       !.has_args = FALSE]
        [] view.awaiting = "JOIN_GAME" /\ Is(m, "JOIN_GAME") ->
             [v EXCEPT !.current_scene = "play", !.has_args = FALSE]
        [] view.awaiting = "JOIN_GAME" /\ m.cmd = "JOIN_GAME" /\ m.code = "ERR" ->
             [v EXCEPT !.awaiting = "LIST_GAMES"]
        [] view.awaiting = "LEAVE_GAME" /\ Is(m, "LEAVE_GAME") /\ ~merged ->
             [v EXCEPT !.current_scene = "main_menu", !.has_args = FALSE]
        [] view.awaiting = "REROLL" /\ Is(m, "REROLL") -> [v EXCEPT !.has_args = TRUE]
        [] view.awaiting = "ACCEPT_END_OF_ROUND" ->
             [v EXCEPT !.accepted_end_of_round = TRUE]
        [] OTHER -> v

RepliedSends(view, m) ==
  IF view.awaiting = "JOIN_GAME" /\ m.cmd = "JOIN_GAME" /\ m.code = "ERR"
    THEN <<Ask("LIST_GAMES")>> ELSE << >>

-----------------------------------------------------------------------------
(* The steps of client n.                                                  *)

\* What is sent on a connection that is lost goes nowhere.
Said(n, requests) ==
  IF conn[n] = nullptr THEN up ELSE [up EXCEPT ![conn[n]] = @ \o requests]

Becomes(n, view, requests) ==
  /\ client' = [client EXCEPT ![n] = view]
  /\ up' = Said(n, requests)

\* sys.exit, or an exception nobody catches.
Exits(n, requests) ==
  /\ Becomes(n, Off, Append(requests, EOF))
  /\ conn' = [conn EXCEPT ![n] = nullptr]
  /\ down' = [down EXCEPT ![n] = << >>]

\* The lengths of what one recv may return: the end of the connection is
\* received alone.
Received(n) ==
  {k \in 1 .. Len(down[n]) :
     k > 1 => "to_client" \in Merging /\ \A i \in 1 .. k : down[n][i] # EOF}

Rest(n, k) == [down EXCEPT ![n] = SubSeq(@, k + 1, Len(@))]

\* Somebody does, or suffers, what the bounds allow.
Happens(kind) ==
  \/ kind \in Free /\ UNCHANGED rare
  \/ kind \in Rare /\ rare < MaxRare /\ rare' = rare + 1

Clicked(click) == IF click = nothing THEN UNCHANGED rare ELSE Happens(click.cmd)

Start(n) ==
  /\ client[n].awaiting = "off" /\ Happens("start")
  /\ client' = [client EXCEPT ![n].awaiting = "connect"]
  /\ UNCHANGED <<conn, up, down>>

\* connect() has succeeded: handshake_and_login begins.
Connected(n, o) ==
  /\ client' = [client EXCEPT ![n].awaiting = "HELLO"]
  /\ conn' = [conn EXCEPT ![n] = o]
  /\ up' = [up EXCEPT ![o] = <<Ask("HELLO")>>]

InLoop(n) == client[n].awaiting = ""

\* The list draws the values it is given, and drawing those of a match raises
\* what nobody catches.
CannotDraw(view) ==
  view.awaiting = "" /\ view.current_scene = "list_of_games" /\ view.has_args

\* A turn of the loop in which nothing could be read.
Click(n) ==
  /\ InLoop(n)
  /\ \E click \in Clicks(client[n]) :
       /\ Sends(client[n], click) \/ click = back
       /\ Clicked(click)
       /\ Becomes(n, Processed(client[n], click), Sent(client[n], click))
  /\ UNCHANGED <<conn, down>>

\* A turn of the loop that reads: what was clicked in the frame before is acted
\* on after the message, whatever the message has changed.
Read(n) ==
  /\ InLoop(n) /\ down[n] # << >> /\ Head(down[n]) # EOF
  /\ \E k \in Received(n), click \in Clicks(client[n]) \cup {nothing} :
       LET m    == Head(down[n])
           view == Noticed(client[n], m)
           next == Processed(view, click)
           ok   == IF IsAcknowledged(m, k > 1) THEN <<Ask("OK")>> ELSE << >>
       IN  /\ Clicked(click)
           /\ IF Raises(m, k > 1) \/ CannotDraw(next) THEN Exits(n, ok)
              ELSE /\ Becomes(n, next, ok \o Sent(view, click))
                   /\ down' = Rest(n, k)
                   /\ UNCHANGED conn

\* The server has closed the connection: the client connects again.
ReadEnd(n) ==
  /\ InLoop(n) /\ down[n] # << >> /\ Head(down[n]) = EOF
  /\ \E click \in Clicks(client[n]) \cup {nothing} :
       /\ Clicked(click)
       /\ client' = [client EXCEPT ![n] = [@ EXCEPT !.current_scene = "disconnected",
                                                 !.awaiting = "connect",
                                                 !.gui_input = click]]
  /\ down' = [down EXCEPT ![n] = << >>]
  /\ UNCHANGED <<conn, up>>

\* The blocking recv of a command: the end of the connection is an empty reply
\* that the next recv will see again.
Reply(n) ==
  /\ client[n].awaiting \in Command /\ down[n] # << >>
  /\ \E k \in Received(n) :
       LET m    == Head(down[n])
           view == Replied(client[n], m, k > 1)
       IN  IF client[n].awaiting = "LOGOUT" \/ Raises(m, k > 1) \/ CannotDraw(view)
             THEN Exits(n, << >>)
           ELSE /\ Becomes(n, view, RepliedSends(client[n], m))
                /\ down' = IF m = EOF THEN down ELSE Rest(n, k)
                /\ UNCHANGED conn
  /\ UNCHANGED rare

\* handshake_and_login compares whole replies; whatever was clicked before the
\* connection was lost is acted on after it.
Handshake(n) ==
  LET awaiting  == client[n].awaiting
      m         == Head(down[n])
      asks(cmd) == /\ Becomes(n, [client[n] EXCEPT !.awaiting = cmd],
                              <<[cmd |-> cmd, arg |-> n]>>)
                   /\ UNCHANGED conn
      done(view) == LET v == [view EXCEPT !.current_scene = "main_menu", !.awaiting = ""]
                    IN  /\ Becomes(n, Processed(v, v.gui_input), Sent(v, v.gui_input))
                        /\ UNCHANGED conn
  IN  /\ awaiting \in {"HELLO", "LOGIN", "RECONNECT"} /\ down[n] # << >>
      /\ \E k \in Received(n) :
           \/ /\ k = 1 /\ down' = Rest(n, 1)
              /\ \/ awaiting = "HELLO" /\ Is(m, "HELLO") /\ asks("LOGIN")
                 \/ awaiting = "LOGIN" /\ Is(m, "LOGIN") /\ done(client[n])
                 \/ awaiting = "LOGIN" /\ m.cmd = "NAME_TAKEN" /\ asks("RECONNECT")
                 \/ /\ awaiting = "RECONNECT" /\ Is(m, "RECONNECT")
                    /\ done([client[n] EXCEPT !.accepted_end_of_round = FALSE,
                                              !.game_over = FALSE])
           \/ /\ \/ k > 1
                 \/ ~Is(m, awaiting) /\ ~(awaiting = "LOGIN" /\ m.cmd = "NAME_TAKEN")
              /\ Exits(n, << >>)
      /\ UNCHANGED rare

\* A connection that ended may have been reset, which drops what was not read,
\* and raises in recv() what nobody catches.
Reset(n) ==
  /\ client[n].awaiting \notin {"off", "connect"}
  /\ \E i \in DOMAIN down[n] : down[n][i] = EOF
  /\ Exits(n, << >>)
  /\ UNCHANGED rare

\* The window is closed, in any scene.
Quit(n) == InLoop(n) /\ Happens("quit") /\ Exits(n, << >>)

\* The connection is lost: both ends see its end.
Cut(n) ==
  /\ conn[n] # nullptr /\ Happens("cut")
  /\ up' = Said(n, <<EOF>>)
  /\ conn' = [conn EXCEPT ![n] = nullptr]
  /\ down' = [down EXCEPT ![n] = Append(@, EOF)]
  /\ UNCHANGED client
=============================================================================
