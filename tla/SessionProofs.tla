---------------------------- MODULE SessionProofs ----------------------------
(***************************************************************************)
(* Theorems about module Session, for any number of clients, games and     *)
(* connections and any Merging, Free and Rare: the server that serves the  *)
(* clients of module Client is a server of module Server, and none of them *)
(* waits for a reply that nobody will send.                                *)
(***************************************************************************)
EXTENDS SessionProperties, SeatTheorems, FiniteSetTheorems

-----------------------------------------------------------------------------
(* Types.  What is clicked, sent and received, and what a client is.       *)

Inputs ==
  {C!nothing, C!back} \cup {C!Ask(cmd) : cmd \in C!Command \ {"JOIN_GAME"}}
    \cup {[cmd |-> "JOIN_GAME", arg |-> g] : g \in GameIds}

Views == {view \in C!ClientState : view.gui_input \in Inputs}

\* What is sent before the end of the connection.
Requests ==
  {r \in C!Request : /\ r.cmd # "EOF"
                     /\ r.cmd \in {"LOGIN", "RECONNECT"} => r.arg \in Names
                     /\ r.cmd = "JOIN_GAME" => r.arg \in GameIds}

\* The first word of a message.
Words ==
  C!Command \cup Notice
    \cup {"HELLO", "LOGIN", "RECONNECT", "NAME_TAKEN", "CMD", "GAME_STATUS",
         "GAME_OVER", "KICKED", "GOODBYE"}

Letters ==
  [cmd : Words, code : {"OK", "ERR", ""}, player_turn : BOOLEAN, opponent_turn : BOOLEAN,
   listed : SUBSET GameIds]

\* A client in this state waits for a message.
Expects(view) == view.awaiting \in C!Command \cup {"HELLO", "LOGIN", "RECONNECT"}

LEMMA ShortSequences ==
  ASSUME NEW S, NEW x \in S
  PROVE  <<x>> \in Seq(S) /\ << >> \in Seq(S)
OBVIOUS

LEMMA ClicksAreInputs ==
  ASSUME NEW view \in Views, NEW click \in C!Clicks(view)
  PROVE  click \in Inputs
<1>1. \A cmd \in C!Command \ {"JOIN_GAME"} : C!Ask(cmd) \in Inputs
  BY DEF Inputs
<1>2. /\ C!back \in Inputs
      /\ \A g \in view.listed_games : [cmd |-> "JOIN_GAME", arg |-> g] \in Inputs
  BY DEF Inputs, Views, C!ClientState
<1>3. {"CREATE_GAME", "LIST_GAMES", "LOGOUT", "LEAVE_GAME", "REROLL", "ACCEPT_END_OF_ROUND"}
        \subseteq C!Command \ {"JOIN_GAME"}
  BY DEF C!Command
<1>4. CASE view.current_scene = "main_menu"
  BY <1>1, <1>3, <1>4 DEF C!Clicks
<1>5. CASE view.current_scene = "waiting_for_opponent"
  BY <1>1, <1>3, <1>5 DEF C!Clicks
<1>6. CASE view.current_scene = "list_of_games"
  BY <1>2, <1>6 DEF C!Clicks
<1>7. CASE view.current_scene = "play"
  BY <1>1, <1>3, <1>7 DEF C!Clicks
<1>8. CASE view.current_scene = "disconnected"
  BY <1>8 DEF C!Clicks
<1> QED
  BY <1>4, <1>5, <1>6, <1>7, <1>8 DEF Views, C!ClientState, C!Scene

LEMMA InputProperties ==
  ASSUME NEW click \in Inputs, click # C!nothing, click # C!back
  PROVE  click \in Requests /\ click.cmd \in C!Command
<1>1. CASE \E cmd \in C!Command \ {"JOIN_GAME"} : click = C!Ask(cmd)
  BY <1>1 DEF Requests, C!Request, C!Command, C!Ask
<1>2. CASE \E g \in GameIds : click = [cmd |-> "JOIN_GAME", arg |-> g]
  BY <1>2 DEF Requests, C!Request, C!Command
<1> QED
  BY <1>1, <1>2 DEF Inputs

\* Processing an input sends it or nothing, and waits only for what was sent.
LEMMA ProcessedProperties ==
  ASSUME NEW view \in Views, NEW click \in Inputs, view.awaiting = ""
  PROVE  /\ C!Processed(view, click) \in Views
         /\ C!Processed(view, click).awaiting \notin {"off", "connect"}
         /\ C!Sent(view, click) \in Seq(Requests)
         /\ Expects(C!Processed(view, click)) =>
              C!Sent(view, click) = <<click>> /\ click.cmd \in C!Command
<1> DEFINE v == [view EXCEPT !.gui_input = C!nothing]
           u == [v EXCEPT !.awaiting = click.cmd]
           sends == C!Sends(view, click)
<1>1. v \in Views /\ v.awaiting = ""
  BY DEF Views, C!ClientState, Inputs, C!nothing, C!Ask, C!Command
<1>2. sends => click \in Requests /\ click.cmd \in C!Command /\ click # C!back
  BY InputProperties DEF C!Sends
<1>3. sends => u \in Views /\ u.awaiting = click.cmd
  BY <1>1, <1>2 DEF Views, C!ClientState
<1> DEFINE p == C!Processed(view, click)
<1>4. CASE click = C!back
  <2>1. ~sends /\ C!Sent(view, click) = << >>
    BY <1>4 DEF C!Sends, C!Sent
  <2>2. p = [v EXCEPT !.current_scene = "main_menu", !.has_args = FALSE]
    BY <1>4 DEF C!Processed
  <2> HIDE DEF p, v
  <2>3. p \in Views /\ p.awaiting = ""
    BY <1>1, <2>2 DEF Views, C!ClientState, C!Scene
  <2> QED
    BY <2>1, <2>3, EmptySeq DEF p, Expects, C!Command
<1>5. CASE click # C!back /\ ~sends
  <2>1. p = v /\ C!Sent(view, click) = << >>
    BY <1>5 DEF C!Processed, C!Sent
  <2> HIDE DEF p, v
  <2> QED
    BY <1>1, <2>1, EmptySeq DEF p, Expects, C!Command
<1>6. CASE sends
  <2>1. C!Sent(view, click) = <<click>>
    BY <1>6 DEF C!Sent
  <2>a. <<click>> \in Seq(Requests)
    BY <1>2, <1>6, ShortSequences
  <2>2. p \in {u, [u EXCEPT !.game_over = FALSE], [u EXCEPT !.player_turn = FALSE]}
    BY <1>2, <1>6 DEF C!Processed
  <2> HIDE DEF p, u
  <2>3. p \in Views /\ p.awaiting = click.cmd
    BY <1>3, <1>6, <2>2 DEF Views, C!ClientState
  <2> QED
    BY <1>2, <1>6, <2>1, <2>a, <2>3 DEF p, C!Command
<1> QED
  BY <1>4, <1>5, <1>6

LEMMA NoticedProperties ==
  ASSUME NEW view \in Views, NEW m \in Letters
  PROVE  /\ C!Noticed(view, m) \in Views
         /\ C!Noticed(view, m).awaiting = view.awaiting
<1> DEFINE fresh == m.player_turn /\ m.opponent_turn
           keeps(v) == v \in Views /\ v.awaiting = view.awaiting
<1>1. CASE m.cmd = "JOIN_GAME" /\ m.code = "OK"
  <2>1. keeps([view EXCEPT !.current_scene = "play", !.has_args = FALSE])
    BY DEF Views, C!ClientState, C!Scene
  <2> QED
    BY <1>1, <2>1 DEF C!Noticed
<1>2. CASE m.cmd = "GAME_STATUS" /\ m.code = "OK"
  <2>1. /\ m.player_turn \in BOOLEAN /\ m.opponent_turn \in BOOLEAN
        /\ (view.accepted_end_of_round /\ ~fresh) \in BOOLEAN
        /\ (view.game_over /\ ~fresh) \in BOOLEAN
    BY DEF Letters
  <2>2. ASSUME NEW a \in BOOLEAN, NEW b \in BOOLEAN, NEW c \in BOOLEAN, NEW d \in BOOLEAN
        PROVE  keeps([view EXCEPT !.current_scene = "play", !.has_args = TRUE,
                                  !.player_turn = a, !.opponent_turn = b,
                                  !.accepted_end_of_round = c, !.game_over = d])
    <3> DEFINE v == [view EXCEPT !.current_scene = "play", !.has_args = TRUE,
                                 !.player_turn = a, !.opponent_turn = b,
                                 !.accepted_end_of_round = c, !.game_over = d]
    <3>1. v \in C!ClientState
      BY DEF Views, C!ClientState, C!Scene
    <3>2. v.awaiting = view.awaiting /\ v.gui_input = view.gui_input
      BY DEF Views, C!ClientState
    <3> QED
      BY <3>1, <3>2 DEF Views
  <2> QED
    BY <1>2, <2>1, <2>2 DEF C!Noticed
<1>3. CASE m.cmd = "REROLL_OPPONENT"
  <2>1. keeps([view EXCEPT !.opponent_turn = FALSE, !.has_args = TRUE])
    BY DEF Views, C!ClientState
  <2> QED
    BY <1>3, <2>1 DEF C!Noticed
<1>4. CASE m.cmd = "GAME_OVER"
  <2>1. keeps([view EXCEPT !.game_over = TRUE, !.has_args = TRUE])
    BY DEF Views, C!ClientState
  <2> QED
    BY <1>4, <2>1 DEF C!Noticed
<1>5. CASE m.cmd \in {"OPPONENT_DISCONNECTED", "OPPONENT_RECONNECTED"}
  <2>1. keeps([view EXCEPT !.has_args = TRUE])
    BY DEF Views, C!ClientState
  <2> QED
    BY <1>5, <2>1 DEF C!Noticed
<1> QED
  BY <1>1, <1>2, <1>3, <1>4, <1>5 DEF C!Noticed

\* After a reply the thread goes on, or waits for what it has just sent.
LEMMA RepliedProperties ==
  ASSUME NEW view \in Views, Expects(view), NEW m \in Letters \cup {C!EOF}, NEW merged
  PROVE  /\ C!Replied(view, m, merged) \in Views
         /\ C!Replied(view, m, merged).awaiting \in {"", "LIST_GAMES"}
         /\ C!RepliedSends(view, m) \in Seq(Requests)
         /\ Expects(C!Replied(view, m, merged)) =>
              C!RepliedSends(view, m) = <<C!Ask("LIST_GAMES")>>
<1> DEFINE v == [view EXCEPT !.awaiting = ""]
           sends == view.awaiting = "JOIN_GAME" /\ m.cmd = "JOIN_GAME" /\ m.code = "ERR"
           listed == IF C!Is(m, "LIST_GAMES") THEN m.listed ELSE view.listed_games
           u == C!Replied(view, m, merged)
           goes_on(x) == x \in Views /\ x.awaiting = ""
<1>1. goes_on(v)
  BY DEF Views, C!ClientState
<1>2. listed \in SUBSET GameIds /\ view.current_scene \in C!Scene
  <2>1. m \in Letters => m.listed \in SUBSET GameIds
    BY DEF Letters
  <2>2. m = C!EOF => ~C!Is(m, "LIST_GAMES")
    BY DEF C!EOF, C!Ask, C!Is
  <2> QED
    BY <2>1, <2>2 DEF Views, C!ClientState
<1>3. <<C!Ask("LIST_GAMES")>> \in Seq(Requests) /\ << >> \in Seq(Requests)
  BY ShortSequences DEF Requests, C!Request, C!Ask, C!Command
<1>4. CASE sends
  <2>1. u = [v EXCEPT !.awaiting = "LIST_GAMES"]
    BY <1>4 DEF C!Replied, C!Is
  <2>2. C!RepliedSends(view, m) = <<C!Ask("LIST_GAMES")>>
    BY <1>4 DEF C!RepliedSends
  <2> HIDE DEF v, u
  <2>3. u \in Views /\ u.awaiting = "LIST_GAMES"
    BY <1>1, <2>1 DEF Views, C!ClientState, C!Command
  <2> QED
    BY <1>3, <2>2, <2>3 DEF u
<1>5. CASE ~sends
  <2>1. C!RepliedSends(view, m) = << >>
    BY <1>5 DEF C!RepliedSends
  <2> HIDE DEF v
  <2>2. \A scene \in C!Scene :
          /\ goes_on([v EXCEPT !.current_scene = scene, !.has_args = FALSE])
          /\ \A l \in SUBSET GameIds :
               goes_on([v EXCEPT !.current_scene = scene, !.listed_games = l,
                                 !.has_args = FALSE])
    BY <1>1 DEF Views, C!ClientState
  <2>3. /\ goes_on([v EXCEPT !.has_args = TRUE])
        /\ goes_on([v EXCEPT !.accepted_end_of_round = TRUE])
    BY <1>1 DEF Views, C!ClientState
  <2>4. v.current_scene = view.current_scene /\ v.listed_games = view.listed_games
    BY DEF v, Views, C!ClientState
  <2>5. goes_on(u)
    <3>1. CASE view.awaiting = "CREATE_GAME"
      BY <1>2, <2>2, <2>4, <3>1 DEF C!Replied, C!Scene, v
    <3>2. CASE view.awaiting = "LIST_GAMES"
      BY <1>2, <2>2, <2>4, <3>2, ZenonT(60) DEF C!Replied, C!Scene, v
    <3>3. CASE view.awaiting = "JOIN_GAME"
      BY <1>1, <1>5, <2>2, <3>3 DEF C!Replied, C!Scene, C!Is, v
    <3>4. CASE view.awaiting = "LEAVE_GAME"
      BY <1>1, <2>2, <3>4 DEF C!Replied, C!Scene, v
    <3>5. CASE view.awaiting = "REROLL"
      BY <1>1, <2>3, <3>5 DEF C!Replied, v
    <3>6. CASE view.awaiting = "ACCEPT_END_OF_ROUND"
      BY <2>3, <3>6 DEF C!Replied, v
    <3>7. CASE view.awaiting \in {"LOGOUT", "HELLO", "LOGIN", "RECONNECT"}
      BY <1>1, <3>7 DEF C!Replied, v
    <3> QED
      BY <3>1, <3>2, <3>3, <3>4, <3>5, <3>6, <3>7 DEF Expects, C!Command
  <2> QED
    BY <1>3, <2>1, <2>5 DEF Expects, C!Command
<1> QED
  BY <1>4, <1>5

-----------------------------------------------------------------------------
(* The invariant: types, who is connected to whom, and what is under way.  *)

Mail == Letters \cup {C!EOF}

SessionTypes ==
  /\ client \in [Names -> Views]
  /\ conn \in [Names -> Objects \cup {nullptr}]
  /\ up \in [Objects -> Seq(Requests \cup {C!EOF})]
  /\ down \in [Names -> Seq(Mail)]
  /\ rare \in 0 .. MaxRare

\* A connection that is open on the side of client n is its own, and open on
\* the side of the server.
Linked(n) ==
  conn[n] # nullptr =>
    /\ conn[n] \in srv.players
    /\ \A m \in Names : conn[m] = conn[n] => m = n
    /\ up[conn[n]] \in Seq(Requests)

HasEOF(s) == \E i \in DOMAIN s : s[i] = C!EOF

\* The client will read of the end of its connection.
Ended(n) ==
  conn[n] = nullptr /\ client[n].awaiting \notin {"off", "connect"} => HasEOF(down[n])

\* The last that was said is a command: the server does not answer "OK".
Asks(requests) == requests # << >> /\ requests[Len(requests)].cmd # "OK"

Asked(n) ==
  Expects(client[n]) => down[n] # << >> \/ (conn[n] # nullptr /\ Asks(up[conn[n]]))

SessionInv ==
  SessionTypes /\ \A n \in Names : Linked(n) /\ Ended(n) /\ Asked(n)

-----------------------------------------------------------------------------
(* The steps of the clients.                                               *)

LEMMA AppendedAsks ==
  ASSUME NEW s \in Seq(Requests), NEW t \in Seq(Requests), Asks(t)
  PROVE  Asks(s \o t)
BY DEF Asks

LEMMA SaidType ==
  ASSUME SessionTypes, NEW n \in Names, NEW requests \in Seq(Requests \cup {C!EOF})
  PROVE  /\ C!Said(n, requests) \in [Objects -> Seq(Requests \cup {C!EOF})]
         /\ \A o \in Objects : C!Said(n, requests)[o] =
              IF conn[n] = o THEN up[o] \o requests ELSE up[o]
<1>1. CASE conn[n] = nullptr
  BY <1>1, ObjectsAssumption DEF C!Said, SessionTypes
<1>2. CASE conn[n] # nullptr
  <2>1. conn[n] \in Objects /\ up[conn[n]] \o requests \in Seq(Requests \cup {C!EOF})
    BY <1>2 DEF SessionTypes
  <2> QED
    BY <1>2, <2>1 DEF C!Said, SessionTypes
<1> QED
  BY <1>1, <1>2

LEMMA CommandAsks ==
  ASSUME NEW click, click.cmd \in C!Command
  PROVE  Asks(<<click>>)
BY DEF Asks, C!Command

\* Client n goes on as view, says requests and has rest left to read.
LEMMA GoesOn ==
  ASSUME SessionInv, UNCHANGED <<srv, conn>>, NEW n \in Names,
         client[n].awaiting \notin {"off", "connect"},
         NEW view \in Views, view.awaiting \notin {"off", "connect"},
         NEW requests \in Seq(Requests), NEW rest \in Seq(Mail),
         client' = [client EXCEPT ![n] = view],
         up' = C!Said(n, requests),
         down' = [down EXCEPT ![n] = rest],
         rare' \in 0 .. MaxRare,
         HasEOF(down[n]) => HasEOF(rest),
         Expects(view) => rest # << >> \/ Asks(requests)
  PROVE  SessionInv'
<1> DEFINE said == C!Said(n, requests)
<1>0. requests \in Seq(Requests \cup {C!EOF})
  OBVIOUS
<1>a. \A s \in Seq(Requests) : s \o requests \in Seq(Requests) /\ (Asks(requests) => Asks(s \o requests))
  BY AppendedAsks
<1>1. /\ said \in [Objects -> Seq(Requests \cup {C!EOF})]
      /\ \A o \in Objects : said[o] = IF conn[n] = o THEN up[o] \o requests ELSE up[o]
  BY <1>0, SaidType DEF SessionInv
<1>2. up' = said
  OBVIOUS
<1> HIDE DEF said
<1>3. SessionTypes'
  BY <1>1, <1>2 DEF SessionInv, SessionTypes
<1>4. ASSUME NEW m \in Names
      PROVE  (Linked(m) /\ Ended(m) /\ Asked(m))'
  <2>1. Linked(m) /\ Ended(m) /\ Asked(m) /\ SessionTypes
    BY DEF SessionInv
  <2>2. conn[m] # nullptr => conn[m] \in Objects
    BY <2>1 DEF SessionTypes
  <2>3. Linked(m)'
    <3>1. conn[m] # nullptr => up'[conn[m]] \in Seq(Requests)
      BY <1>a, <1>1, <1>2, <2>1, <2>2 DEF Linked
    <3> QED
      BY <2>1, <3>1 DEF Linked
  <2>4. Ended(m)'
    <3>1. CASE m = n
      <4>1. down'[m] = rest /\ client'[m] = view
        BY <2>1, <3>1 DEF SessionTypes
      <4>2. conn[n] = nullptr => HasEOF(rest)
        BY <2>1, <3>1 DEF Ended
      <4> QED
        BY <3>1, <4>1, <4>2 DEF Ended, HasEOF
    <3>2. CASE m # n
      BY <2>1, <3>2 DEF Ended, SessionTypes, HasEOF
    <3> QED
      BY <3>1, <3>2
  <2>5. Asked(m)'
    <3>1. CASE m # n
      <4>1. client'[m] = client[m] /\ down'[m] = down[m]
        BY <2>1, <3>1 DEF SessionTypes
      <4>2. conn[m] # nullptr => up'[conn[m]] = up[conn[m]]
        BY <1>1, <1>2, <2>1, <2>2, <3>1 DEF Linked
      <4> QED
        BY <2>1, <4>1, <4>2 DEF Asked, Expects, Asks, C!Command
    <3>2. CASE m = n
      <4>1. client'[n] = view /\ down'[n] = rest
        BY <2>1 DEF SessionTypes
      <4>2. conn[n] = nullptr /\ Expects(view) => rest # << >>
        BY <2>1, <2>4, <3>2, <4>1 DEF Ended, HasEOF
      <4>3. conn[n] # nullptr /\ Asks(requests) => Asks(up'[conn[n]])
        BY <1>a, <1>1, <1>2, <2>1, <2>2, <3>2 DEF Linked
      <4> QED
        BY <3>2, <4>1, <4>2, <4>3 DEF Asked, Expects, Asks, C!Command
    <3> QED
      BY <3>1, <3>2
  <2> QED
    BY <2>3, <2>4, <2>5
<1> QED
  BY <1>3, <1>4 DEF SessionInv
\* Client n loses its connection, or its process ends.
LEMMA HangsUp ==
  ASSUME SessionInv, srv' = srv, NEW n \in Names,
         NEW view \in Views, NEW requests \in Seq(Requests \cup {C!EOF}),
         NEW rest \in Seq(Mail),
         client' = [client EXCEPT ![n] = view],
         up' = C!Said(n, requests),
         conn' = [conn EXCEPT ![n] = nullptr],
         down' = [down EXCEPT ![n] = rest],
         rare' \in 0 .. MaxRare,
         view.awaiting \notin {"off", "connect"} => HasEOF(rest)
  PROVE  SessionInv'
<1> DEFINE said == C!Said(n, requests)
<1>1. /\ said \in [Objects -> Seq(Requests \cup {C!EOF})]
      /\ \A o \in Objects : said[o] = IF conn[n] = o THEN up[o] \o requests ELSE up[o]
  BY SaidType DEF SessionInv
<1>2. up' = said
  OBVIOUS
<1> HIDE DEF said
<1>3. SessionTypes'
  BY <1>1, <1>2 DEF SessionInv, SessionTypes
<1>4. ASSUME NEW m \in Names, m # n
      PROVE  (Linked(m) /\ Ended(m) /\ Asked(m))'
  <2>1. Linked(m) /\ Linked(n) /\ Ended(m) /\ Asked(m) /\ SessionTypes
    BY DEF SessionInv
  <2>2. /\ client'[m] = client[m] /\ down'[m] = down[m] /\ conn'[m] = conn[m]
        /\ conn[m] # nullptr => conn[m] \in Objects
    BY <1>4, <2>1 DEF SessionTypes
  <2>3. conn[m] # nullptr => up'[conn[m]] = up[conn[m]]
    BY <1>1, <1>2, <1>4, <2>1, <2>2 DEF Linked
  <2>4. \A k \in Names : conn'[k] = conn[k] \/ conn'[k] = nullptr
    BY <2>1 DEF SessionTypes
  <2>5. Linked(m)'
    BY <2>1, <2>2, <2>3, <2>4 DEF Linked
  <2>6. Ended(m)'
    BY <2>1, <2>2 DEF Ended, HasEOF
  <2>7. Asked(m)'
    BY <2>1, <2>2, <2>3 DEF Asked, Expects, Asks, C!Command
  <2> QED
    BY <2>5, <2>6, <2>7
<1>5. (Linked(n) /\ Ended(n) /\ Asked(n))'
  <2>1. conn'[n] = nullptr /\ client'[n] = view /\ down'[n] = rest
    BY DEF SessionInv, SessionTypes
  <2>2. HasEOF(rest) => rest # << >>
    BY DEF HasEOF
  <2>3. Expects(view) => view.awaiting \notin {"off", "connect"}
    BY DEF Expects, C!Command
  <2>4. Linked(n)' /\ Ended(n)'
    BY <2>1 DEF Linked, Ended, HasEOF
  <2>5. Asked(n)'
    BY <2>1, <2>2, <2>3 DEF Asked, Expects, C!Command
  <2> QED
    BY <2>4, <2>5
<1> QED
  BY <1>3, <1>4, <1>5 DEF SessionInv

\* Client n does not run, or is about to connect.
LEMMA Idles ==
  ASSUME SessionInv, UNCHANGED <<srv, conn, up>>, NEW n \in Names,
         NEW view \in Views, view.awaiting \in {"off", "connect"},
         NEW rest \in Seq(Mail),
         client' = [client EXCEPT ![n] = view],
         down' = [down EXCEPT ![n] = rest],
         rare' \in 0 .. MaxRare
  PROVE  SessionInv'
<1>1. SessionTypes'
  BY DEF SessionInv, SessionTypes
<1>2. ASSUME NEW m \in Names
      PROVE  (Linked(m) /\ Ended(m) /\ Asked(m))'
  <2>1. Linked(m) /\ Ended(m) /\ Asked(m) /\ SessionTypes
    BY DEF SessionInv
  <2>2. /\ m # n => client'[m] = client[m] /\ down'[m] = down[m]
        /\ client'[n] = view
    BY <2>1 DEF SessionTypes
  <2>3. Linked(m)'
    BY <2>1 DEF Linked
  <2>4. Ended(m)'
    BY <2>1, <2>2 DEF Ended, HasEOF
  <2>5. Asked(m)'
    BY <2>1, <2>2 DEF Asked, Expects, Asks, C!Command
  <2> QED
    BY <2>3, <2>4, <2>5
<1> QED
  BY <1>1, <1>2 DEF SessionInv

LEMMA OffType == C!Off \in Views /\ C!Off.awaiting = "off"
BY DEF C!Off, Views, C!ClientState, C!Scene, Inputs, C!nothing, C!Ask, C!Command

LEMMA HappensType ==
  ASSUME SessionInv, NEW kind, C!Happens(kind) \/ UNCHANGED rare
  PROVE  rare' \in 0 .. MaxRare
BY RareAssumption DEF SessionInv, SessionTypes, C!Happens

LEMMA EOFType == C!EOF \in Mail /\ C!EOF \in Requests \cup {C!EOF}
BY DEF Mail

LEMMA ExitsInv ==
  ASSUME SessionInv, srv' = srv, NEW n \in Names, NEW requests \in Seq(Requests),
         C!Exits(n, requests), rare' \in 0 .. MaxRare
  PROVE  SessionInv'
<1>1. Append(requests, C!EOF) \in Seq(Requests \cup {C!EOF})
  OBVIOUS
<1>2. << >> \in Seq(Mail)
  OBVIOUS
<1>3. /\ client' = [client EXCEPT ![n] = C!Off]
      /\ up' = C!Said(n, Append(requests, C!EOF))
      /\ conn' = [conn EXCEPT ![n] = nullptr]
      /\ down' = [down EXCEPT ![n] = << >>]
  BY DEF C!Exits, C!Becomes
<1> HIDE DEF C!Off, C!Said
<1> QED
  BY <1>1, <1>2, <1>3, OffType, HangsUp

LEMMA RestProperties ==
  ASSUME SessionTypes, NEW n \in Names, NEW k \in C!Received(n),
         down[n] # << >>, Head(down[n]) # C!EOF
  PROVE  /\ Head(down[n]) \in Letters
         /\ \E rest \in Seq(Mail) :
              /\ C!Rest(n, k) = [down EXCEPT ![n] = rest]
              /\ HasEOF(down[n]) => HasEOF(rest)
<1> DEFINE s    == down[n]
           rest == SubSeq(s, k + 1, Len(s))
<1>1. s \in Seq(Mail) /\ k \in 1 .. Len(s) /\ \A i \in 1 .. k : s[i] # C!EOF
  BY DEF SessionTypes, C!Received
<1>2. C!Rest(n, k) = [down EXCEPT ![n] = rest]
  BY DEF C!Rest
<1>3. Head(s) \in Letters
  BY <1>1 DEF Mail
<1> HIDE DEF s
<1>4. /\ rest \in Seq(Mail) /\ Len(rest) = Len(s) - k
      /\ \A i \in 1 .. Len(rest) : rest[i] = s[k + i]
  BY <1>1, SubSeqProperties
<1>5. ASSUME HasEOF(s)
      PROVE  HasEOF(rest)
  <2>1. PICK i \in 1 .. Len(s) : s[i] = C!EOF
    BY <1>1, <1>5 DEF HasEOF
  <2>2. i > k /\ i - k \in 1 .. Len(rest)
    BY <1>1, <1>4, <2>1
  <2>3. rest[i - k] = C!EOF
    BY <1>1, <1>4, <2>1, <2>2
  <2> QED
    BY <1>4, <2>2, <2>3 DEF HasEOF
<1> HIDE DEF rest
<1> QED
  BY <1>2, <1>3, <1>4, <1>5 DEF s

LEMMA ClickInv ==
  ASSUME SessionInv, srv' = srv, NEW n \in Names, C!Click(n)
  PROVE  SessionInv'
<1>1. PICK click \in C!Clicks(client[n]) :
        /\ C!Clicked(click)
        /\ C!Becomes(n, C!Processed(client[n], click), C!Sent(client[n], click))
  BY DEF C!Click
<1> DEFINE view == C!Processed(client[n], click)
           requests == C!Sent(client[n], click)
<1>2. client[n] \in Views /\ down[n] \in Seq(Mail) /\ client[n].awaiting = ""
  BY DEF SessionInv, SessionTypes, C!Click, C!InLoop
<1>3. click \in Inputs
  BY <1>2, ClicksAreInputs
<1>4. /\ view \in Views /\ view.awaiting \notin {"off", "connect"}
      /\ requests \in Seq(Requests)
      /\ Expects(view) => requests = <<click>> /\ click.cmd \in C!Command
  BY <1>2, <1>3, ProcessedProperties
<1> HIDE DEF view, requests
<1>5. Expects(view) => Asks(requests)
  BY <1>4, CommandAsks
<1>6. rare' \in 0 .. MaxRare
  BY <1>1, HappensType DEF C!Clicked
<1>7. /\ client' = [client EXCEPT ![n] = view] /\ up' = C!Said(n, requests)
      /\ UNCHANGED <<conn, down>>
  BY <1>1 DEF C!Becomes, C!Click, view, requests
<1>8. down' = [down EXCEPT ![n] = down[n]]
  BY <1>7 DEF SessionInv, SessionTypes
<1> QED
  BY <1>2, <1>4, <1>5, <1>6, <1>7, <1>8, GoesOn

LEMMA ReadInv ==
  ASSUME SessionInv, srv' = srv, NEW n \in Names, C!Read(n)
  PROVE  SessionInv'
<1> DEFINE m == Head(down[n])
           seen == C!Noticed(client[n], m)
<1>1. PICK k \in C!Received(n), click \in C!Clicks(client[n]) \cup {C!nothing} :
        LET view == C!Processed(seen, click)
            ok   == IF C!IsAcknowledged(m, k > 1) THEN <<C!Ask("OK")>> ELSE << >>
        IN  /\ C!Clicked(click)
            /\ IF C!Raises(m, k > 1) \/ C!CannotDraw(view) THEN C!Exits(n, ok)
               ELSE /\ C!Becomes(n, view, ok \o C!Sent(seen, click))
                    /\ down' = C!Rest(n, k)
                    /\ UNCHANGED conn
  BY DEF C!Read
<1> DEFINE view == C!Processed(seen, click)
           ok   == IF C!IsAcknowledged(m, k > 1) THEN <<C!Ask("OK")>> ELSE << >>
           sent == C!Sent(seen, click)
           requests == ok \o sent
<1>2. /\ client[n] \in Views /\ client[n].awaiting = ""
      /\ down[n] # << >> /\ m # C!EOF /\ SessionTypes
  BY DEF SessionInv, SessionTypes, C!Read, C!InLoop
<1>3. click \in Inputs
  BY <1>2, ClicksAreInputs DEF Inputs
<1>4. PICK rest \in Seq(Mail) :
        /\ C!Rest(n, k) = [down EXCEPT ![n] = rest]
        /\ HasEOF(down[n]) => HasEOF(rest)
  BY <1>2, RestProperties
<1>5. seen \in Views /\ seen.awaiting = ""
  BY <1>2, RestProperties, NoticedProperties
<1>6. ok \in Seq(Requests)
  <2>1. C!Ask("OK") \in Requests
    BY DEF Requests, C!Request, C!Ask
  <2> QED
    BY <2>1, ShortSequences
<1> HIDE DEF m, seen, ok
<1>7. /\ view \in Views /\ view.awaiting \notin {"off", "connect"}
      /\ sent \in Seq(Requests)
      /\ Expects(view) => sent = <<click>> /\ click.cmd \in C!Command
  BY <1>3, <1>5, ProcessedProperties
<1>8. rare' \in 0 .. MaxRare
  BY <1>1, HappensType DEF C!Clicked
<1> HIDE DEF view, sent
<1>9. requests \in Seq(Requests)
  BY <1>6, <1>7
<1>10. Expects(view) => Asks(requests)
  BY <1>6, <1>7, AppendedAsks, CommandAsks DEF requests
<1> HIDE DEF requests
<1>11. CASE C!Exits(n, ok)
  BY <1>6, <1>8, <1>11, ExitsInv
<1>12. CASE C!Becomes(n, view, requests) /\ down' = C!Rest(n, k) /\ UNCHANGED conn
  <2>1. client' = [client EXCEPT ![n] = view] /\ up' = C!Said(n, requests)
    BY <1>12 DEF C!Becomes
  <2> QED
    BY <1>2, <1>4, <1>7, <1>8, <1>9, <1>10, <1>12, <2>1, GoesOn
<1> QED
  BY <1>1, <1>11, <1>12 DEF m, seen, view, ok, sent, requests

LEMMA ReplyInv ==
  ASSUME SessionInv, srv' = srv, NEW n \in Names, C!Reply(n)
  PROVE  SessionInv'
<1> DEFINE m == Head(down[n])
<1>1. PICK k \in C!Received(n) :
        LET view == C!Replied(client[n], m, k > 1)
        IN  \/ C!Exits(n, << >>)
            \/ /\ C!Becomes(n, view, C!RepliedSends(client[n], m))
               /\ down' = IF m = C!EOF THEN down ELSE C!Rest(n, k)
               /\ UNCHANGED conn
  BY DEF C!Reply
<1> DEFINE view == C!Replied(client[n], m, k > 1)
           requests == C!RepliedSends(client[n], m)
<1>2. /\ client[n] \in Views /\ client[n].awaiting \in C!Command
      /\ down[n] # << >> /\ down[n] \in Seq(Mail) /\ SessionTypes /\ UNCHANGED rare
      /\ Expects(client[n])
  BY DEF SessionInv, SessionTypes, C!Reply, Expects
<1>3. m \in Letters \cup {C!EOF}
  BY <1>2 DEF Mail
<1> HIDE DEF m
<1>4. /\ view \in Views /\ view.awaiting \in {"", "LIST_GAMES"}
      /\ requests \in Seq(Requests)
      /\ Expects(view) => requests = <<C!Ask("LIST_GAMES")>>
  BY <1>2, <1>3, RepliedProperties
<1> HIDE DEF view, requests
<1>5. Expects(view) => Asks(requests)
  <2>1. C!Ask("LIST_GAMES").cmd \in C!Command
    BY DEF C!Ask, C!Command
  <2> QED
    BY <1>4, <2>1, CommandAsks
<1>6. PICK rest \in Seq(Mail) :
        /\ (IF m = C!EOF THEN down ELSE C!Rest(n, k)) = [down EXCEPT ![n] = rest]
        /\ HasEOF(down[n]) => HasEOF(rest)
  <2>1. CASE m = C!EOF
    BY <1>2, <2>1 DEF SessionTypes
  <2>2. CASE m # C!EOF
    BY <1>2, <2>2, RestProperties DEF m
  <2> QED
    BY <2>1, <2>2
<1>7. rare' \in 0 .. MaxRare
  BY <1>2 DEF SessionTypes
<1>8. CASE C!Exits(n, << >>)
  BY <1>7, <1>8, ExitsInv, EmptySeq
<1>9. CASE C!Becomes(n, view, requests) /\ UNCHANGED conn
             /\ down' = IF m = C!EOF THEN down ELSE C!Rest(n, k)
  <2>1. client' = [client EXCEPT ![n] = view] /\ up' = C!Said(n, requests)
    BY <1>9 DEF C!Becomes
  <2>2. client[n].awaiting \notin {"off", "connect"} /\ view.awaiting \notin {"off", "connect"}
    BY <1>2, <1>4 DEF C!Command
  <2> QED
    BY <1>4, <1>5, <1>6, <1>7, <1>9, <2>1, <2>2, GoesOn
<1> QED
  BY <1>1, <1>8, <1>9 DEF m, view, requests

LEMMA HandshakeInv ==
  ASSUME SessionInv, srv' = srv, NEW n \in Names, C!Handshake(n)
  PROVE  SessionInv'
<1> DEFINE m == Head(down[n])
           asks(cmd) == /\ C!Becomes(n, [client[n] EXCEPT !.awaiting = cmd],
                                     <<[cmd |-> cmd, arg |-> n]>>)
                        /\ UNCHANGED conn
           begun(view) == [view EXCEPT !.current_scene = "main_menu", !.awaiting = ""]
           done(view) == LET v == begun(view)
                         IN  /\ C!Becomes(n, C!Processed(v, v.gui_input),
                                             C!Sent(v, v.gui_input))
                             /\ UNCHANGED conn
           fresh == [client[n] EXCEPT !.accepted_end_of_round = FALSE, !.game_over = FALSE]
<1>1. /\ client[n] \in Views /\ client[n].awaiting \in {"HELLO", "LOGIN", "RECONNECT"}
      /\ down[n] # << >> /\ SessionTypes /\ rare' \in 0 .. MaxRare
  BY DEF SessionInv, SessionTypes, C!Handshake
<1>2. PICK k \in C!Received(n) :
        \/ /\ k = 1 /\ down' = C!Rest(n, 1) /\ m # C!EOF
           /\ asks("LOGIN") \/ asks("RECONNECT") \/ done(client[n]) \/ done(fresh)
        \/ C!Exits(n, << >>)
  BY DEF C!Handshake, C!Is, C!EOF, C!Ask
<1>3. CASE C!Exits(n, << >>)
  BY <1>1, <1>3, ExitsInv, EmptySeq
<1>4. CASE /\ k = 1 /\ down' = C!Rest(n, k) /\ m # C!EOF
           /\ asks("LOGIN") \/ asks("RECONNECT") \/ done(client[n]) \/ done(fresh)
  <2>1. PICK rest \in Seq(Mail) :
          /\ C!Rest(n, k) = [down EXCEPT ![n] = rest]
          /\ HasEOF(down[n]) => HasEOF(rest)
    BY <1>1, <1>4, RestProperties
  <2>2. /\ rest \in Seq(Mail) /\ down' = [down EXCEPT ![n] = rest]
        /\ HasEOF(down[n]) => HasEOF(rest)
        /\ client[n].awaiting \notin {"off", "connect"}
    BY <1>1, <1>4, <2>1
  <2>3. ASSUME NEW cmd \in {"LOGIN", "RECONNECT"}, asks(cmd)
        PROVE  SessionInv'
    <3> DEFINE view == [client[n] EXCEPT !.awaiting = cmd]
               request == [cmd |-> cmd, arg |-> n]
    <3>1. view \in Views /\ view.awaiting = cmd
      BY <1>1 DEF Views, C!ClientState
    <3>2. request \in Requests
      BY DEF Requests, C!Request
    <3>3. <<request>> \in Seq(Requests) /\ Asks(<<request>>)
      BY <3>2, ShortSequences DEF Asks
    <3>4. client' = [client EXCEPT ![n] = view] /\ up' = C!Said(n, <<request>>)
          /\ conn' = conn
      BY <2>3 DEF C!Becomes
    <3> HIDE DEF view, request
    <3> QED
      BY <1>1, <2>2, <3>1, <3>3, <3>4, GoesOn
  <2>4. ASSUME NEW v \in Views, v.awaiting = "",
               C!Becomes(n, C!Processed(v, v.gui_input), C!Sent(v, v.gui_input)),
               UNCHANGED conn
        PROVE  SessionInv'
    <3> DEFINE click == v.gui_input
               view == C!Processed(v, click)
               requests == C!Sent(v, click)
    <3>1. click \in Inputs
      BY DEF Views
    <3> HIDE DEF click
    <3>2. /\ view \in Views /\ view.awaiting \notin {"off", "connect"}
          /\ requests \in Seq(Requests)
          /\ Expects(view) => requests = <<click>> /\ click.cmd \in C!Command
      BY <2>4, <3>1, ProcessedProperties
    <3>3. client' = [client EXCEPT ![n] = view] /\ up' = C!Said(n, requests)
      BY <2>4 DEF C!Becomes, click
    <3> HIDE DEF view, requests
    <3>4. Expects(view) => Asks(requests)
      BY <3>2, CommandAsks
    <3> QED
      BY <1>1, <2>2, <2>4, <3>2, <3>3, <3>4, GoesOn
  <2>5. /\ begun(client[n]) \in Views /\ begun(client[n]).awaiting = ""
        /\ begun(fresh) \in Views /\ begun(fresh).awaiting = ""
    <3>1. fresh \in Views
      BY <1>1 DEF Views, C!ClientState
    <3> HIDE DEF fresh
    <3> QED
      BY <1>1, <3>1 DEF Views, C!ClientState, C!Scene
  <2> HIDE DEF fresh, begun
  <2> QED
    BY <1>4, <2>3, <2>4, <2>5
<1> QED
  BY <1>2, <1>3, <1>4

LEMMA InputType ==
  ASSUME NEW click \in Inputs
  PROVE  click \in [cmd : C!Command \cup {"", "BACK_TO_MAIN_MENU"},
                   arg : GameIds \cup {nullptr}]
<1>1. \A cmd \in C!Command \cup {"", "BACK_TO_MAIN_MENU"} :
        C!Ask(cmd) \in [cmd : C!Command \cup {"", "BACK_TO_MAIN_MENU"},
                       arg : GameIds \cup {nullptr}]
  BY DEF C!Ask
<1>2. CASE \E g \in GameIds : click = [cmd |-> "JOIN_GAME", arg |-> g]
  BY <1>2 DEF C!Command
<1>3. CASE \E cmd \in C!Command \cup {"", "BACK_TO_MAIN_MENU"} : click = C!Ask(cmd)
  BY <1>1, <1>3
<1> QED
  BY <1>2, <1>3 DEF Inputs, C!nothing, C!back

LEMMA AppendedEOF ==
  ASSUME NEW S, NEW s \in Seq(S), C!EOF \in S
  PROVE  Append(s, C!EOF) \in Seq(S) /\ HasEOF(Append(s, C!EOF))
<1>1. /\ Append(s, C!EOF) \in Seq(S)
      /\ Len(s) + 1 \in 1 .. Len(Append(s, C!EOF))
      /\ Append(s, C!EOF)[Len(s) + 1] = C!EOF
  OBVIOUS
<1>2. DOMAIN Append(s, C!EOF) = 1 .. Len(Append(s, C!EOF))
  BY <1>1
<1> QED
  BY <1>1, <1>2 DEF HasEOF

\* Every step of a client keeps the invariant.
LEMMA ClientInvariance ==
  ASSUME SessionInv, UNCHANGED vars, NEW n \in Names, ClientStep(n)
  PROVE  SessionInv'
<1>1. /\ srv' = srv /\ SessionTypes /\ client[n] \in Views /\ down[n] \in Seq(Mail)
  BY DEF vars, SessionInv, SessionTypes
<1>2. UNCHANGED rare => rare' \in 0 .. MaxRare
  BY <1>1 DEF SessionTypes
<1>3. CASE C!Start(n)
  <2> DEFINE view == [client[n] EXCEPT !.awaiting = "connect"]
  <2>1. view \in Views /\ view.awaiting = "connect"
    BY <1>1 DEF Views, C!ClientState
  <2>2. /\ client' = [client EXCEPT ![n] = view] /\ down' = [down EXCEPT ![n] = down[n]]
        /\ UNCHANGED <<conn, up>>
    BY <1>1, <1>3 DEF C!Start, SessionTypes
  <2>3. rare' \in 0 .. MaxRare
    BY <1>3, HappensType DEF C!Start
  <2> HIDE DEF view
  <2> QED
    BY <1>1, <2>1, <2>2, <2>3, Idles
<1>4. CASE C!Click(n)
  BY <1>1, <1>4, ClickInv
<1>5. CASE C!Read(n)
  BY <1>1, <1>5, ReadInv
<1>6. CASE C!ReadEnd(n)
  <2>1. PICK click \in C!Clicks(client[n]) \cup {C!nothing} :
          /\ C!Clicked(click)
          /\ client' = [client EXCEPT ![n] = [@ EXCEPT !.current_scene = "disconnected",
                                                     !.awaiting = "connect",
                                                     !.gui_input = click]]
    BY <1>6 DEF C!ReadEnd
  <2> DEFINE view == [client[n] EXCEPT !.current_scene = "disconnected",
                                       !.awaiting = "connect", !.gui_input = click]
  <2>2. click \in Inputs
    BY <1>1, ClicksAreInputs DEF Inputs
  <2>3. click \in [cmd : C!Command \cup {"", "BACK_TO_MAIN_MENU"},
                   arg : GameIds \cup {nullptr}]
    BY <2>2, InputType
  <2>4. view \in Views /\ view.awaiting = "connect"
    <3>1. view \in C!ClientState /\ view.gui_input = click /\ view.awaiting = "connect"
      BY <1>1, <2>3 DEF Views, C!ClientState, C!Scene
    <3> HIDE DEF view
    <3> QED
      BY <2>2, <3>1 DEF Views
  <2>5. /\ client' = [client EXCEPT ![n] = view]
        /\ down' = [down EXCEPT ![n] = << >>] /\ UNCHANGED <<conn, up>>
    BY <1>6, <2>1 DEF C!ReadEnd
  <2>6. rare' \in 0 .. MaxRare
    BY <2>1, HappensType DEF C!Clicked
  <2> HIDE DEF view
  <2> QED
    BY <1>1, <2>4, <2>5, <2>6, EmptySeq, Idles
<1>7. CASE C!Reply(n)
  BY <1>1, <1>7, ReplyInv
<1>8. CASE C!Handshake(n)
  BY <1>1, <1>8, HandshakeInv
<1>9. CASE C!Reset(n) \/ C!Quit(n)
  <2>1. C!Exits(n, << >>) /\ (C!Happens("quit") \/ UNCHANGED rare)
    BY <1>9 DEF C!Reset, C!Quit
  <2> QED
    BY <1>1, <2>1, ExitsInv, EmptySeq, HappensType
<1>10. CASE C!Cut(n)
  <2>1. /\ client' = [client EXCEPT ![n] = client[n]]
        /\ up' = C!Said(n, <<C!EOF>>)
        /\ conn' = [conn EXCEPT ![n] = nullptr]
        /\ down' = [down EXCEPT ![n] = Append(down[n], C!EOF)]
    BY <1>1, <1>10 DEF C!Cut, SessionTypes
  <2>2. /\ <<C!EOF>> \in Seq(Requests \cup {C!EOF})
        /\ Append(down[n], C!EOF) \in Seq(Mail) /\ HasEOF(Append(down[n], C!EOF))
    BY <1>1, EOFType, ShortSequences, AppendedEOF
  <2>3. rare' \in 0 .. MaxRare
    BY <1>10, HappensType DEF C!Cut
  <2> QED
    BY <1>1, <2>1, <2>2, <2>3, HangsUp
<1> QED
  BY <1>3, <1>4, <1>5, <1>6, <1>7, <1>8, <1>9, <1>10 DEF ClientStep, Receive

-----------------------------------------------------------------------------
(* What the server reads.                                                  *)

LEMMA ArrivedType ==
  ASSUME NEW o \in Objects, NEW S, up[o] \in Seq(S), up[o] # << >>
  PROVE  Arrived(o) \in 1 .. Len(up[o])
<1> DEFINE s == up[o]
           T == {i \in 1 .. Len(s) : \A j \in 1 .. i : s[j] # C!EOF}
<1>1. Len(s) \in Nat /\ Len(s) >= 1
  BY EmptySeq
<1>2. CASE s[1] = C!EOF \/ "to_server" \notin Merging
  BY <1>1, <1>2 DEF Arrived
<1>3. CASE ~(s[1] = C!EOF \/ "to_server" \notin Merging)
  <2>1. Arrived(o) = Cardinality(T)
    BY <1>3 DEF Arrived
  <2>2. 1 \in T
    BY <1>1, <1>3
  <2>3. /\ IsFiniteSet(1 .. Len(s)) /\ Cardinality(1 .. Len(s)) = Len(s)
    BY <1>1, FS_Interval
  <2> HIDE DEF s
  <2>4. T \in SUBSET (1 .. Len(s))
    OBVIOUS
  <2> HIDE DEF T
  <2>5. IsFiniteSet(T) /\ Cardinality(T) <= Len(s) /\ Cardinality(T) \in Nat
    BY <2>3, <2>4, FS_Subset, FS_CardinalityType
  <2>6. Cardinality(T) # 0
    BY <2>2, <2>5, FS_EmptySet
  <2> QED
    BY <1>1, <2>1, <2>5, <2>6 DEF s
<1> QED
  BY <1>2, <1>3

LEMMA SuffixAsks ==
  ASSUME NEW S, NEW s \in Seq(S), NEW k \in 1 .. Len(s)
  PROVE  /\ SubSeq(s, k + 1, Len(s)) \in Seq(S)
         /\ Asks(s) /\ k # Len(s) => Asks(SubSeq(s, k + 1, Len(s)))
<1> DEFINE t == SubSeq(s, k + 1, Len(s))
<1>1. /\ t \in Seq(S) /\ Len(t) = Len(s) - k
      /\ \A i \in 1 .. Len(t) : t[i] = s[k + i]
  BY SubSeqProperties
<1> HIDE DEF t
<1>2. ASSUME k # Len(s)
      PROVE  t # << >> /\ t[Len(t)] = s[Len(s)]
  <2>1. Len(t) \in 1 .. Len(t) /\ k + Len(t) = Len(s)
    BY <1>1, <1>2
  <2> QED
    BY <1>1, <2>1
<1>3. Asks(s) /\ k # Len(s) => Asks(t)
  BY <1>2 DEF Asks
<1> QED
  BY <1>1, <1>3 DEF t

\* A request that names a nickname or a game is one that was sent.
LEMMA CommandedType ==
  ASSUME SessionTypes, NEW o \in Objects, up[o] # << >>
  PROVE  LET request == Commanded(o)
         IN  /\ request \in {C!EOF, C!Ask(unknown), up[o][1]}
             /\ request.cmd \in {"LOGIN", "RECONNECT"} => request.arg \in Names
             /\ request.cmd = "JOIN_GAME" => request.arg \in GameIds
<1> DEFINE first == up[o][1]
<1>1. first \in Requests \cup {C!EOF}
  BY EmptySeq DEF SessionTypes
<1>2. Commanded(o) \in {first, C!Ask(unknown)}
  BY DEF Commanded
<1>3. \A r \in Requests : /\ r.cmd \in {"LOGIN", "RECONNECT"} => r.arg \in Names
                          /\ r.cmd = "JOIN_GAME" => r.arg \in GameIds
  BY DEF Requests
<1>4. /\ C!EOF.cmd = "EOF" /\ C!Ask(unknown).cmd = "UNKNOWN"
  BY DEF C!EOF, C!Ask, unknown
<1> HIDE DEF first
<1>5. ASSUME NEW r \in {C!EOF, C!Ask(unknown), first}
      PROVE  /\ r.cmd \in {"LOGIN", "RECONNECT"} => r.arg \in Names
             /\ r.cmd = "JOIN_GAME" => r.arg \in GameIds
  <2>1. CASE r \in Requests
    BY <1>3, <2>1
  <2>2. CASE r = C!EOF
    BY <1>4, <2>2
  <2>3. CASE r = C!Ask(unknown)
    BY <1>4, <2>3
  <2> QED
    BY <1>1, <2>1, <2>2, <2>3
<1> QED
  BY <1>2, <1>5 DEF first

\* "OK" alone is handled only when nothing followed it.
LEMMA OkIsAlone ==
  ASSUME SessionTypes, NEW o \in Objects, up[o] # << >>, Commanded(o).cmd = "OK"
  PROVE  Arrived(o) = 1 /\ up[o][1].cmd = "OK"
BY DEF Commanded, unknown, C!Ask

-----------------------------------------------------------------------------
(* What the server writes.                                                 *)

Post == [Names -> Seq(Letters)]

\* The mail holds something for the client on connection o.
Serves(mail, o) == \A n \in Names : conn[n] = o => mail[n] # << >>

LEMMA MessageType ==
  ASSUME NEW cmd \in Words, NEW code \in {"OK", "ERR", ""}
  PROVE  /\ Message(cmd, code) \in Letters
         /\ \A a, b \in BOOLEAN :
              [Message(cmd, code) EXCEPT !.player_turn = a, !.opponent_turn = b] \in Letters
         /\ \A G \in SUBSET GameIds : [Message(cmd, code) EXCEPT !.listed = G] \in Letters
BY DEF Message, C!Message, Letters

LEMMA NothingType == nothing \in Post
BY EmptySeq DEF nothing, Post

LEMMA ToType ==
  ASSUME NEW m \in Letters, NEW o
  PROVE  To(o, m) \in Post
BY ShortSequences DEF To, Post

LEMMA JoinedType ==
  ASSUME NEW a \in Post, NEW b \in Post
  PROVE  /\ a ++ b \in Post
         /\ \A o : Serves(a, o) \/ Serves(b, o) => Serves(a ++ b, o)
<1>1. \A n \in Names : /\ (a ++ b)[n] = a[n] \o b[n]
                       /\ a[n] \in Seq(Letters) /\ b[n] \in Seq(Letters)
  BY DEF ++, Post
<1>2. a ++ b \in Post
  BY <1>1 DEF ++, Post
<1>3. ASSUME NEW n \in Names, a[n] # << >> \/ b[n] # << >>
      PROVE  (a ++ b)[n] # << >>
  <2>1. \A s, t \in Seq(Letters) : s # << >> \/ t # << >> => s \o t # << >>
    BY EmptySeq
  <2> QED
    BY <1>1, <1>3, <2>1
<1> QED
  BY <1>2, <1>3 DEF Serves

\* A connected player is reached on his own connection: no other has his
\* descriptor.
LEMMA ToServes ==
  ASSUME Inv, NEW o \in srv.players, NEW m
  PROVE  Serves(To(o, m), o)
<1>1. AtSocketOf(srv, o) = o
  BY DEF Inv, Sound, OneOwner, AtSocketOf, get_player_by_fd
<1>2. o # nullptr
  BY ObjectsAssumption, WorldFields DEF Inv, TypeOK
<1> QED
  BY <1>1, <1>2 DEF Serves, To, Reaches

LEMMA OpponentIs ==
  ASSUME NEW w \in World, NEW o \in Objects
  PROVE  Opponent(w, o) \in Objects \cup {nullptr}
<1>1. w.player[o].game \in GameIds \cup {nullptr}
  BY DEF World, Player
<1> QED
  BY <1>1, OpponentType DEF Opponent

LEMMA StatusType ==
  ASSUME NEW w \in World, NEW o \in Objects
  PROVE  Status(w, o) \in Letters
<1>1. /\ \A p \in Objects : w.player[p].can_play \in BOOLEAN
      /\ "GAME_STATUS" \in Words
  BY DEF World, Player, Words
<1>2. CASE Opponent(w, o) = nullptr
  BY <1>1, <1>2, MessageType DEF Status
<1>3. CASE Opponent(w, o) # nullptr
  BY <1>1, <1>3, OpponentIs, MessageType DEF Status
<1> QED
  BY <1>2, <1>3

LEMMA StatusToType ==
  ASSUME NEW w \in World, NEW o \in Objects \cup {nullptr}
  PROVE  StatusTo(w, o) \in Post
<1> DEFINE r == AtSocketOf(w, o)
           farewell == IF r \in srv'.players THEN nothing ELSE To(o, Message("KICKED", ""))
<1>1. "KICKED" \in Words
  BY DEF Words
<1>2. farewell \in Post
  BY <1>1, MessageType, ToType, NothingType
<1>3. CASE ~Present(w, o) \/ r = nullptr
  BY <1>3, NothingType DEF StatusTo
<1>4. CASE ~(~Present(w, o) \/ r = nullptr)
  <2>1. r \in Objects
    BY <1>4, AtSocketType DEF Present
  <2>2. To(o, Status(w, r)) \in Post
    BY <2>1, StatusType, ToType
  <2>3. StatusTo(w, o) = To(o, Status(w, r)) ++ farewell
    BY <1>4 DEF StatusTo
  <2> HIDE DEF farewell
  <2> QED
    BY <1>2, <2>2, <2>3, JoinedType
<1> QED
  BY <1>3, <1>4

LEMMA NoticedType ==
  ASSUME NEW o, NEW notice \in Notice
  PROVE  Noticed(o, notice) \in Post /\ Verdicts(o) \in Post
<1>1. notice \in Words /\ "GAME_OVER" \in Words
  BY DEF Words
<1> QED
  BY <1>1, MessageType, ToType, NothingType DEF Noticed, Verdicts

LEMMA AnswerType ==
  ASSUME Inv, NEW o \in srv.players, NEW cmd \in Words
  PROVE  Answer(o, cmd) \in Post /\ Serves(Answer(o, cmd), o)
<1> DEFINE ok   == To(o, Message(cmd, "OK"))
           err  == To(o, Message(cmd, "ERR"))
           kick == IF o \in srv'.players THEN nothing ELSE To(o, Message("KICKED", ""))
<1>0. "KICKED" \in Words
  BY DEF Words
<1>1. ok \in Post /\ err \in Post /\ kick \in Post /\ Serves(ok, o) /\ Serves(err, o)
  BY <1>0, MessageType, ToType, NothingType, ToServes
<1>2. Answer(o, cmd) = IF ~Refused(o) THEN ok ELSE err ++ kick
  BY DEF Answer
<1> HIDE DEF ok, err, kick
<1> QED
  BY <1>1, <1>2, JoinedType

\* The mail of every command, and that of every command but OK serves its client.
Replies(mail, o) == mail \in Post /\ Serves(mail, o)

LEMMA RepliesJoin ==
  ASSUME NEW a, NEW b, NEW o
  PROVE  /\ Replies(a, o) /\ b \in Post => Replies(a ++ b, o)
         /\ a \in Post /\ Replies(b, o) => Replies(a ++ b, o)
BY JoinedType DEF Replies

LEMMA CommandMail ==
  ASSUME Inv, Inv', NEW o \in srv.players
  PROVE  /\ \A cmd \in Words : Replies(Answer(o, cmd), o)
         /\ Replies(LoginMail(o), o)
         /\ Replies(ListMail(o), o)
         /\ \A g : Replies(JoinMail(o, g), o)
         /\ Replies(RerollMail(o), o)
<1>1. \A cmd \in Words : Replies(Answer(o, cmd), o)
  BY AnswerType DEF Replies
<1>a. {"NAME_TAKEN", "LOGIN", "LIST_GAMES", "JOIN_GAME", "REROLL"} \subseteq Words
  BY DEF Words, C!Command
<1>b. {"JOIN_GAME", "REROLL_OPPONENT"} \subseteq Notice
  BY DEF Notice
<1>2. Replies(LoginMail(o), o)
  BY <1>1, <1>a, MessageType, ToType, ToServes DEF LoginMail, Replies
<1>3. Replies(ListMail(o), o)
  <2> DEFINE open == {h \in srv.games : srv.game[h].state = "WAITING_FOR_PLAYERS"}
  <2>1. open \in SUBSET GameIds
    BY WorldFields DEF Inv, TypeOK
  <2> HIDE DEF open
  <2>2. [Message("LIST_GAMES", "OK") EXCEPT !.listed = open] \in Letters
    BY <1>a, <2>1, MessageType
  <2> QED
    BY <1>1, <1>a, <2>2, ToType, ToServes DEF ListMail, Replies, open
<1>4. ASSUME NEW g
      PROVE  Replies(JoinMail(o, g), o)
  <2> DEFINE more == IF Refused(o) THEN nothing ELSE Noticed(srv.game[g].player1, "JOIN_GAME")
  <2>1. more \in Post
    BY <1>b, NothingType, NoticedType
  <2>2. JoinMail(o, g) = Answer(o, "JOIN_GAME") ++ more
    BY DEF JoinMail
  <2> HIDE DEF more
  <2> QED
    BY <1>1, <1>a, <2>1, <2>2, RepliesJoin
<1>5. Replies(RerollMail(o), o)
  BY <1>1, <1>a, <1>b, NoticedType, RepliesJoin DEF RerollMail
<1> QED
  BY <1>1, <1>2, <1>3, <1>4, <1>5

LEMMA LeftReplies ==
  ASSUME Inv, NEW o \in srv.players
  PROVE  Replies(LeftMail(o), o)
<1> DEFINE q == Opponent(srv, o)
           a == StatusTo(srv, q)
           b == To(o, Message("LEAVE_GAME", "OK"))
           c == Noticed(q, "LEAVE_GAME_OPPONENT")
           d == Verdicts(q)
<1>1. srv \in World /\ o \in Objects
  BY WorldFields DEF Inv, TypeOK
<1>2. q \in Objects \cup {nullptr}
  BY <1>1, OpponentIs
<1>a. "LEAVE_GAME" \in Words /\ "LEAVE_GAME_OPPONENT" \in Notice
  BY DEF Words, C!Command, Notice
<1>3. a \in Post /\ Replies(b, o) /\ c \in Post /\ d \in Post
  BY <1>a, <1>1, <1>2, StatusToType, ToType, ToServes, MessageType, NoticedType DEF Replies
<1>4. LeftMail(o) = a ++ b ++ c ++ d
  BY DEF LeftMail
<1> HIDE DEF a, b, c, d
<1>5. Replies(a ++ b, o)
  BY <1>3, RepliesJoin
<1>6. Replies(a ++ b ++ c, o)
  BY <1>3, <1>5, RepliesJoin
<1> QED
  BY <1>3, <1>4, <1>6, RepliesJoin

LEMMA SessionMail ==
  ASSUME Inv, Inv', NEW o \in srv.players
  PROVE  /\ Replies(LeaveMail(o), o)
         /\ Replies(LogoutMail(o), o)
         /\ \A name : Replies(ReconnectMail(o, name), o)
         /\ DropMail(o) \in Post
<1>1. {"LEAVE_GAME", "GOODBYE", "RECONNECT"} \subseteq Words /\ o \in Objects
  BY WorldFields DEF Words, C!Command, Inv, TypeOK
<1>2. {"OPPONENT_RECONNECTED", "OPPONENT_DISCONNECTED"} \subseteq Notice \cap Words
  BY DEF Notice, Words
<1>3. Replies(LeftMail(o), o) /\ \A cmd \in Words : Replies(Answer(o, cmd), o)
  BY LeftReplies, AnswerType DEF Replies
<1>4. /\ To(o, Message("LEAVE_GAME", "ERR")) \in Post
      /\ To(o, Message("LEAVE_GAME", "OK")) \in Post
      /\ Replies(To(o, Message("GOODBYE", "")), o)
  BY <1>1, MessageType, ToType, ToServes DEF Replies
<1>5. Replies(LeaveMail(o), o)
  BY <1>1, <1>3 DEF LeaveMail
<1>6. Replies(LogoutMail(o), o)
  <2> DEFINE left == IF srv.player[o].game = nullptr THEN nothing
                     ELSE IF MayLeave(o) THEN LeftMail(o)
                     ELSE To(o, Message("LEAVE_GAME", "ERR"))
  <2>1. left \in Post
    BY <1>3, <1>4, NothingType DEF Replies
  <2>2. LogoutMail(o) = left ++ To(o, Message("GOODBYE", ""))
    BY DEF LogoutMail
  <2> HIDE DEF left
  <2> QED
    BY <1>4, <2>1, <2>2, RepliesJoin
<1>7. ASSUME NEW name
      PROVE  Replies(ReconnectMail(o, name), o)
  <2> DEFINE k == CHOOSE k \in DroppedAs(srv, name) : TRUE
             p == srv.disconnected_players[k]
             q == Opponent(srv, p)
             reply  == Answer(o, "RECONNECT")
             left   == To(o, Message("LEAVE_GAME", "OK"))
             notice == To(q, Message("OPPONENT_RECONNECTED", ""))
             status == To(o, Status(srv', o))
  <2>1. Replies(reply, o) /\ left \in Post
    BY <1>1, <1>3, <1>4
  <2>2. notice \in Post /\ status \in Post
    BY <1>1, <1>2, MessageType, ToType, StatusType DEF Inv, TypeOK
  <2>3. ReconnectMail(o, name) \in {reply, reply ++ left, notice ++ reply ++ status}
    BY DEF ReconnectMail
  <2> HIDE DEF reply, left, notice, status
  <2>4. Replies(reply ++ left, o) /\ Replies(notice ++ reply, o)
    BY <2>1, <2>2, RepliesJoin
  <2>5. Replies(notice ++ reply ++ status, o)
    BY <2>2, <2>4, RepliesJoin
  <2> QED
    BY <2>1, <2>3, <2>4, <2>5
<1>8. DropMail(o) \in Post
  BY <1>2, NoticedType DEF DropMail
<1> QED
  BY <1>5, <1>6, <1>7, <1>8

LEMMA SweepMail ==
  ASSUME Inv
  PROVE  /\ \A g \in GameIds : /\ StatusMail(g) \in Post
                              /\ StatusMail(g) ++ VerdictMail(g) \in Post
         /\ srv.disconnected_players # << >> => ExpireMail \in Post
<1>1. srv \in World
  BY DEF Inv, TypeOK
<1>2. \A o : Verdicts(o) \in Post
  BY NoticedType DEF Notice
<1>3. ASSUME NEW g \in GameIds
      PROVE  StatusMail(g) \in Post /\ VerdictMail(g) \in Post
  <2>1. /\ srv.game[g].player1 \in Objects \cup {nullptr}
        /\ srv.game[g].player2 \in Objects \cup {nullptr}
    BY <1>1 DEF World, Game
  <2>2. /\ StatusTo(srv, srv.game[g].player1) \in Post
        /\ StatusTo(srv, srv.game[g].player2) \in Post
    BY <1>1, <2>1, StatusToType
  <2> QED
    BY <1>2, <2>2, JoinedType DEF StatusMail, VerdictMail
<1>4. ASSUME srv.disconnected_players # << >>
      PROVE  ExpireMail \in Post
  <2>1. Head(srv.disconnected_players) \in Objects
    BY <1>1, <1>4, WorldFields
  <2>2. Opponent(srv, Head(srv.disconnected_players)) \in Objects \cup {nullptr}
    BY <1>1, <2>1, OpponentIs
  <2> QED
    BY <1>1, <1>2, <2>2, StatusToType, JoinedType DEF ExpireMail
<1> QED
  BY <1>3, <1>4, JoinedType

-----------------------------------------------------------------------------
(* The steps of the server.                                                *)

LEMMA CrashedIsEmpty ==
  ASSUME NEW w, Settle(w) \in World, Settle(w).crashed
  PROVE  Settle(w).players = {}
<1>1. CASE w.crashed
  BY <1>1 DEF Settle, Crash, InitWorld
<1>2. CASE ~w.crashed
  BY <1>2 DEF Settle, Collect, World
<1> QED
  BY <1>1, <1>2

LEMMA NonEmpty ==
  ASSUME NEW S, NEW r \in Seq(S), NEW s \in Seq(S), NEW t \in Seq(S),
         r # << >> \/ s # << >>
  PROVE  r \o s \o t # << >>
<1>1. Len(r \o s \o t) = Len(r) + Len(s) + Len(t)
  OBVIOUS
<1>2. Len(r) > 0 \/ Len(s) > 0
  BY EmptySeq
<1>3. Len(r \o s \o t) > 0
  BY <1>1, <1>2
<1> QED
  BY <1>3, EmptySeq

LEMMA EOFStays ==
  ASSUME NEW S, NEW r \in Seq(S), NEW s \in Seq(S), NEW t \in Seq(S),
         HasEOF(r) \/ t = <<C!EOF>>
  PROVE  HasEOF(r \o s \o t)
<1> DEFINE all == r \o s \o t
<1>1. /\ all \in Seq(S) /\ Len(all) = Len(r) + Len(s) + Len(t)
      /\ \A i \in 1 .. Len(r) : all[i] = r[i]
      /\ \A i \in 1 .. Len(t) : all[Len(r) + Len(s) + i] = t[i]
  OBVIOUS
<1> HIDE DEF all
<1>a. DOMAIN all = 1 .. Len(all)
  BY <1>1
<1>2. CASE HasEOF(r)
  <2>1. PICK i \in 1 .. Len(r) : r[i] = C!EOF
    BY <1>2 DEF HasEOF
  <2>2. i \in 1 .. Len(all) /\ all[i] = C!EOF
    BY <1>1, <2>1
  <2>3. HasEOF(all)
    BY <1>a, <2>2 DEF HasEOF
  <2> QED
    BY <2>3 DEF all
<1>3. CASE t = <<C!EOF>>
  <2>1. Len(t) = 1 /\ t[1] = C!EOF
    BY <1>3
  <2>2. Len(all) \in 1 .. Len(all) /\ all[Len(all)] = C!EOF
    BY <1>1, <2>1
  <2>3. HasEOF(all)
    BY <1>a, <2>2 DEF HasEOF
  <2> QED
    BY <2>3 DEF all
<1> QED
  BY <1>2, <1>3

\* Mail is delivered: it is lost only with the process, and a client whose
\* connection closes reads its end.
LEMMA DeliveredInv ==
  ASSUME SessionInv, NEW mail \in Post, Delivered(mail),
         srv'.crashed => srv'.players = {},
         up' \in [Objects -> Seq(Requests \cup {C!EOF})],
         \A o \in srv.players \cap srv'.players :
           up[o] \in Seq(Requests) => up'[o] \in Seq(Requests),
         \A n \in Names : /\ conn[n] \in srv.players \cap srv'.players
                          /\ up[conn[n]] \in Seq(Requests) /\ Asks(up[conn[n]])
                          => mail[n] # << >> \/ Asks(up'[conn[n]])
  PROVE  SessionInv'
<1> DEFINE closed(n) == conn[n] # nullptr /\ conn[n] \in srv.players \ srv'.players
           post(n) == IF srv'.crashed THEN << >> ELSE mail[n]
           last(n) == IF closed(n) THEN <<C!EOF>> ELSE << >>
<1>1. /\ SessionTypes /\ client' = client /\ rare' = rare
      /\ \A n \in Names : Linked(n) /\ Ended(n) /\ Asked(n)
  BY DEF SessionInv, Delivered
<1>2. /\ down' = [n \in Names |-> down[n] \o post(n) \o last(n)]
      /\ conn' = [n \in Names |-> IF closed(n) THEN nullptr ELSE conn[n]]
  BY DEF Delivered, ClosedFor
<1>3. \A n \in Names : down[n] \in Seq(Mail) /\ post(n) \in Seq(Mail)
                      /\ last(n) \in Seq(Mail)
  <2>1. ASSUME NEW n \in Names
        PROVE  mail[n] \in Seq(Mail)
    BY DEF Post, Mail
  <2> QED
    BY <1>1, <2>1, EmptySeq, EOFType, ShortSequences DEF SessionTypes
<1> HIDE DEF post, last
<1>4. SessionTypes'
  BY <1>1, <1>2, <1>3 DEF SessionTypes
<1>5. ASSUME NEW n \in Names
      PROVE  (Linked(n) /\ Ended(n) /\ Asked(n))'
  <2>1. /\ down'[n] = down[n] \o post(n) \o last(n)
        /\ conn'[n] = IF closed(n) THEN nullptr ELSE conn[n]
        /\ Linked(n) /\ Ended(n) /\ Asked(n) /\ client'[n] = client[n]
    BY <1>1, <1>2
  <2>2. ASSUME HasEOF(down[n]) \/ closed(n)
        PROVE  HasEOF(down'[n])
    <3>1. HasEOF(down[n]) \/ last(n) = <<C!EOF>>
      BY <2>2 DEF last
    <3> QED
      BY <1>3, <2>1, <3>1, EOFStays
  <2>3. Linked(n)'
    <3>1. ASSUME conn'[n] # nullptr
          PROVE  /\ conn'[n] = conn[n] /\ conn[n] \in srv.players \cap srv'.players
                 /\ up[conn[n]] \in Seq(Requests)
      BY <2>1, <3>1 DEF Linked
    <3>2. \A m \in Names : conn'[m] # nullptr => conn'[m] = conn[m]
      BY <1>2
    <3> QED
      BY <1>1, <3>1, <3>2 DEF Linked
  <2>4. Ended(n)'
    <3>1. Ended(n) /\ closed(n) => conn[n] # nullptr
      OBVIOUS
    <3> QED
      BY <2>1, <2>2 DEF Ended, HasEOF
  <2>5. Asked(n)'
    <3>1. CASE closed(n)
      BY <2>1, <2>2, <3>1 DEF Asked, HasEOF
    <3>2. CASE ~closed(n) /\ down[n] # << >>
      <4>1. down'[n] # << >>
        BY <1>3, <2>1, <3>2, NonEmpty
      <4> QED
        BY <4>1 DEF Asked
    <3>3. CASE ~closed(n) /\ down[n] = << >> /\ Expects(client[n])
      <4>1. conn[n] # nullptr /\ Asks(up[conn[n]])
        BY <2>1, <3>3 DEF Asked
      <4>2. /\ conn'[n] = conn[n] /\ conn[n] \in srv.players \cap srv'.players
            /\ up[conn[n]] \in Seq(Requests)
        BY <2>1, <3>3, <4>1 DEF Linked
      <4>3. CASE Asks(up'[conn[n]])
        BY <4>1, <4>2, <4>3 DEF Asked, Asks
      <4>4. CASE mail[n] # << >>
        <5>1. post(n) = mail[n]
          BY <4>2 DEF post
        <5>2. down'[n] # << >>
          BY <1>3, <2>1, <4>4, <5>1, NonEmpty
        <5> QED
          BY <5>2 DEF Asked
      <4> QED
        BY <4>1, <4>2, <4>3, <4>4
    <3>4. CASE ~Expects(client[n])
      BY <2>1, <3>4 DEF Asked, Expects, C!Command
    <3> QED
      BY <3>1, <3>2, <3>3, <3>4
  <2> QED
    BY <2>3, <2>4, <2>5
<1> QED
  BY <1>4, <1>5 DEF SessionInv

\* What serving connection o leaves of what was sent.
LEMMA TookProperties ==
  ASSUME SessionTypes, NEW o \in Objects, up[o] # << >>, Took(o)
  PROVE  /\ up' \in [Objects -> Seq(Requests \cup {C!EOF})]
         /\ \A p \in Objects : up[p] \in Seq(Requests) => up'[p] \in Seq(Requests)
         /\ \A p \in srv'.players \ {o} : up'[p] = up[p] \/ p \notin Objects
         /\ o \in srv'.players /\ Arrived(o) # Len(up[o]) /\ Asks(up[o]) => Asks(up'[o])
<1> DEFINE All  == Requests \cup {C!EOF}
           rest == SubSeq(up[o], Arrived(o) + 1, Len(up[o]))
<1>1. \A p \in Objects : up[p] \in Seq(All)
  BY DEF SessionTypes
<1>2. Arrived(o) \in 1 .. Len(up[o])
  BY <1>1, ArrivedType
<1>3. up' = [p \in Objects |-> IF p \notin srv'.players THEN << >>
                             ELSE IF p = o THEN rest ELSE up[p]]
  BY DEF Took
<1>4. /\ rest \in Seq(All)
      /\ up[o] \in Seq(Requests) => rest \in Seq(Requests)
      /\ Asks(up[o]) /\ Arrived(o) # Len(up[o]) => Asks(rest)
  BY <1>1, <1>2, SuffixAsks
<1> HIDE DEF rest, All
<1>5. << >> \in Seq(All) /\ << >> \in Seq(Requests)
  BY EmptySeq
<1>6. up' \in [Objects -> Seq(All)]
  BY <1>1, <1>3, <1>4, <1>5
<1>7. ASSUME NEW p \in Objects, up[p] \in Seq(Requests)
      PROVE  up'[p] \in Seq(Requests)
  BY <1>3, <1>4, <1>5, <1>7
<1>8. \A p \in srv'.players \ {o} : up'[p] = up[p] \/ p \notin Objects
  BY <1>3
<1>9. o \in srv'.players => up'[o] = rest
  BY <1>3
<1> QED
  BY <1>4, <1>6, <1>7, <1>8, <1>9 DEF Asks, All

\* The server has served connection o and sent mail.
LEMMA HandledInv ==
  ASSUME Inv, Inv', SessionInv, NEW o \in srv.players, up[o] # << >>,
         NEW mail \in Post, Handled(o, mail), NEW w, srv' = Settle(w),
         Serves(mail, o) \/ Commanded(o).cmd = "OK" \/ Commanded(o) = C!EOF
  PROVE  SessionInv'
<1>1. SessionTypes /\ o \in Objects /\ Took(o) /\ Delivered(mail)
  BY WorldFields DEF SessionInv, Handled, Inv, TypeOK
<1>2. srv'.crashed => srv'.players = {}
  BY CrashedIsEmpty DEF Inv, TypeOK
<1>3. srv.players \subseteq Objects
  BY WorldFields DEF Inv, TypeOK
<1>4. ASSUME NEW n \in Names, conn[n] \in srv.players \cap srv'.players,
             up[conn[n]] \in Seq(Requests), Asks(up[conn[n]]), mail[n] = << >>
      PROVE  Asks(up'[conn[n]])
  <2>1. CASE conn[n] # o
    <3>1. up'[conn[n]] = up[conn[n]]
      BY <1>1, <1>3, <1>4, <2>1, TookProperties
    <3> QED
      BY <1>4, <3>1 DEF Asks
  <2>2. CASE conn[n] = o
    <3>1. up[o] \in Seq(Requests) /\ Asks(up[o]) /\ o \in srv'.players
      BY <1>4, <2>2
    <3>2. ~Serves(mail, o)
      BY <1>4, <2>2 DEF Serves
    <3>3. up[o][1] \in Requests
      BY <3>1, EmptySeq DEF Asks
    <3>4. Commanded(o) # C!EOF
      <4>1. Commanded(o) \in {up[o][1], C!Ask(unknown)}
        BY DEF Commanded
      <4>2. C!EOF.cmd = "EOF" /\ C!Ask(unknown).cmd = "UNKNOWN" /\ up[o][1].cmd # "EOF"
        BY <3>3 DEF C!EOF, C!Ask, unknown, Requests
      <4> QED
        BY <4>1, <4>2
    <3>5. Arrived(o) = 1 /\ up[o][1].cmd = "OK"
      BY <1>1, <3>2, <3>4, OkIsAlone
    <3>6. Arrived(o) # Len(up[o])
      BY <3>1, <3>5 DEF Asks
    <3> QED
      BY <1>1, <2>2, <3>1, <3>6, TookProperties
  <2> QED
    BY <2>1, <2>2
<1>5. \A p \in srv.players \cap srv'.players :
        up[p] \in Seq(Requests) => up'[p] \in Seq(Requests)
  BY <1>1, <1>3, TookProperties
<1>6. up' \in [Objects -> Seq(Requests \cup {C!EOF})]
  BY <1>1, TookProperties
<1> QED
  BY <1>1, <1>2, <1>4, <1>5, <1>6, DeliveredInv

\* Every step of the server that serves a connection is one of module Server.
LEMMA HandleStep ==
  ASSUME Inv, SessionInv, NEW o \in Objects, Handle(o)
  PROVE  Next /\ SessionInv'
<1> DEFINE request == Commanded(o)
           cmd == request.cmd
           served == \E w : srv' = Settle(w)
<1>1. /\ o \in srv.players /\ up[o] # << >> /\ SessionTypes
  BY DEF Handle, SessionInv
<1>2. /\ cmd \in {"LOGIN", "RECONNECT"} => request.arg \in Names
      /\ cmd = "JOIN_GAME" => request.arg \in GameIds
  BY <1>1, CommandedType
<1>3. ASSUME Client(o)
      PROVE  Next /\ Inv'
  <2>1. Next
    BY <1>3 DEF Next, Client
  <2> QED
    BY <2>1, NextInv
<1>4. \A w : Serve(o, w) => served
  BY DEF Serve, Served
<1>5. ASSUME NEW mail, Replies(mail, o), Handled(o, mail), Inv', served
      PROVE  SessionInv'
  BY <1>1, <1>5, HandledInv DEF Replies
<1>w. {"HELLO", "CMD", "CREATE_GAME", "ACCEPT_END_OF_ROUND"} \subseteq Words
  BY DEF Words, C!Command
<1>a. CASE cmd = "HELLO" /\ Hello(o) /\ Handled(o, Answer(o, "HELLO"))
  <2>1. Client(o) /\ served
    BY <1>2, <1>4, <1>a DEF Client, Hello
  <2> QED
    BY <1>1, <1>3, <1>5, <1>a, <2>1, <1>w, CommandMail
<1>b. CASE cmd = "LOGIN" /\ Login(o, request.arg) /\ Handled(o, LoginMail(o))
  <2>1. Client(o) /\ served
    BY <1>2, <1>4, <1>b DEF Client, Login
  <2> QED
    BY <1>1, <1>3, <1>5, <1>b, <2>1, CommandMail
<1>c. CASE cmd = "RECONNECT" /\ Reconnect(o, request.arg)
             /\ Handled(o, ReconnectMail(o, request.arg))
  <2>1. Client(o) /\ served
    BY <1>2, <1>4, <1>c DEF Client, Reconnect
  <2> QED
    BY <1>1, <1>3, <1>5, <1>c, <2>1, SessionMail
<1>d. CASE cmd = "OK" /\ OkResponse(o) /\ Handled(o, nothing)
  <2>1. Client(o) /\ served
    BY <1>2, <1>4, <1>d DEF Client, OkResponse
  <2> QED
    BY <1>1, <1>3, <1>d, <2>1, NothingType, HandledInv
<1>e. CASE cmd = unknown /\ Reject(o) /\ Handled(o, Answer(o, "CMD"))
  <2>1. Client(o) /\ served
    BY <1>2, <1>4, <1>e DEF Client, Reject
  <2> QED
    BY <1>1, <1>3, <1>5, <1>e, <2>1, <1>w, CommandMail
<1>f. CASE cmd = "LOGOUT" /\ Logout(o) /\ Handled(o, LogoutMail(o))
  <2>1. Client(o) /\ served
    BY <1>2, <1>4, <1>f DEF Client, Logout
  <2> QED
    BY <1>1, <1>3, <1>5, <1>f, <2>1, SessionMail
<1>g. CASE cmd = "CREATE_GAME" /\ CreateGame(o) /\ Handled(o, Answer(o, cmd))
  <2>1. Client(o) /\ served
    BY <1>2, <1>4, <1>g DEF Client, CreateGame
  <2> QED
    BY <1>1, <1>3, <1>5, <1>g, <2>1, <1>w, CommandMail
<1>h. CASE cmd = "JOIN_GAME" /\ JoinGame(o, request.arg)
             /\ Handled(o, JoinMail(o, request.arg))
  <2>1. Client(o) /\ served
    BY <1>2, <1>4, <1>h DEF Client, JoinGame
  <2> QED
    BY <1>1, <1>3, <1>5, <1>h, <2>1, CommandMail
<1>i. CASE cmd = "LEAVE_GAME" /\ LeaveGame(o) /\ Handled(o, LeaveMail(o))
  <2>1. Client(o) /\ served
    BY <1>2, <1>4, <1>i DEF Client, LeaveGame
  <2> QED
    BY <1>1, <1>3, <1>5, <1>i, <2>1, SessionMail
<1>j. CASE cmd = "LIST_GAMES" /\ ListGames(o) /\ Handled(o, ListMail(o))
  <2>1. Client(o) /\ served
    BY <1>2, <1>4, <1>j DEF Client, ListGames
  <2> QED
    BY <1>1, <1>3, <1>5, <1>j, <2>1, CommandMail
<1>k. CASE cmd = "REROLL" /\ (\E result \in Result : Reroll(o, result))
             /\ Handled(o, RerollMail(o))
  <2>1. Client(o) /\ served
    BY <1>2, <1>4, <1>k DEF Client, Reroll
  <2> QED
    BY <1>1, <1>3, <1>5, <1>k, <2>1, CommandMail
<1>l. CASE cmd = "ACCEPT_END_OF_ROUND" /\ AcceptEndOfRound(o)
             /\ Handled(o, Answer(o, cmd))
  <2>1. Client(o) /\ served
    BY <1>2, <1>4, <1>l DEF Client, AcceptEndOfRound
  <2> QED
    BY <1>1, <1>3, <1>5, <1>l, <2>1, <1>w, CommandMail
<1>m. CASE request = C!EOF /\ Drop(o) /\ Handled(o, DropMail(o))
  <2>1. Client(o) /\ served
    BY <1>2, <1>4, <1>m DEF Client, Drop
  <2> QED
    BY <1>1, <1>3, <1>m, <2>1, SessionMail, HandledInv
<1> QED
  BY <1>a, <1>b, <1>c, <1>d, <1>e, <1>f, <1>g, <1>h, <1>i, <1>j, <1>k, <1>l, <1>m DEF Handle

\* A step that sends nothing and connects or drops nobody.
LEMMA QuietStep ==
  ASSUME SessionInv, UNCHANGED wires, srv'.players = srv.players
  PROVE  SessionInv'
<1>1. SessionTypes'
  BY DEF SessionInv, SessionTypes, wires
<1>2. ASSUME NEW n \in Names
      PROVE  (Linked(n) /\ Ended(n) /\ Asked(n))'
  <2>1. Linked(n) /\ Ended(n) /\ Asked(n)
    BY DEF SessionInv
  <2>2. /\ client' = client /\ conn' = conn /\ up' = up /\ down' = down
    BY DEF wires
  <2>3. Linked(n)'
    BY <2>1, <2>2 DEF Linked
  <2>4. Ended(n)'
    BY <2>1, <2>2 DEF Ended, HasEOF
  <2>5. Asked(n)'
    BY <2>1, <2>2 DEF Asked, Expects, Asks, C!Command
  <2> QED
    BY <2>3, <2>4, <2>5
<1> QED
  BY <1>1, <1>2 DEF SessionInv

LEMMA AcceptStep ==
  ASSUME Inv, SessionInv, AcceptClient
  PROVE  Next /\ SessionInv'
<1>1. Next
  BY DEF AcceptClient, Next
<1>2. PICK n \in Connecting, o \in srv'.players \ srv.players : C!Connected(n, o)
  BY DEF AcceptClient
<1>3. /\ n \in Names /\ client[n] \in Views /\ SessionTypes
      /\ UNCHANGED <<down, rare>>
  BY DEF Connecting, AcceptClient, SessionInv, SessionTypes
<1>4. /\ srv.players \subseteq srv'.players /\ o \in Objects /\ o \notin srv.players
      /\ srv.players \subseteq Objects
  <2>1. Inv'
    BY <1>1, NextInv
  <2>2. srv \in World /\ ~srv.crashed
    BY DEF AcceptClient, Accept, Turn, Running, Inv, TypeOK
  <2>3. PICK q \in Objects, fd \in Sockets :
          Served(server_socket, [Quiet(srv) EXCEPT !.player[q] = NewPlayer(fd),
                                                   !.players = @ \cup {q}])
    BY DEF AcceptClient, Accept
  <2> DEFINE w == [Quiet(srv) EXCEPT !.player[q] = NewPlayer(fd), !.players = @ \cup {q}]
  <2>4. ~w.crashed /\ w.players = srv.players \cup {q}
    BY <2>2 DEF Quiet, World
  <2>5. srv' = Collect(w)
    BY <2>3, <2>4 DEF Served, Settle
  <2>6. srv'.players = w.players
    <3>1. w \in [{"player", "game", "players", "disconnected_players", "games", "sent",
                  "crashed"} -> {w.player, w.game, w.players, w.disconnected_players,
                                 w.games, w.sent, w.crashed}]
      BY <2>2 DEF Quiet, World
    <3> HIDE DEF w
    <3> QED
      BY <2>5, <3>1 DEF Collect
  <2> QED
    BY <2>1, <2>2, <2>4, <2>6, WorldFields DEF Inv, TypeOK
<1> DEFINE view == [client[n] EXCEPT !.awaiting = "HELLO"]
<1>5. view \in Views /\ view.awaiting = "HELLO"
  BY <1>3 DEF Views, C!ClientState
<1>6. <<C!Ask("HELLO")>> \in Seq(Requests) /\ Asks(<<C!Ask("HELLO")>>)
  <2>1. C!Ask("HELLO") \in Requests
    BY DEF Requests, C!Request, C!Ask
  <2> QED
    BY <2>1, ShortSequences DEF Asks, C!Ask
<1>7. /\ client' = [client EXCEPT ![n] = view]
      /\ conn' = [conn EXCEPT ![n] = o]
      /\ up' = [up EXCEPT ![o] = <<C!Ask("HELLO")>>]
  BY <1>2 DEF C!Connected
<1> DEFINE hello == <<C!Ask("HELLO")>>
<1> HIDE DEF view, hello
<1>8. SessionTypes'
  <2>1. hello \in Seq(Requests \cup {C!EOF})
    BY <1>6 DEF hello
  <2> QED
    BY <1>3, <1>4, <1>5, <1>7, <2>1 DEF SessionTypes, hello
<1>9. ASSUME NEW m \in Names
      PROVE  (Linked(m) /\ Ended(m) /\ Asked(m))'
  <2>1. Linked(m) /\ Ended(m) /\ Asked(m)
    BY DEF SessionInv
  <2>2. \A i \in Names : conn[i] # o
    BY <1>4, ObjectsAssumption DEF SessionInv, Linked
  <2>3. CASE m = n
    <3>1. conn'[m] = o /\ client'[m] = view /\ up'[o] = hello
      BY <1>3, <1>4, <1>7, <2>3 DEF SessionTypes, hello
    <3>2. \A i \in Names : conn'[i] = o => i = n
      BY <1>3, <1>7, <2>2 DEF SessionTypes
    <3>3. o \in srv'.players /\ o # nullptr
      BY <1>2, <1>4, ObjectsAssumption
    <3>4. Linked(m)'
      BY <1>6, <2>3, <3>1, <3>2, <3>3 DEF Linked, hello
    <3>5. Ended(m)'
      BY <3>1, <3>3 DEF Ended
    <3>6. Asked(m)'
      <4>1. Asks(hello)
        BY <1>6 DEF hello
      <4> QED
        BY <3>1, <3>3, <4>1 DEF Asked, Asks
    <3> QED
      BY <3>4, <3>5, <3>6
  <2>4. CASE m # n
    <3>1. conn'[m] = conn[m] /\ client'[m] = client[m] /\ down'[m] = down[m]
      BY <1>3, <1>7, <2>4 DEF SessionTypes
    <3>2. conn[m] # nullptr => up'[conn[m]] = up[conn[m]]
      BY <1>3, <1>4, <1>7, <2>1, <2>2 DEF SessionTypes, Linked
    <3>3. \A i \in Names : conn'[i] \in {conn[i], o}
      BY <1>3, <1>7 DEF SessionTypes
    <3>a. conn'[n] = o
      BY <1>3, <1>7 DEF SessionTypes
    <3>b. \A i \in Names : i # n => conn'[i] = conn[i]
      BY <1>3, <1>7 DEF SessionTypes
    <3>4. Linked(m)'
      BY <1>4, <2>1, <2>2, <3>1, <3>2, <3>a, <3>b DEF Linked
    <3>5. Ended(m)'
      BY <2>1, <3>1 DEF Ended, HasEOF
    <3>6. Asked(m)'
      BY <2>1, <3>1, <3>2 DEF Asked, Expects, Asks, C!Command
    <3> QED
      BY <3>4, <3>5, <3>6
  <2> QED
    BY <2>3, <2>4
<1> QED
  BY <1>1, <1>8, <1>9 DEF SessionInv

LEMMA SweepStep ==
  ASSUME Inv, SessionInv, Sweep
  PROVE  Next /\ SessionInv'
<1> DEFINE posted == \E mail \in Post : Delivered(mail)
           swept  == \E w : srv' = Settle(w)
<1>1. Next /\ posted /\ swept
  <2>1. CASE \E g \in GameIds : AnnounceNewRound(g) /\ Delivered(StatusMail(g))
    BY <2>1, SweepMail DEF Next, AnnounceNewRound, Swept
  <2>2. CASE \E g \in GameIds : AnnounceEndOfRound(g) /\ Delivered(StatusMail(g))
    BY <2>2, SweepMail DEF Next, AnnounceEndOfRound, Swept
  <2>3. CASE \E g \in GameIds : /\ AnnounceGameOver(g)
                               /\ Delivered(StatusMail(g) ++ VerdictMail(g))
    BY <2>3, SweepMail DEF Next, AnnounceGameOver, Swept
  <2>4. CASE Expire /\ Delivered(ExpireMail)
    BY <2>4, SweepMail DEF Next, Expire, MayExpire, Swept
  <2>5. CASE Reap /\ Delivered(nothing)
    BY <2>5, NothingType DEF Next, Reap
  <2> QED
    BY <2>1, <2>2, <2>3, <2>4, <2>5 DEF Sweep
<1>2. srv'.crashed => srv'.players = {}
  <2>1. Inv'
    BY <1>1, NextInv
  <2> QED
    BY <1>1, <2>1, CrashedIsEmpty DEF Inv, TypeOK
<1>3. up' = up /\ SessionTypes
  BY DEF Sweep, SessionInv
<1>4. PICK mail \in Post : Delivered(mail)
  BY <1>1
<1>5. \A n \in Names : Asks(up[conn[n]]) => Asks(up'[conn[n]])
  BY <1>3 DEF Asks
<1>6. up' \in [Objects -> Seq(Requests \cup {C!EOF})]
  BY <1>3 DEF SessionTypes
<1>7. SessionInv'
  BY <1>2, <1>3, <1>4, <1>5, <1>6, DeliveredInv
<1> QED
  BY <1>1, <1>7

-----------------------------------------------------------------------------
(* The invariant and the refinement.                                       *)

LEMMA SessionStep ==
  ASSUME Inv, SessionInv, [SessionNext]_svars
  PROVE  [Next]_vars /\ Inv' /\ SessionInv'
<1>1. CASE SelectReady
  <2>1. Next /\ UNCHANGED wires /\ srv'.players = srv.players
    BY <1>1 DEF SelectReady, Next, Select, Quiet, Inv, TypeOK, World
  <2> QED
    BY <2>1, QuietStep, NextInv
<1>2. CASE AcceptClient
  BY <1>2, AcceptStep, NextInv
<1>3. CASE \E o \in Objects : Handle(o)
  BY <1>3, HandleStep, NextInv
<1>4. CASE Sweep
  BY <1>4, SweepStep, NextInv
<1>5. CASE \E n \in Names : ClientStep(n)
  <2>1. UNCHANGED vars
    BY <1>5 DEF ClientStep, Receive
  <2>2. Inv'
    BY <2>1, NextInv
  <2> QED
    BY <1>5, <2>1, <2>2, ClientInvariance
<1>6. CASE UNCHANGED svars
  <2>1. UNCHANGED vars /\ UNCHANGED wires /\ srv'.players = srv.players
    BY <1>6 DEF svars, vars
  <2> QED
    BY <2>1, QuietStep, NextInv
<1> QED
  BY <1>1, <1>2, <1>3, <1>4, <1>5, <1>6 DEF SessionNext, ServerStep

LEMMA EOFIsRequest == C!EOF \in C!Request
BY DEF C!EOF, C!Ask, C!Request

LEMMA SessionBegins == SessionInit => Init /\ Inv /\ SessionInv
<1> SUFFICES ASSUME SessionInit PROVE Init /\ Inv /\ SessionInv
  OBVIOUS
<1>1. Init /\ Inv
  BY InitWorldSound DEF SessionInit, Init, Inv, TypeOK, Phase, Sound
<1>2. /\ client = [n \in Names |-> C!Off] /\ conn = [n \in Names |-> nullptr]
      /\ up = [o \in Objects |-> << >>] /\ down = [n \in Names |-> << >>]
      /\ rare = 0
  BY DEF SessionInit, C!ClientInit
<1>3. SessionTypes
  BY <1>2, OffType, EmptySeq, RareAssumption DEF SessionTypes
<1>4. ASSUME NEW n \in Names
      PROVE  Linked(n) /\ Ended(n) /\ Asked(n)
  BY <1>2, OffType DEF Linked, Ended, Asked, Expects, C!Command
<1> QED
  BY <1>1, <1>3, <1>4 DEF SessionInv

LEMMA SessionInvariance == SessionSpec => Spec /\ [](Inv /\ SessionInv)
<1>1. SessionInit => Init /\ Inv /\ SessionInv
  BY SessionBegins
<1>2. Inv /\ SessionInv /\ [SessionNext]_svars => [Next]_vars /\ Inv' /\ SessionInv'
  BY SessionStep
<1> QED
  BY <1>1, <1>2, PTL DEF SessionSpec, Spec

-----------------------------------------------------------------------------
(* The theorems.                                                           *)

\* The server that serves the clients of module Client, with its connections,
\* its replies and its notices, takes only steps of module Server: what is
\* proved there of clients that send anything holds of these (Server::run and
\* the loop of client.py).
THEOREM SessionImplementsServer == SessionSpec => Spec
BY SessionInvariance, PTL

\* The views of the clients, their connections and what is under way keep their
\* types, whatever is merged, lost, clicked or refused.
THEOREM SessionTypeCorrect == SessionSpec => []SessionTypeOK
<1>1. ASSUME SessionInv
      PROVE  SessionTypeOK
  <2>1. /\ client \in [Names -> C!ClientState]
        /\ conn \in [Names -> Objects \cup {nullptr}] /\ rare \in 0 .. MaxRare
    BY <1>1 DEF SessionInv, SessionTypes, Views
  <2>2. ASSUME NEW o \in Objects, NEW i \in DOMAIN up[o]
        PROVE  up[o][i] \in C!Request
    <3>1. up[o] \in Seq(Requests \cup {C!EOF})
      BY <1>1 DEF SessionInv, SessionTypes
    <3>2. up[o][i] \in Requests \cup {C!EOF}
      BY <3>1
    <3> QED
      BY <3>2, EOFIsRequest DEF Requests
  <2> QED
    BY <2>1, <2>2 DEF SessionTypeOK
<1> QED
  BY <1>1, SessionInvariance, PTL

\* A client never waits for a reply that nobody will send: its command or a
\* message, or the end of its connection, is always under way (client.py sends
\* and receives in turns; every handler of Server.cpp answers, or the connection
\* closes).
THEOREM RepliesAreUnderWay == SessionSpec => []ReplyIsUnderWay
<1>1. SessionInv => ReplyIsUnderWay
  BY DEF SessionInv, Asked, Asks, ReplyIsUnderWay, IsWaiting, Expects
<1> QED
  BY <1>1, SessionInvariance, PTL

\* The server keeps its promise to the clients of client.py: with them too, every
\* game is a match of module Match, whatever is merged, lost or refused.
THEOREM SessionImplementsMatch ==
  ASSUME "takeover" \notin Liberties
  PROVE  SessionSpec => ImplementsMatch
<1>1. Spec => ImplementsMatch
  BY ServerImplementsMatch
<1> QED
  BY <1>1, SessionImplementsServer, PTL

\* And seats, states, rounds and points agree while the clients of client.py play.
THEOREM SessionSeatsAgree ==
  ASSUME "takeover" \notin Liberties
  PROVE  SessionSpec => [](SeatsAgree /\ StateTellsSeat /\ RoundIsPlayedOrOver /\ PointsDecide)
<1>1. Spec => []SeatsAgree
  BY SeatsAgreeAlways
<1>2. Spec => []StateTellsSeat
  BY StateTellsSeatAlways
<1>3. Spec => []RoundIsPlayedOrOver
  BY RoundIsPlayedOrOverAlways
<1>4. Spec => []PointsDecide
  BY PointsDecideAlways
<1> QED
  BY <1>1, <1>2, <1>3, <1>4, SessionImplementsServer, PTL
=============================================================================
