------------------------------ MODULE GameList ------------------------------
(***************************************************************************)
(* How the client turns the pages of the list of lobbies and joins one     *)
(* (client/client.py, scene list_of_games of client/gui/gui_scenes.py),    *)
(* while other players open and close lobbies on the server.               *)
(*                                                                         *)
(* Replies are taken to arrive before the next click; every lobby listed   *)
(* is one that waits for a player.                                         *)
(***************************************************************************)
EXTENDS Integers, Sequences

CONSTANTS
  GamesPerPage,    \* the 5 of the code
  MaxGameId        \* bound: lobbies opened in a behaviour

ASSUME PageAssumption == GamesPerPage \in Nat \ {0} /\ MaxGameId \in Nat

VARIABLES
  games,           \* ids of the lobbies on the server, oldest first
  game_id,         \* the id the server gives next
  listed_games,    \* the ids in the last reply to LIST_GAMES
  curr_list_page,
  current_scene

vars == <<games, game_id, listed_games, curr_list_page, current_scene>>

server_vars == <<games, game_id>>

Scene == {"main_menu", "list_of_games", "play"}

TypeOK ==
  /\ games \in Seq(Nat) /\ game_id \in Nat
  /\ listed_games \in Seq(Nat)
  /\ curr_list_page \in Nat
  /\ current_scene \in Scene

Init ==
  /\ games = << >> /\ game_id = 0
  /\ listed_games = << >> /\ curr_list_page = 0
  /\ current_scene = "main_menu"

\* The entries of the list that are on the page, and the id of the game that
\* the button of entry k joins: the button is the i-th of the page.
OnPage ==
  {k \in DOMAIN listed_games : /\ k > curr_list_page * GamesPerPage
                               /\ k <= (curr_list_page + 1) * GamesPerPage}

ButtonJoins(k) ==
  LET i == k - curr_list_page * GamesPerPage
  IN  listed_games[i] + curr_list_page * GamesPerPage

-----------------------------------------------------------------------------
(* Other players.                                                          *)

OpenLobby ==
  /\ game_id < MaxGameId
  /\ games' = Append(games, game_id)
  /\ game_id' = game_id + 1
  /\ UNCHANGED <<listed_games, curr_list_page, current_scene>>

Without(s, k) == SubSeq(s, 1, k - 1) \o SubSeq(s, k + 1, Len(s))

\* Somebody joins lobby k, or its host leaves.
CloseLobby(k) ==
  /\ k \in DOMAIN games
  /\ games' = Without(games, k)
  /\ UNCHANGED <<game_id, listed_games, curr_list_page, current_scene>>

-----------------------------------------------------------------------------
(* The player.                                                             *)

list_games ==
  /\ listed_games' = games
  /\ current_scene' = "list_of_games"
  /\ UNCHANGED <<server_vars, curr_list_page>>

ListGames == current_scene = "main_menu" /\ list_games

BackToMainMenu ==
  /\ current_scene = "list_of_games"
  /\ current_scene' = "main_menu"
  /\ UNCHANGED <<server_vars, listed_games, curr_list_page>>

Turn(page) ==
  /\ current_scene = "list_of_games"
  /\ curr_list_page' = page
  /\ UNCHANGED <<server_vars, listed_games, current_scene>>

\* Slip: a page more when the list ends with the page.
next_page_off_by_one ==
  IF (curr_list_page + 1) * GamesPerPage <= Len(listed_games)
    THEN curr_list_page + 1 ELSE 0

next_page ==
  IF (curr_list_page + 1) * GamesPerPage < Len(listed_games)
    THEN curr_list_page + 1 ELSE 0

\* Slip: "is this the first page" is not asked.
previous_page_unguarded == curr_list_page - 1

previous_page ==
  IF curr_list_page > 0 THEN curr_list_page - 1
                        ELSE Len(listed_games) \div GamesPerPage

NextPage == Turn(next_page)

PreviousPage == Turn(previous_page)

\* A lobby that is gone answers ERR, and the list is asked for again.
JoinGame(k) ==
  /\ current_scene = "list_of_games" /\ k \in OnPage
  /\ \/ /\ \E n \in DOMAIN games : /\ games[n] = ButtonJoins(k)
                                  /\ games' = Without(games, n)
        /\ current_scene' = "play"
        /\ UNCHANGED <<game_id, listed_games, curr_list_page>>
     \/ /\ \A n \in DOMAIN games : games[n] # ButtonJoins(k)
        /\ list_games

LeaveGame ==
  /\ current_scene = "play"
  /\ current_scene' = "main_menu"
  /\ UNCHANGED <<server_vars, listed_games, curr_list_page>>

Next ==
  \/ OpenLobby
  \/ \E k \in 1 .. MaxGameId : CloseLobby(k) \/ JoinGame(k)
  \/ ListGames \/ BackToMainMenu \/ NextPage \/ PreviousPage \/ LeaveGame

Spec == Init /\ [][Next]_vars

-----------------------------------------------------------------------------
(* Properties.                                                             *)

\* Turning the pages with ">" skips no game and shows none twice: the next page
\* begins with the game after the last one shown, or with the first game when
\* the last one has been shown or the list has become too short for the page
\* (NEXT_PAGE in process_gui_input).
NoGameIsSkipped ==
  [][NextPage /\ listed_games # << >> =>
       \/ 1 \in OnPage' /\ (OnPage = {} \/ Len(listed_games) \in OnPage)
       \/ \E k \in OnPage : k + 1 \notin OnPage /\ k + 1 \in OnPage'
                                                /\ k \notin OnPage']_vars

\* While games are listed, the page has games: "<" on the first page is to "go
\* to last page" (PREVIOUS_PAGE, client/client.py:247).
PageHasGames ==
  current_scene = "list_of_games" /\ listed_games # << >> => OnPage # {}

\* A button joins the game whose id and host it shows (client/gui/
\* gui_scenes.py:202 and 269-272).
ButtonJoinsItsGame == \A k \in OnPage : ButtonJoins(k) = listed_games[k]
=============================================================================
