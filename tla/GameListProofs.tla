--------------------------- MODULE GameListProofs ---------------------------
(***************************************************************************)
(* Theorems about GameList for lists and pages of every length.            *)
(***************************************************************************)
EXTENDS GameList, TLAPS

\* A sequence of ids without one of its entries is a sequence of ids.
LEMMA WithoutType ==
  ASSUME NEW s \in Seq(Nat), NEW k \in DOMAIN s
  PROVE  Without(s, k) \in Seq(Nat)
<1>1. SubSeq(s, 1, k - 1) \in Seq(Nat)
  OBVIOUS
<1>2. SubSeq(s, k + 1, Len(s)) \in Seq(Nat)
  OBVIOUS
<1> QED
  BY <1>1, <1>2 DEF Without

\* The quotient of natural numbers is a natural number.
LEMMA QuotientType ==
  ASSUME NEW n \in Nat, NEW d \in Nat \ {0}
  PROVE  n \div d \in Nat
  BY SMTT(30)

\* Both buttons lead to a page whose number is a natural number.
LEMMA PagesType ==
  ASSUME TypeOK
  PROVE  next_page \in Nat /\ previous_page \in Nat
<1>1. next_page \in Nat
  BY DEF TypeOK, next_page
<1>2. Len(listed_games) \in Nat
  BY DEF TypeOK
<1>3. Len(listed_games) \div GamesPerPage \in Nat
  BY <1>2, QuotientType, PageAssumption
<1> QED
  BY <1>1, <1>3 DEF TypeOK, previous_page

\* The list, the page and the scene keep their types through every click and
\* whatever other players do (process_gui_input: no page is negative).
THEOREM ListTypeCorrect == Spec => []TypeOK
<1>1. Init => TypeOK
  BY DEF Init, TypeOK, Scene
<1>2. TypeOK /\ [Next]_vars => TypeOK'
  <2> SUFFICES ASSUME TypeOK, [Next]_vars PROVE TypeOK'
    OBVIOUS
  <2> USE DEF TypeOK, Scene, server_vars
  <2>1. CASE OpenLobby
    BY <2>1 DEF OpenLobby
  <2>2. ASSUME NEW k \in 1 .. MaxGameId, CloseLobby(k) PROVE TypeOK'
    BY <2>2, WithoutType DEF CloseLobby
  <2>3. ASSUME NEW k \in 1 .. MaxGameId, JoinGame(k) PROVE TypeOK'
    BY <2>3, WithoutType DEF JoinGame, list_games
  <2>4. CASE ListGames
    BY <2>4 DEF ListGames, list_games
  <2>5. CASE BackToMainMenu
    BY <2>5 DEF BackToMainMenu
  <2>6. CASE NextPage
    BY <2>6, PagesType DEF NextPage, Turn
  <2>7. CASE PreviousPage
    BY <2>7, PagesType DEF PreviousPage, Turn
  <2>8. CASE LeaveGame
    BY <2>8 DEF LeaveGame
  <2>9. CASE UNCHANGED vars
    BY <2>9 DEF vars
  <2> QED
    BY <2>1, <2>2, <2>3, <2>4, <2>5, <2>6, <2>7, <2>8, <2>9 DEF Next
<1> QED
  BY <1>1, <1>2, PTL DEF Spec

\* The entries on the page, with the products named, which is all the provers
\* need to know of them.
LEMMA PageBounds ==
  ASSUME NEW page \in Nat
  PROVE  /\ page * GamesPerPage \in Nat
         /\ (page + 1) * GamesPerPage = page * GamesPerPage + GamesPerPage
  BY PageAssumption

\* NEXT_PAGE never skips a game and never shows an empty page of a list that
\* has games, for any length of the list, any page and any number of games on a
\* page.
THEOREM NextPageIsNext == Spec => NoGameIsSkipped
<1> DEFINE Continues ==
      \/ 1 \in OnPage' /\ (OnPage = {} \/ Len(listed_games) \in OnPage)
      \/ \E k \in OnPage : k + 1 \notin OnPage /\ k + 1 \in OnPage'
                                               /\ k \notin OnPage'
<1>1. ASSUME TypeOK, NextPage, listed_games # << >> PROVE Continues
  <2> DEFINE G == GamesPerPage
             n == Len(listed_games)
             a == curr_list_page * G
  <2>1. /\ a \in Nat /\ G \in Nat \ {0} /\ n \in Nat \ {0}
        /\ (curr_list_page + 1) * G = a + G
    BY <1>1, PageBounds, PageAssumption DEF TypeOK
  <2>2. /\ curr_list_page' = next_page
        /\ listed_games' = listed_games /\ DOMAIN listed_games = 1 .. n
    BY <1>1 DEF NextPage, Turn, TypeOK
  <2>3. OnPage = {k \in 1 .. n : k > a /\ k <= a + G}
    BY <2>1, <2>2 DEF OnPage
  <2>4. CASE a + G < n
    <3>1. next_page = curr_list_page + 1
      BY <2>1, <2>4 DEF next_page
    <3>2. (curr_list_page + 1 + 1) * G = a + G + G
      BY <1>1, <2>1, PageBounds DEF TypeOK
    <3>3. OnPage' = {k \in 1 .. n : k > a + G /\ k <= a + G + G}
      BY <2>1, <2>2, <3>1, <3>2 DEF OnPage
    <3> HIDE DEF a, G, n
    <3>4. a + G \in OnPage /\ a + G + 1 \notin OnPage
      BY <2>1, <2>3, <2>4
    <3>5. a + G + 1 \in OnPage' /\ a + G \notin OnPage'
      BY <2>1, <3>3, <2>4
    <3> QED
      BY <3>4, <3>5
  <2>5. CASE ~(a + G < n)
    <3>1. next_page = 0
      BY <2>1, <2>5 DEF next_page
    <3>2. OnPage' = {k \in 1 .. n : k > 0 /\ k <= G}
      BY <2>1, <2>2, <3>1 DEF OnPage
    <3> HIDE DEF a, G, n
    <3>3. 1 \in OnPage'
      BY <2>1, <3>2
    <3>4. a >= n => OnPage = {}
      BY <2>1, <2>3
    <3>5. a < n => n \in OnPage
      BY <2>1, <2>3, <2>5
    <3> QED
      BY <2>1, <3>3, <3>4, <3>5 DEF n
  <2> QED
    BY <2>4, <2>5
<1>2. TypeOK /\ [Next]_vars => [NextPage /\ listed_games # << >> => Continues]_vars
  BY <1>1
<1> QED
  BY <1>2, ListTypeCorrect, PTL DEF Spec, NoGameIsSkipped
=============================================================================
