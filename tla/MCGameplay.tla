----------------------------- MODULE MCGameplay -----------------------------
(* A small game: 7 by 5 cells, 15 of them inside the hills, two players    *)
(* and up to two enemies.                                                  *)
EXTENDS Gameplay

TwoPlayers == {1, 2}

\* Off the map, where no move leads onto it, and a cell inside.
Sites == {<<-1, 1>>, <<5, 2>>}

\* From here <<5, 3>> is four steps away along x and two along y.
EnemySitesInside == {<<1, 1>>}

Arms == {<<"KeijuSword">>, <<"VillagerBow", "JustArrow">>}
=============================================================================
