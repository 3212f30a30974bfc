---------------------------- MODULE GameplayProofs ----------------------------
(***************************************************************************)
(* For a map of any size, any tables and any number of players: the types  *)
(* of Gameplay, the index CheckPlayerAction reads, the weapons of enemies, *)
(* the counting of arrows, and what a client's copy has to do with it.     *)
(*                                                                         *)
(* The rules keep a stronger type than the structs declare: a slot in use  *)
(* holds something, and an enemy's equipped slot is in use and is not the  *)
(* slot its arrows are taken from.  Both hold on the server, on the client *)
(* and in the messages between them.                                       *)
(*                                                                         *)
(* The second half is about the watcher's copy.  The client that has       *)
(* handled all that is on its way to it (Becomes) follows the world        *)
(* (Follows), and each step of the server and each message handled keeps   *)
(* it so (FInv).  What an action does to two worlds that are alike in what *)
(* matters is stated by the lemmas on LikeWorld.                           *)
(***************************************************************************)
EXTENDS Gameplay, FiniteSetTheorems, SequenceTheorems, WellFoundedInduction, TLAPS

Stock == {inv \in Inventory : \A s \in Slots : inv[s].empty \/ inv[s].quantity > 0}
GoodPlayer == {p \in Player : p.Inventory \in Stock}
GoodEnemy == {e \in Enemy : /\ e.Inventory \in Stock
                            /\ e.EquipedItemID \in Slots
                            /\ ~Weapon(e).empty /\ Weapon(e).type # "Arrow"}

GoodWorld(w) ==
    /\ w = [players |-> w.players, enemies |-> w.enemies]
    /\ DOMAIN w.players \subseteq Players /\ w.players \in [DOMAIN w.players -> GoodPlayer]
    /\ w.enemies \in Seq(GoodEnemy)

\* Where a player may stand on the server: it starts off the map or on it,
\* and never gets to the last column or row.
Place == {c \in Vec : c.x \in -1 .. Width - 2 /\ c.y \in -1 .. Height - 2}
Placed(w) == \A p \in DOMAIN w.players : w.players[p].Coords \in Place

-----------------------------------------------------------------------------
(* Vectors and searches.                                                   *)

LEMMA VecOK ==
    /\ \A x, y, z \in Int : CoordVec(x, y, z) \in Vec
    /\ \A a, b \in Vec : Plus(a, b) \in Vec /\ Minus(a, b) \in Vec
    /\ \A a \in Vec, k \in Int : MinusScalar(a, k) \in Vec
    /\ Steps \subseteq Vec
BY DEF Vec, CoordVec, Plus, Minus, MinusScalar, Steps

\* A non-empty set of numbers has a least one.
LEMMA MinOK ==
    ASSUME NEW S \in SUBSET Nat, S # {}
    PROVE  \E x \in S : \A y \in S : x <= y
<1>1. \E x \in S : \A y \in S : ~ (<<y, x>> \in OpToRel(<, Nat))
  BY NatLessThanWellFounded, WFMin
<1>2. PICK x \in S : \A y \in S : ~ (<<y, x>> \in OpToRel(<, Nat))
  BY <1>1
<1>3. ASSUME NEW y \in S PROVE x <= y
  <2>1. x \in Nat /\ y \in Nat /\ <<y, x>> \in Nat \X Nat
    OBVIOUS
  <2>2. <<y, x>> \notin OpToRel(<, Nat)
    BY <1>2
  <2>3. <<y, x>>[1] = y /\ <<y, x>>[2] = x
    OBVIOUS
  <2>4. ~(y < x)
    BY <2>1, <2>2, <2>3 DEF OpToRel
  <2> QED BY <2>1, <2>4
<1> QED BY <1>3

LEMMA FirstOK ==
    ASSUME NEW S \in SUBSET Nat, S # {}
    PROVE  First(S) \in S
BY MinOK DEF First

LEMMA SlotsOK == Slots \subseteq Nat /\ InvalidID \notin Slots /\ 0 \in Slots /\ 1 \in Slots
BY InventoryAssumption DEF Slots, InvalidID

\* FindItem returns the index of a slot in use of the type, or InvalidID.
LEMMA FindItemOK ==
    ASSUME NEW inv, NEW type, FindItem(inv, type) # InvalidID
    PROVE  /\ FindItem(inv, type) \in Slots
           /\ ~inv[FindItem(inv, type)].empty /\ inv[FindItem(inv, type)].type = type
<1> DEFINE found == {s \in Slots : ~inv[s].empty /\ inv[s].type = type}
<1>1. found # {} /\ FindItem(inv, type) = CHOOSE s \in found : \A t \in found : s <= t
  BY DEF FindItem
<1>2. \E s \in found : \A t \in found : s <= t
  BY <1>1, SlotsOK, MinOK
<1>3. FindItem(inv, type) \in found
  BY <1>1, <1>2
<1> QED BY <1>3

-----------------------------------------------------------------------------
(* One body: shooting and being hit.                                       *)

LEMMA OneLessOK ==
    ASSUME NEW slot \in ItemSlot, slot.quantity > 0
    PROVE  /\ OneLess(slot) \in ItemSlot
           /\ OneLess(slot).empty \/ OneLess(slot).quantity > 0
<1> DEFINE b == (slot.quantity = 1)
           n == slot.quantity - 1
<1>1. n \in Nat /\ b \in BOOLEAN /\ (~b => n > 0)
  BY DEF ItemSlot
<1>2. OneLess(slot) = [slot EXCEPT !.quantity = n, !.empty = b]
  BY DEF OneLess, ItemSlot
<1> HIDE DEF b, n
<1> QED BY <1>1, <1>2 DEF ItemSlot

\* Taking the arrow of a stock leaves a stock, and all other slots alone.
LEMMA StockOK ==
    ASSUME NEW inv \in Stock, NEW s \in Slots, ~inv[s].empty
    PROVE  /\ [inv EXCEPT ![s] = OneLess(@)] \in Stock
           /\ \A t \in Slots \ {s} : [inv EXCEPT ![s] = OneLess(@)][t] = inv[t]
<1>1. inv \in [Slots -> ItemSlot] /\ inv[s].quantity > 0
  BY DEF Stock, Inventory
<1>2. OneLess(inv[s]) \in ItemSlot /\ (OneLess(inv[s]).empty \/ OneLess(inv[s]).quantity > 0)
  BY <1>1, OneLessOK
<1>3. [inv EXCEPT ![s] = OneLess(@)] \in [Slots -> ItemSlot]
  BY <1>1, <1>2
<1>4. \A t \in Slots : [inv EXCEPT ![s] = OneLess(@)][t] =
            IF t = s THEN OneLess(inv[s]) ELSE inv[t]
  BY <1>1
<1>5. \A t \in Slots : inv[t].empty \/ inv[t].quantity > 0
  BY DEF Stock
<1> QED BY <1>2, <1>3, <1>4, <1>5 DEF Stock, Inventory

LEMMA SpendPlayerOK ==
    ASSUME NEW p \in GoodPlayer
    PROVE  /\ SpendArrow(p) \in GoodPlayer
           /\ SpendArrow(p) = [p EXCEPT !.Inventory = SpendArrow(p).Inventory]
<1>1. CASE ~Shoots(p)
  BY <1>1 DEF SpendArrow, GoodPlayer, Player
<1>2. CASE Shoots(p)
  <2> DEFINE s == Arrow(p)
             inv == [p.Inventory EXCEPT ![s] = OneLess(@)]
  <2>1. s \in Slots /\ ~p.Inventory[s].empty
    BY <1>2, FindItemOK DEF Shoots, Arrow
  <2>2. inv \in Stock
    BY <2>1, StockOK DEF GoodPlayer
  <2>3. SpendArrow(p) = [p EXCEPT !.Inventory = inv]
    BY <1>2 DEF SpendArrow, GoodPlayer, Player
  <2>4. SpendArrow(p).Inventory = inv
    BY <2>3 DEF GoodPlayer, Player
  <2> HIDE DEF inv
  <2> QED BY <2>2, <2>3, <2>4 DEF GoodPlayer, Player, Stock
<1> QED BY <1>1, <1>2

LEMMA SpendEnemyOK ==
    ASSUME NEW e \in GoodEnemy
    PROVE  SpendArrow(e) \in GoodEnemy
<1>1. CASE ~Shoots(e)
  BY <1>1 DEF SpendArrow
<1>2. CASE Shoots(e)
  <2> DEFINE s == Arrow(e)
             inv == [e.Inventory EXCEPT ![s] = OneLess(@)]
  <2>1. s \in Slots /\ ~e.Inventory[s].empty /\ e.Inventory[s].type = "Arrow"
    BY <1>2, FindItemOK DEF Shoots, Arrow
  <2>2. e.EquipedItemID \in Slots /\ e.EquipedItemID # s
    BY <2>1 DEF GoodEnemy, Weapon
  <2>3. inv \in Stock /\ inv[e.EquipedItemID] = e.Inventory[e.EquipedItemID]
    BY <2>1, <2>2, StockOK DEF GoodEnemy
  <2>4. SpendArrow(e) = [e EXCEPT !.Inventory = inv]
    BY <1>2 DEF SpendArrow, GoodEnemy, Enemy
  <2> HIDE DEF inv
  <2> QED BY <2>2, <2>3, <2>4 DEF GoodEnemy, Enemy, Stock, Weapon
<1> QED BY <1>1, <1>2

LEMMA TakeDamagePlayerOK ==
    ASSUME NEW p \in GoodPlayer, NEW damage \in Nat
    PROVE  TakeDamage(p, damage) \in GoodPlayer /\ TakeDamage(p, damage).Coords = p.Coords
BY DEF TakeDamage, GoodPlayer, Player

LEMMA TakeDamageEnemyOK ==
    ASSUME NEW e \in GoodEnemy, NEW damage \in Nat
    PROVE  TakeDamage(e, damage) \in GoodEnemy
BY DEF TakeDamage, GoodEnemy, Enemy, Weapon

LEMMA AttackDamageOK ==
    ASSUME NEW body, body.Inventory \in Inventory, body.EquipedItemID \in Slots
    PROVE  AttackDamage(body) \in Nat
<1>1. Weapon(body).Power \in Nat
  BY DEF Weapon, Inventory, ItemSlot
<1>2. ASSUME Arrow(body) # InvalidID PROVE body.Inventory[Arrow(body)].Power \in Nat
  BY <1>2, FindItemOK DEF Arrow, Inventory, ItemSlot
<1> QED BY <1>1, <1>2 DEF AttackDamage

-----------------------------------------------------------------------------
(* The world.                                                              *)

\* A world with one player or one enemy put in the place of another.
LEMMA PutPlayerOK ==
    ASSUME NEW w, GoodWorld(w), NEW p \in DOMAIN w.players, NEW player \in GoodPlayer
    PROVE  /\ GoodWorld([w EXCEPT !.players[p] = player])
           /\ DOMAIN [w EXCEPT !.players[p] = player].players = DOMAIN w.players
           /\ \A q \in DOMAIN w.players :
                [w EXCEPT !.players[p] = player].players[q]
                    = IF q = p THEN player ELSE w.players[q]
           /\ [w EXCEPT !.players[p] = player].enemies = w.enemies
<1> DEFINE put == [w.players EXCEPT ![p] = player]
<1>1. [w EXCEPT !.players[p] = player] = [players |-> put, enemies |-> w.enemies]
  BY DEF GoodWorld
<1>2. /\ put \in [DOMAIN w.players -> GoodPlayer] /\ DOMAIN put = DOMAIN w.players
      /\ \A q \in DOMAIN w.players : put[q] = IF q = p THEN player ELSE w.players[q]
  BY DEF GoodWorld
<1> HIDE DEF put
<1> QED BY <1>1, <1>2 DEF GoodWorld

LEMMA PutEnemyOK ==
    ASSUME NEW w, GoodWorld(w), NEW i \in DOMAIN w.enemies, NEW enemy \in GoodEnemy
    PROVE  /\ GoodWorld([w EXCEPT !.enemies[i] = enemy])
           /\ [w EXCEPT !.enemies[i] = enemy].players = w.players
           /\ DOMAIN [w EXCEPT !.enemies[i] = enemy].enemies = DOMAIN w.enemies
<1> DEFINE put == [w.enemies EXCEPT ![i] = enemy]
<1>1. [w EXCEPT !.enemies[i] = enemy] = [players |-> w.players, enemies |-> put]
  BY DEF GoodWorld
<1>2. put \in Seq(GoodEnemy) /\ DOMAIN put = DOMAIN w.enemies
  BY DEF GoodWorld
<1> HIDE DEF put
<1> QED BY <1>1, <1>2 DEF GoodWorld

\* An attack hurts; it moves, adds and removes nobody.
LEMMA HurtOK ==
    ASSUME NEW w, GoodWorld(w), NEW target, NEW damage \in Nat
    PROVE  /\ GoodWorld(Hurt(w, target, damage))
           /\ DOMAIN Hurt(w, target, damage).players = DOMAIN w.players
           /\ DOMAIN Hurt(w, target, damage).enemies = DOMAIN w.enemies
           /\ \A p \in DOMAIN w.players :
                Hurt(w, target, damage).players[p].Coords = w.players[p].Coords
<1> DEFINE P == [p \in DOMAIN w.players |->
                    IF p \in target.playerIDs THEN TakeDamage(w.players[p], damage)
                                              ELSE w.players[p]]
           E == [i \in DOMAIN w.enemies |->
                    IF i \in target.EnemyIDs THEN TakeDamage(w.enemies[i], damage)
                                             ELSE w.enemies[i]]
<1>1. Hurt(w, target, damage) = [players |-> P, enemies |-> E]
  BY DEF Hurt
<1>2. \A p \in DOMAIN w.players : P[p] \in GoodPlayer /\ P[p].Coords = w.players[p].Coords
  <2> TAKE p \in DOMAIN w.players
  <2>1. w.players[p] \in GoodPlayer
    BY DEF GoodWorld
  <2> QED BY <2>1, TakeDamagePlayerOK
<1>3. P \in [DOMAIN w.players -> GoodPlayer] /\ DOMAIN P = DOMAIN w.players
  BY <1>2
<1>4. \A i \in DOMAIN w.enemies : E[i] \in GoodEnemy
  <2> TAKE i \in DOMAIN w.enemies
  <2>1. w.enemies[i] \in GoodEnemy
    BY DEF GoodWorld
  <2> QED BY <2>1, TakeDamageEnemyOK
<1>5. DOMAIN w.enemies = 1 .. Len(w.enemies) /\ Len(w.enemies) \in Nat
  BY DEF GoodWorld
<1>6. E \in [1 .. Len(w.enemies) -> GoodEnemy] /\ DOMAIN E = DOMAIN w.enemies
  BY <1>4, <1>5
<1>7. E \in Seq(GoodEnemy)
  BY <1>5, <1>6
<1> HIDE DEF P, E
<1> QED BY <1>1, <1>2, <1>3, <1>6, <1>7 DEF GoodWorld

LEMMA PlayerMakeAttackOK ==
    ASSUME NEW w, GoodWorld(w), NEW p \in DOMAIN w.players, NEW target
    PROVE  /\ GoodWorld(PlayerMakeAttack(w, p, target))
           /\ DOMAIN PlayerMakeAttack(w, p, target).players = DOMAIN w.players
           /\ \A q \in DOMAIN w.players :
                PlayerMakeAttack(w, p, target).players[q].Coords = w.players[q].Coords
<1> DEFINE body == w.players[p]
           spent == [w EXCEPT !.players[p] = SpendArrow(body)]
<1>1. body \in GoodPlayer
  BY DEF GoodWorld
<1>2. SpendArrow(body) \in GoodPlayer /\ SpendArrow(body).Coords = body.Coords
  <2>1. SpendArrow(body) \in GoodPlayer
        /\ SpendArrow(body) = [body EXCEPT !.Inventory = SpendArrow(body).Inventory]
    BY <1>1, SpendPlayerOK
  <2> QED BY <1>1, <2>1 DEF GoodPlayer, Player
<1>3. AttackDamage(body) \in Nat
  BY <1>1, AttackDamageOK, SlotsOK DEF GoodPlayer, Player, Stock
<1>4. /\ GoodWorld(spent) /\ DOMAIN spent.players = DOMAIN w.players
      /\ \A q \in DOMAIN w.players : spent.players[q].Coords = w.players[q].Coords
  <2>1. GoodWorld(spent) /\ DOMAIN spent.players = DOMAIN w.players
    BY <1>2, PutPlayerOK
  <2>2. \A q \in DOMAIN w.players :
            spent.players[q] = IF q = p THEN SpendArrow(body) ELSE w.players[q]
    BY <1>2, PutPlayerOK
  <2> QED BY <1>2, <2>1, <2>2
<1>5. CASE Weapon(body).empty
  BY <1>5 DEF PlayerMakeAttack
<1>6. CASE ~Weapon(body).empty
  <2>1. PlayerMakeAttack(w, p, target) = Hurt(spent, target, AttackDamage(body))
    BY <1>6 DEF PlayerMakeAttack
  <2> HIDE DEF spent
  <2> QED BY <1>3, <1>4, <2>1, HurtOK
<1> QED BY <1>5, <1>6

LEMMA EnemyMakeAttackOK ==
    ASSUME NEW w, GoodWorld(w), NEW i \in DOMAIN w.enemies, NEW target
    PROVE  /\ GoodWorld(EnemyMakeAttack(w, i, target))
           /\ DOMAIN EnemyMakeAttack(w, i, target).players = DOMAIN w.players
           /\ DOMAIN EnemyMakeAttack(w, i, target).enemies = DOMAIN w.enemies
           /\ \A q \in DOMAIN w.players :
                EnemyMakeAttack(w, i, target).players[q].Coords = w.players[q].Coords
<1> DEFINE body == w.enemies[i]
           spent == [w EXCEPT !.enemies[i] = SpendArrow(body)]
<1>1. body \in GoodEnemy
  BY DEF GoodWorld
<1>2. SpendArrow(body) \in GoodEnemy
  BY <1>1, SpendEnemyOK
<1>3. AttackDamage(body) \in Nat
  BY <1>1, AttackDamageOK DEF GoodEnemy, Stock
<1>4. /\ GoodWorld(spent) /\ spent.players = w.players
      /\ DOMAIN spent.enemies = DOMAIN w.enemies
  BY <1>2, PutEnemyOK
<1>5. EnemyMakeAttack(w, i, target) = Hurt(spent, target, AttackDamage(body))
  BY <1>1 DEF EnemyMakeAttack, GoodEnemy
<1> HIDE DEF spent, body
<1> QED BY <1>3, <1>4, <1>5, HurtOK

\* A player that acted is where its move took it, everyone else where it was.
LEMMA MakeApprovedActionOK ==
    ASSUME NEW w, GoodWorld(w), NEW a \in PlayerAction, a.PlayerID \in DOMAIN w.players
    PROVE  /\ GoodWorld(MakeApprovedAction(w, a))
           /\ DOMAIN MakeApprovedAction(w, a).players = DOMAIN w.players
           /\ \A q \in DOMAIN w.players :
                MakeApprovedAction(w, a).players[q].Coords
                    = IF q = a.PlayerID /\ a.ActionType = "Move"
                      THEN Plus(w.players[q].Coords, a.ActionInfo) ELSE w.players[q].Coords
<1> DEFINE p == a.PlayerID
           body == w.players[p]
           step == [body EXCEPT !.Coords = Plus(@, a.ActionInfo)]
           moved == Moved(w, a)
           fought == PlayerMakeAttack(moved, p, PlayerFindAttackTarget(moved, p, a.ActionInfo))
           counted == SetCurrentTurnActions(fought.players[p], fought.players[p].CurrentTurns - 1)
<1>1. body \in GoodPlayer /\ body.Coords \in Vec /\ a.ActionInfo \in Vec
  BY DEF GoodWorld, GoodPlayer, Player, PlayerAction
<1>2. Plus(body.Coords, a.ActionInfo) \in Vec
  BY <1>1, VecOK
<1>3. step \in GoodPlayer /\ step.Coords = Plus(body.Coords, a.ActionInfo)
  <2> DEFINE there == Plus(body.Coords, a.ActionInfo)
  <2>1. step = [body EXCEPT !.Coords = there] /\ there \in Vec
    BY <1>1, <1>2 DEF GoodPlayer, Player
  <2>2. there = Plus(body.Coords, a.ActionInfo)
    OBVIOUS
  <2> HIDE DEF there, step, body
  <2> QED BY <1>1, <2>1, <2>2 DEF GoodPlayer, Player
<1>4. /\ GoodWorld(moved) /\ DOMAIN moved.players = DOMAIN w.players
      /\ \A q \in DOMAIN w.players :
            moved.players[q].Coords
                = IF q = p /\ a.ActionType = "Move"
                  THEN Plus(w.players[q].Coords, a.ActionInfo) ELSE w.players[q].Coords
  <2>1. CASE a.ActionType = "Move"
    <3>1. moved = [w EXCEPT !.players[p] = step]
      BY <2>1 DEF Moved, GoodWorld
    <3>2. GoodWorld(moved) /\ DOMAIN moved.players = DOMAIN w.players
      BY <1>3, <3>1, PutPlayerOK
    <3>3. \A q \in DOMAIN w.players : moved.players[q] = IF q = p THEN step ELSE w.players[q]
      BY <1>3, <3>1, PutPlayerOK
    <3> HIDE DEF step, moved
    <3> QED BY <1>3, <2>1, <3>2, <3>3
  <2>2. CASE a.ActionType # "Move"
    BY <2>2 DEF Moved
  <2> QED BY <2>1, <2>2
<1>5. /\ GoodWorld(fought) /\ DOMAIN fought.players = DOMAIN w.players
      /\ \A q \in DOMAIN w.players : fought.players[q].Coords = moved.players[q].Coords
  <2> HIDE DEF moved
  <2> QED BY <1>4, PlayerMakeAttackOK
<1>6. counted \in GoodPlayer /\ counted.Coords = fought.players[p].Coords
  <2> HIDE DEF fought
  <2>1. fought.players[p] \in GoodPlayer
    BY <1>5 DEF GoodWorld
  <2> DEFINE b == fought.players[p]
  <2>2. (b.CurrentTurns - 1) % 16 \in 0 .. 15
    BY <2>1 DEF GoodPlayer, Player
  <2> QED BY <2>1, <2>2 DEF SetCurrentTurnActions, GoodPlayer, Player
<1>7. MakeApprovedAction(w, a) = [fought EXCEPT !.players[p] = counted]
  BY <1>5 DEF MakeApprovedAction, GoodWorld
<1> HIDE DEF counted, fought, moved
<1>8. /\ GoodWorld(MakeApprovedAction(w, a))
      /\ DOMAIN MakeApprovedAction(w, a).players = DOMAIN w.players
      /\ \A q \in DOMAIN w.players :
            MakeApprovedAction(w, a).players[q] = IF q = p THEN counted ELSE fought.players[q]
  BY <1>5, <1>6, <1>7, PutPlayerOK
<1> QED BY <1>4, <1>5, <1>6, <1>8

\* An enemy's action leaves every player where it is.
LEMMA MakeEnemyActionOK ==
    ASSUME NEW w, GoodWorld(w), NEW i \in DOMAIN w.enemies, NEW a \in EnemyAction
    PROVE  /\ GoodWorld(MakeEnemyAction(w, i, a))
           /\ DOMAIN MakeEnemyAction(w, i, a).players = DOMAIN w.players
           /\ DOMAIN MakeEnemyAction(w, i, a).enemies = DOMAIN w.enemies
           /\ \A q \in DOMAIN w.players :
                MakeEnemyAction(w, i, a).players[q].Coords = w.players[q].Coords
<1>1. CASE a.actionType = "EnemyMove"
  <2> DEFINE e == w.enemies[i]
             there == Plus(e.Coords, a.ActionInfo)
             step == [e EXCEPT !.Coords = there]
  <2>1. e \in GoodEnemy /\ e.Coords \in Vec /\ a.ActionInfo \in Vec
    BY DEF GoodWorld, GoodEnemy, Enemy, EnemyAction
  <2>2. there \in Vec
    BY <2>1, VecOK
  <2>3. step \in GoodEnemy
    <3> HIDE DEF there
    <3> QED BY <2>1, <2>2 DEF GoodEnemy, Enemy, Weapon
  <2>4. MakeEnemyAction(w, i, a) = [w EXCEPT !.enemies[i] = step]
    BY <1>1 DEF MakeEnemyAction, GoodWorld
  <2> HIDE DEF step
  <2> QED BY <2>3, <2>4, PutEnemyOK
<1>2. CASE a.actionType # "EnemyMove"
  BY <1>2, EnemyMakeAttackOK DEF MakeEnemyAction
<1> QED BY <1>1, <1>2

\* The turn counter is all that a full turn changes.
LEMMA FullTurnOK ==
    ASSUME NEW w, GoodWorld(w), NEW p
    PROVE  /\ GoodWorld(FullTurn(w, p))
           /\ DOMAIN FullTurn(w, p).players = DOMAIN w.players
           /\ FullTurn(w, p).enemies = w.enemies
           /\ \A q \in DOMAIN w.players : FullTurn(w, p).players[q].Coords = w.players[q].Coords
<1>1. CASE p \in DOMAIN w.players
  <2> DEFINE b == w.players[p]
             full == SetCurrentTurnActions(b, b.MaxTurns)
  <2>1. b \in GoodPlayer
    BY <1>1 DEF GoodWorld
  <2>2. b.MaxTurns % 16 \in 0 .. 15
    BY <2>1 DEF GoodPlayer, Player
  <2>3. full \in GoodPlayer /\ full.Coords = b.Coords
    BY <2>1, <2>2 DEF SetCurrentTurnActions, GoodPlayer, Player
  <2>4. FullTurn(w, p) = [w EXCEPT !.players[p] = full]
    BY <1>1 DEF FullTurn, GoodWorld
  <2> HIDE DEF full
  <2>5. /\ GoodWorld(FullTurn(w, p)) /\ DOMAIN FullTurn(w, p).players = DOMAIN w.players
        /\ FullTurn(w, p).enemies = w.enemies
        /\ \A q \in DOMAIN w.players :
            FullTurn(w, p).players[q] = IF q = p THEN full ELSE w.players[q]
    BY <1>1, <2>3, <2>4, PutPlayerOK
  <2> QED BY <2>3, <2>5
<1>2. CASE p \notin DOMAIN w.players
  <2>1. FullTurn(w, p).players = w.players /\ FullTurn(w, p).enemies = w.enemies
        /\ FullTurn(w, p) = [players |-> FullTurn(w, p).players,
                             enemies |-> FullTurn(w, p).enemies]
    BY <1>2 DEF FullTurn, GoodWorld
  <2> QED BY <2>1 DEF GoodWorld
<1> QED BY <1>1, <1>2

LEMMA AssignOK ==
    ASSUME NEW w, GoodWorld(w), NEW p \in Players, NEW player \in GoodPlayer
    PROVE  /\ GoodWorld(Assign(w, p, player))
           /\ DOMAIN Assign(w, p, player).players = DOMAIN w.players \cup {p}
           /\ Assign(w, p, player).enemies = w.enemies
           /\ \A q \in DOMAIN w.players \cup {p} :
                Assign(w, p, player).players[q] = IF q = p THEN player ELSE w.players[q]
<1> DEFINE put == [q \in DOMAIN w.players \cup {p} |-> IF q = p THEN player ELSE w.players[q]]
<1>1. Assign(w, p, player) = [players |-> put, enemies |-> w.enemies]
  <2>1. Assign(w, p, player) = [w EXCEPT !.players = put]
    BY DEF Assign
  <2> HIDE DEF put
  <2> QED BY <2>1 DEF GoodWorld
<1>2. put \in [DOMAIN w.players \cup {p} -> GoodPlayer]
  BY DEF GoodWorld
<1>3. /\ DOMAIN put = DOMAIN w.players \cup {p}
      /\ \A q \in DOMAIN w.players \cup {p} : put[q] = IF q = p THEN player ELSE w.players[q]
  OBVIOUS
<1> HIDE DEF put
<1> QED BY <1>1, <1>2, <1>3 DEF GoodWorld

-----------------------------------------------------------------------------
(* Who enters the world.                                                   *)

LEMMA SlotOK ==
    ASSUME NEW type \in ItemTypes, NEW power \in Nat, NEW quantity \in Nat \ {0}
    PROVE  /\ Slot(type, power, quantity) \in ItemSlot
           /\ Slot(type, power, quantity).quantity > 0
           /\ ~Slot(type, power, quantity).empty
           /\ Slot(type, power, quantity).type = type
BY DEF Slot, ItemSlot

LEMMA EmptySlotOK == EmptySlot \in ItemSlot /\ EmptySlot.empty
BY DEF EmptySlot, ItemSlot, ItemTypes

\* Every row of ItemTable is something there is at least one of.
LEMMA ItemTableOK ==
    ASSUME NEW name \in DOMAIN ItemTable
    PROVE  /\ ItemTable[name].type \in ItemTypes
           /\ ItemTable[name].usage \in Nat \ {0}
           /\ ItemTable[name].Power \in Nat
<1>1. name \in {"KeijuSword", "VillagerBow", "Apple", "JustArrow", "PoisonedArrow", "IronSword"}
  BY DEF ItemTable
<1>2. PoisonedArrows \in Nat \ {0}
  BY TableAssumption
<1>3. CASE name = "KeijuSword"
  BY <1>3 DEF ItemTable, Item, ItemTypes
<1>4. CASE name = "VillagerBow"
  BY <1>4 DEF ItemTable, Item, ItemTypes
<1>5. CASE name = "Apple"
  BY <1>5 DEF ItemTable, Item, ItemTypes
<1>6. CASE name = "JustArrow"
  BY <1>6 DEF ItemTable, Item, ItemTypes
<1>7. CASE name = "PoisonedArrow"
  BY <1>2, <1>7 DEF ItemTable, Item, ItemTypes
<1>8. CASE name = "IronSword"
  BY <1>8 DEF ItemTable, Item, ItemTypes
<1> QED BY <1>1, <1>3, <1>4, <1>5, <1>6, <1>7, <1>8

LEMMA NewPlayerOK ==
    ASSUME NEW site \in SpawnSites, NEW items \in StartItems
    PROVE  NewPlayer(site, items) \in GoodPlayer /\ NewPlayer(site, items).Coords \in Place
<1>1. items \in Seq(DOMAIN ItemTable)
  BY ItemsAssumption
<1>2. \A s \in Slots : /\ AddItems(items)[s] \in ItemSlot
                       /\ AddItems(items)[s].empty \/ AddItems(items)[s].quantity > 0
  <2> TAKE s \in Slots
  <2>1. CASE s < Len(items)
    <3> DEFINE item == ItemTable[items[s + 1]]
    <3>1. s + 1 \in 1 .. Len(items)
      BY <1>1, <2>1, SlotsOK
    <3>2. items[s + 1] \in DOMAIN ItemTable
      <4> HIDE DEF item
      <4> QED BY <1>1, <3>1
    <3>3. item.type \in ItemTypes /\ item.usage \in Nat \ {0} /\ item.Power \in Nat
      BY <3>2, ItemTableOK
    <3>4. AddItems(items)[s] = ItemToAdd(item)
      BY <2>1 DEF AddItems
    <3> HIDE DEF item
    <3> QED BY <3>3, <3>4, SlotOK DEF ItemToAdd
  <2>2. CASE ~(s < Len(items))
    BY <2>2, EmptySlotOK DEF AddItems
  <2> QED BY <2>1, <2>2
<1>3. AddItems(items) \in Stock
  <2>1. AddItems(items) = [s \in Slots |-> AddItems(items)[s]]
    BY DEF AddItems
  <2>2. AddItems(items) \in [Slots -> ItemSlot]
    BY <1>2, <2>1
  <2> QED BY <1>2, <2>2 DEF Stock, Inventory
<1>4. site \in (-1 .. Width - 2) \X (-1 .. Height - 2)
  BY SpawnAssumption
<1>5. CoordVec(site[1], site[2], 0) \in Place
  BY <1>4, MapAssumption DEF Place, Vec, CoordVec
<1>6. PlayerHP \in Nat /\ BaseTurnActions \in 0 .. 15
  BY TurnsAssumption
<1> QED BY <1>3, <1>5, <1>6 DEF NewPlayer, GoodPlayer, Player, Place, Stock

LEMMA NewEnemyOK ==
    ASSUME NEW type \in DOMAIN EnemiesTable, NEW c \in Vec
    PROVE  NewEnemy(type, c) \in GoodEnemy
<1>1. type = "Zombie" \/ type = "Bandit"
  BY DEF EnemiesTable
<1>2. ZombieHP \in Nat /\ BanditHP \in Nat /\ BanditArrows \in Nat \ {0}
  BY TableAssumption
<1> DEFINE row == EnemiesTable[type]
           inv == [s \in Slots |-> IF s < Len(row.Storage) THEN row.Storage[s + 1]
                                                            ELSE EmptySlot]
<1>3. /\ row.faction \in {0, 1} /\ row.HP \in Nat /\ row.MaxActions \in {2, 3}
      /\ Len(row.Storage) \in 1 .. 2
      /\ \A k \in 1 .. Len(row.Storage) : /\ row.Storage[k] \in ItemSlot
                                          /\ row.Storage[k].quantity > 0
      /\ ~row.Storage[1].empty /\ row.Storage[1].type # "Arrow"
  <2>1. CASE type = "Zombie"
    <3> DEFINE sword == Slot("Sword", 3, 1)
    <3>1. sword \in ItemSlot /\ sword.quantity > 0 /\ ~sword.empty /\ sword.type = "Sword"
      BY SlotOK DEF ItemTypes
    <3>2. row = [faction |-> 0, HP |-> ZombieHP, MaxActions |-> 3, Storage |-> <<sword>>]
      BY <2>1 DEF EnemiesTable
    <3> HIDE DEF sword, row
    <3> QED BY <1>2, <3>1, <3>2
  <2>2. CASE type = "Bandit"
    <3> DEFINE bow == Slot("Bow", 1, 1)
               arrows == Slot("Arrow", 1, BanditArrows)
    <3>1. /\ bow \in ItemSlot /\ bow.quantity > 0 /\ ~bow.empty /\ bow.type = "Bow"
          /\ arrows \in ItemSlot /\ arrows.quantity > 0
      BY <1>2, SlotOK DEF ItemTypes
    <3>2. row = [faction |-> 1, HP |-> BanditHP, MaxActions |-> 2, Storage |-> <<bow, arrows>>]
      BY <2>2 DEF EnemiesTable
    <3> HIDE DEF bow, arrows, row
    <3> QED BY <1>2, <3>1, <3>2
  <2> QED BY <1>1, <2>1, <2>2
<1>4. NewEnemy(type, c) = [faction |-> row.faction, HP |-> row.HP, MaxActions |-> row.MaxActions,
                           EquipedItemID |-> 0, Coords |-> c, Inventory |-> inv]
  BY DEF NewEnemy
<1> HIDE DEF row
<1>5. \A s \in Slots : inv[s] \in ItemSlot /\ (inv[s].empty \/ inv[s].quantity > 0)
  <2> TAKE s \in Slots
  <2>1. s \in Nat /\ (s < Len(row.Storage) => s + 1 \in 1 .. Len(row.Storage))
    BY <1>3, SlotsOK
  <2>2. CASE s < Len(row.Storage)
    BY <1>3, <2>1, <2>2
  <2>3. CASE ~(s < Len(row.Storage))
    BY <2>3, EmptySlotOK
  <2> QED BY <2>2, <2>3
<1>6. inv \in Stock /\ ~inv[0].empty /\ inv[0].type # "Arrow"
  BY <1>3, <1>5, SlotsOK DEF Stock, Inventory
<1> HIDE DEF inv
<1> QED BY <1>3, <1>4, <1>6, SlotsOK DEF GoodEnemy, Enemy, Weapon, Stock

\* An armed enemy keeps what it has in its hand.
LEMMA EquipOK ==
    ASSUME NEW e \in GoodEnemy
    PROVE  Equip(e) = e
BY SlotsOK DEF Equip, GoodEnemy

LEMMA TargetCoordsOK ==
    ASSUME NEW w, GoodWorld(w), NEW i \in DOMAIN w.enemies
    PROVE  TargetCoords(w, i) \subseteq Vec
<1>1. \A p \in DOMAIN w.players : w.players[p].Coords \in Vec
  BY DEF GoodWorld, GoodPlayer, Player
<1>2. \A k \in DOMAIN w.enemies : w.enemies[k].Coords \in Vec
  BY DEF GoodWorld, GoodEnemy, Enemy
<1>3. NearestPlayers(w, w.enemies[i].Coords) \subseteq DOMAIN w.players
  BY DEF NearestPlayers
<1>4. NearestEnemies(w, i) \subseteq DOMAIN w.enemies
  BY DEF NearestEnemies
<1> DEFINE P == {w.players[p].Coords : p \in NearestPlayers(w, w.enemies[i].Coords)}
           E == {w.enemies[k].Coords : k \in NearestEnemies(w, i)}
<1>5. P \subseteq Vec /\ E \subseteq Vec
  BY <1>1, <1>2, <1>3, <1>4
<1>6. TargetCoords(w, i) = P \/ TargetCoords(w, i) = E
  BY DEF TargetCoords
<1> QED BY <1>5, <1>6

\* A list of some of the elements of a set.
LEMMA InOrderOK ==
    ASSUME NEW S, IsFiniteSet(S), NEW f \in InOrder(S)
    PROVE  f \in Seq(S) /\ DOMAIN f = 1 .. Cardinality(S) /\ Cardinality(S) \in Nat
BY FS_CardinalityType DEF InOrder

-----------------------------------------------------------------------------
(* Messages and the client.                                                *)

GoodMessage ==
    [id : {"ClientRegisterFromServer", "ClientAddPlayer"},
     body : [ID : Players, Player : GoodPlayer]]
    \cup [id : {"ClientInitEnemy"}, body : GoodEnemy]
    \cup [id : {"GamePlayerTurn"}, body : {NoPlayer}]
    \cup [id : {"GameNextPlayerTurn"}, body : Players]
    \cup [id : {"GamePlayerActionValidated"}, body : PlayerAction]
    \cup [id : {"GameAITurnAction"}, body : EnemyAction]

GoodClient(c) ==
    /\ c = [world |-> c.world, PlayerID |-> c.PlayerID, fault |-> c.fault]
    /\ GoodWorld(c.world)
    /\ c.PlayerID \in Players \cup {NoPlayer}
    /\ c.fault \in {"none", "assert", "at"}

LEMMA MessageOK ==
    /\ \A p \in Players, b \in GoodPlayer :
        /\ PlayerMsg("ClientRegisterFromServer", p, b) \in GoodMessage
        /\ PlayerMsg("ClientAddPlayer", p, b) \in GoodMessage
    /\ \A e \in GoodEnemy : Msg("ClientInitEnemy", e) \in GoodMessage
    /\ Msg("GamePlayerTurn", NoPlayer) \in GoodMessage
    /\ \A p \in Players : Msg("GameNextPlayerTurn", p) \in GoodMessage
    /\ \A a \in PlayerAction : Msg("GamePlayerActionValidated", a) \in GoodMessage
    /\ \A a \in EnemyAction : Msg("GameAITurnAction", a) \in GoodMessage
BY DEF PlayerMsg, Msg, GoodMessage

LEMMA GoodMessageIsMessage == GoodMessage \subseteq Message
<1>1. GoodPlayer \subseteq Player /\ GoodEnemy \subseteq Enemy
  BY DEF GoodPlayer, GoodEnemy
<1> QED BY <1>1 DEF GoodMessage, Message

LEMMA GoodWorldIsWorld ==
    ASSUME NEW w, GoodWorld(w)
    PROVE  IsWorld(w)
<1>1. GoodPlayer \subseteq Player /\ GoodEnemy \subseteq Enemy
  BY DEF GoodPlayer, GoodEnemy
<1>2. w.players \in [DOMAIN w.players -> Player]
  BY <1>1 DEF GoodWorld
<1>3. w.enemies \in Seq(Enemy)
  <2>1. w.enemies \in Seq(GoodEnemy)
    BY DEF GoodWorld
  <2> QED BY <1>1, <2>1
<1> QED BY <1>2, <1>3 DEF GoodWorld, IsWorld

\* A client with another world in it.
LEMMA PutWorldOK ==
    ASSUME NEW c, GoodClient(c), NEW w, GoodWorld(w)
    PROVE  /\ [c EXCEPT !.world = w] = [world |-> w, PlayerID |-> c.PlayerID, fault |-> c.fault]
           /\ GoodClient([c EXCEPT !.world = w])
<1>1. [c EXCEPT !.world = w] = [world |-> w, PlayerID |-> c.PlayerID, fault |-> c.fault]
  BY DEF GoodClient
<1> QED BY <1>1 DEF GoodClient

\* Whatever it is told, a client's world stays good.
LEMMA HandledOK ==
    ASSUME NEW c, GoodClient(c), NEW m \in GoodMessage
    PROVE  GoodClient(Handled(c, m))
<1> USE DEF GoodClient
<1>1. CASE m.id = "ClientRegisterFromServer"
  <2>1. m.body.ID \in Players /\ m.body.Player \in GoodPlayer
    BY <1>1 DEF GoodMessage
  <2> DEFINE w == Assign(c.world, m.body.ID, m.body.Player)
             id == m.body.ID
  <2>2. Handled(c, m) = [world |-> w, PlayerID |-> id, fault |-> c.fault]
    BY <1>1 DEF Handled
  <2>3. GoodWorld(w)
    BY <2>1, AssignOK
  <2> HIDE DEF w
  <2> QED BY <2>1, <2>2, <2>3
<1>2. CASE m.id = "ClientAddPlayer"
  <2>1. m.body.ID \in Players /\ m.body.Player \in GoodPlayer
    BY <1>2 DEF GoodMessage
  <2> DEFINE w == Assign(c.world, m.body.ID, m.body.Player)
  <2>2. Handled(c, m) = [c EXCEPT !.world = w]
    BY <1>2 DEF Handled
  <2>3. GoodWorld(w)
    BY <2>1, AssignOK
  <2> HIDE DEF w
  <2> QED BY <2>2, <2>3, PutWorldOK
<1>3. CASE m.id = "ClientInitEnemy"
  <2>1. m.body \in GoodEnemy
    BY <1>3 DEF GoodMessage
  <2> DEFINE enemies == Append(c.world.enemies, m.body)
             w == [players |-> c.world.players, enemies |-> enemies]
  <2>2. Handled(c, m) = [world |-> w, PlayerID |-> c.PlayerID, fault |-> c.fault]
    BY <1>3 DEF Handled, GoodWorld
  <2>3. enemies \in Seq(GoodEnemy)
    BY <2>1 DEF GoodWorld
  <2>4. GoodWorld(w)
    <3> HIDE DEF enemies
    <3> QED BY <2>3 DEF GoodWorld
  <2> HIDE DEF w
  <2> QED BY <2>2, <2>4
<1>4. CASE m.id = "GamePlayerTurn"
  <2> DEFINE w == FullTurn(c.world, c.PlayerID)
  <2>1. Handled(c, m) = [c EXCEPT !.world = w]
    BY <1>4 DEF Handled
  <2>2. GoodWorld(w)
    BY FullTurnOK
  <2> HIDE DEF w
  <2> QED BY <2>1, <2>2, PutWorldOK
<1>5. CASE m.id = "GamePlayerActionValidated"
  <2>1. m.body \in PlayerAction
    BY <1>5 DEF GoodMessage
  <2>2. CASE ~Known(c, m.body.PlayerID)
    BY <1>5, <2>2 DEF Handled
  <2>3. CASE Known(c, m.body.PlayerID)
    <3> DEFINE w == MakeApprovedAction(c.world, m.body)
               f == IF c.world.players[m.body.PlayerID].CurrentTurns = 0 THEN "assert" ELSE c.fault
    <3>1. Handled(c, m) = [world |-> w, PlayerID |-> c.PlayerID, fault |-> f]
      BY <1>5, <2>3 DEF Handled
    <3>2. GoodWorld(w)
      BY <2>1, <2>3, MakeApprovedActionOK DEF Known
    <3>3. f \in {"none", "assert", "at"}
      OBVIOUS
    <3> HIDE DEF w, f
    <3> QED BY <3>1, <3>2, <3>3
  <2> QED BY <2>2, <2>3
<1>6. CASE m.id = "GameAITurnAction"
  <2>1. m.body \in EnemyAction
    BY <1>6 DEF GoodMessage
  <2>2. CASE m.body.EnemyID + 1 \notin DOMAIN c.world.enemies
    <3>1. Handled(c, m) = [c EXCEPT !.fault = "at"]
      BY <1>6, <2>2 DEF Handled
    <3>2. Handled(c, m) = [world |-> c.world, PlayerID |-> c.PlayerID, fault |-> "at"]
      BY <3>1
    <3> QED BY <3>2
  <2>3. CASE m.body.EnemyID + 1 \in DOMAIN c.world.enemies
    <3> DEFINE w == MakeEnemyAction(c.world, m.body.EnemyID + 1, m.body)
    <3>1. Handled(c, m) = [c EXCEPT !.world = w]
      BY <1>6, <2>3 DEF Handled
    <3>2. GoodWorld(w)
      BY <2>1, <2>3, MakeEnemyActionOK
    <3> HIDE DEF w
    <3> QED BY <3>1, <3>2, PutWorldOK
  <2> QED BY <2>2, <2>3
<1>7. CASE m.id = "GameNextPlayerTurn"
  <2> DEFINE f == IF m.body # c.PlayerID /\ ~Known(c, m.body) THEN "at" ELSE c.fault
  <2>1. Handled(c, m) = [world |-> c.world, PlayerID |-> c.PlayerID, fault |-> f]
    BY <1>7 DEF Handled
  <2>2. f \in {"none", "assert", "at"}
    OBVIOUS
  <2> HIDE DEF f
  <2> QED BY <2>1, <2>2
<1> QED BY <1>1, <1>2, <1>3, <1>4, <1>5, <1>6, <1>7 DEF GoodMessage

\* What is told goes to the end of what is on its way.
LEMMA ToldOK ==
    ASSUME inbox \in Seq(GoodMessage), NEW messages \in Seq(GoodMessage)
    PROVE  Told(messages) \in Seq(GoodMessage)
BY DEF Told

LEMMA ToWatcherOK ==
    ASSUME NEW p, NEW messages \in Seq(GoodMessage)
    PROVE  ToWatcher(p, messages) \in Seq(GoodMessage)
BY DEF ToWatcher

LEMMA TurnMessageOK == <<Msg("GamePlayerTurn", NoPlayer)>> \in Seq(GoodMessage)
BY MessageOK

LEMMA TurnToldOK ==
    ASSUME NEW p \in Players
    PROVE  TurnTold(p) \in Seq(GoodMessage)
<1> DEFINE toHolder == ToWatcher(p, <<Msg("GamePlayerTurn", NoPlayer)>>)
           toAll == <<Msg("GameNextPlayerTurn", p)>>
<1>1. toHolder \in Seq(GoodMessage)
  BY TurnMessageOK, ToWatcherOK
<1>2. toAll \in Seq(GoodMessage)
  BY MessageOK
<1>3. TurnTold(p) = toHolder \o toAll
  BY DEF TurnTold
<1> HIDE DEF toHolder, toAll
<1> QED BY <1>1, <1>2, <1>3

\* A welcome is made of three lists.
LEMMA WelcomePartsOK ==
    ASSUME NEW w, GoodWorld(w), NEW p \in DOMAIN w.players,
           NEW S \in SUBSET DOMAIN w.players, IsFiniteSet(S), NEW others \in InOrder(S)
    PROVE  /\ <<PlayerMsg("ClientRegisterFromServer", p, w.players[p])>> \in Seq(GoodMessage)
           /\ [i \in DOMAIN w.enemies |-> Msg("ClientInitEnemy", w.enemies[i])]
                \in Seq(GoodMessage)
           /\ [i \in DOMAIN others |->
                    PlayerMsg("ClientAddPlayer", others[i], w.players[others[i]])]
                \in Seq(GoodMessage)
<1> DEFINE first == <<PlayerMsg("ClientRegisterFromServer", p, w.players[p])>>
           enemies == [i \in DOMAIN w.enemies |-> Msg("ClientInitEnemy", w.enemies[i])]
           added == [i \in DOMAIN others |->
                        PlayerMsg("ClientAddPlayer", others[i], w.players[others[i]])]
<1>1. \A q \in DOMAIN w.players : q \in Players /\ w.players[q] \in GoodPlayer
  BY DEF GoodWorld
<1>2. first \in Seq(GoodMessage)
  <2>1. PlayerMsg("ClientRegisterFromServer", p, w.players[p]) \in GoodMessage
    BY <1>1, MessageOK
  <2> QED BY <2>1
<1>3. enemies \in Seq(GoodMessage)
  <2>1. w.enemies \in Seq(GoodEnemy) /\ DOMAIN w.enemies = 1 .. Len(w.enemies)
        /\ Len(w.enemies) \in Nat
    BY DEF GoodWorld
  <2>2. \A i \in DOMAIN w.enemies : enemies[i] \in GoodMessage
    BY <2>1, MessageOK
  <2>3. enemies \in [1 .. Len(w.enemies) -> GoodMessage]
    BY <2>1, <2>2
  <2> HIDE DEF enemies
  <2> QED BY <2>1, <2>3
<1>4. added \in Seq(GoodMessage)
  <2>1. others \in Seq(S) /\ DOMAIN others = 1 .. Cardinality(S) /\ Cardinality(S) \in Nat
    BY InOrderOK
  <2>2. \A i \in DOMAIN others : added[i] \in GoodMessage
    <3> TAKE i \in DOMAIN others
    <3>1. others[i] \in DOMAIN w.players
      BY <2>1
    <3> QED BY <1>1, <3>1, MessageOK
  <2>3. added \in [1 .. Cardinality(S) -> GoodMessage]
    BY <2>1, <2>2
  <2> HIDE DEF added
  <2> QED BY <2>1, <2>3
<1> QED BY <1>2, <1>3, <1>4

LEMMA WelcomeOK ==
    ASSUME NEW w, GoodWorld(w), NEW p \in DOMAIN w.players,
           NEW S \in SUBSET DOMAIN w.players, IsFiniteSet(S), NEW others \in InOrder(S)
    PROVE  Welcome(w, p, others) \in Seq(GoodMessage)
<1> DEFINE first == <<PlayerMsg("ClientRegisterFromServer", p, w.players[p])>>
           enemies == [i \in DOMAIN w.enemies |-> Msg("ClientInitEnemy", w.enemies[i])]
           added == [i \in DOMAIN others |->
                        PlayerMsg("ClientAddPlayer", others[i], w.players[others[i]])]
<1>1. first \in Seq(GoodMessage) /\ enemies \in Seq(GoodMessage) /\ added \in Seq(GoodMessage)
  BY WelcomePartsOK
<1>2. Welcome(w, p, others) = first \o enemies \o added
  BY DEF Welcome
<1> HIDE DEF first, enemies, added
<1> QED BY <1>1, <1>2

-----------------------------------------------------------------------------
(* The inductive invariant.                                                *)

GoodAI ==
    /\ ai \in AIState
    /\ ai.pc = "act" => ai.i \in DOMAIN world.enemies
    /\ ai.pc # "off" => DOMAIN world.players # {}

IInv ==
    /\ GoodWorld(world) /\ Placed(world)
    /\ CurrentPlayerID \in DOMAIN world.players \cup {NoPlayer}
    /\ GoodAI
    /\ watcher \in Players /\ connected \in BOOLEAN /\ rounds \in Nat
    /\ inbox \in Seq(GoodMessage)
    /\ GoodClient(client)

LEMMA EmptyWorldOK ==
    ASSUME NEW enemies \in Seq(GoodEnemy)
    PROVE  /\ GoodWorld([EmptyWorld EXCEPT !.enemies = enemies])
           /\ DOMAIN [EmptyWorld EXCEPT !.enemies = enemies].players = {}
<1> DEFINE nobody == [p \in {} |-> p]
<1>1. [EmptyWorld EXCEPT !.enemies = enemies] = [players |-> nobody, enemies |-> enemies]
  BY DEF EmptyWorld
<1>2. DOMAIN nobody = {} /\ nobody \in [{} -> GoodPlayer]
  OBVIOUS
<1> HIDE DEF nobody
<1> QED BY <1>1, <1>2 DEF GoodWorld

LEMMA InitOK == Init => IInv
<1> SUFFICES ASSUME Init PROVE IInv
  OBVIOUS
<1>1. PICK enemies \in FirstEnemies : world = [EmptyWorld EXCEPT !.enemies = enemies]
  BY DEF Init
<1>2. enemies \in Seq(GoodEnemy)
  <2>1. PICK n \in 0 .. MaxEnemies :
            enemies \in [1 .. n -> {NewEnemy(type, CoordVec(c[1], c[2], 0)) :
                                    type \in DOMAIN EnemiesTable, c \in EnemySites}]
    BY <1>1 DEF FirstEnemies
  <2>2. \A type \in DOMAIN EnemiesTable, c \in EnemySites :
            NewEnemy(type, CoordVec(c[1], c[2], 0)) \in GoodEnemy
    <3> TAKE type \in DOMAIN EnemiesTable, c \in EnemySites
    <3>1. c[1] \in Int /\ c[2] \in Int
      BY EnemyAssumption
    <3>2. CoordVec(c[1], c[2], 0) \in Vec
      BY <3>1 DEF Vec, CoordVec
    <3> QED BY <3>2, NewEnemyOK
  <2>3. enemies \in [1 .. n -> GoodEnemy]
    BY <2>1, <2>2
  <2>4. n \in Nat
    BY EnemyAssumption
  <2> QED BY <2>3, <2>4
<1>3. GoodWorld(world) /\ DOMAIN world.players = {}
  BY <1>1, <1>2, EmptyWorldOK
<1>4. Placed(world)
  BY <1>3 DEF Placed
<1>5. GoodAI
  <2>1. AIOff \in AIState
    <3>1. CoordVec(0, 0, 0) \in Vec /\ <<>> \in Seq(EnemyAction)
      BY VecOK
    <3> QED BY <3>1 DEF AIOff, AIState
  <2>2. AIOff.pc = "off"
    BY DEF AIOff
  <2> QED BY <2>1, <2>2 DEF Init, GoodAI
<1>6. GoodClient(client)
  <2> DEFINE none == [EmptyWorld EXCEPT !.enemies = <<>>]
  <2>1. none = EmptyWorld
    BY DEF EmptyWorld
  <2>2. <<>> \in Seq(GoodEnemy)
    OBVIOUS
  <2>3. GoodWorld(none)
    BY <2>2, EmptyWorldOK
  <2> HIDE DEF none
  <2> QED BY <2>1, <2>3 DEF Init, GoodClient
<1>7. inbox \in Seq(GoodMessage)
  BY DEF Init
<1> QED BY <1>3, <1>4, <1>5, <1>6, <1>7 DEF Init, IInv

\* Nobody moves when only the turn passes.
LEMMA PlacedOK ==
    ASSUME NEW w, NEW v, Placed(w), DOMAIN v.players = DOMAIN w.players,
           \A q \in DOMAIN w.players : v.players[q].Coords = w.players[q].Coords
    PROVE  Placed(v)
BY DEF Placed

\* The index of the tile is an index of the array, and the tiles of the
\* first and last columns and rows are hills.
LEMMA TileOK ==
    ASSUME NEW x \in 0 .. Width - 1, NEW y \in 0 .. Height - 1
    PROVE  /\ TileIndex(x, y) \in DOMAIN MapTiles
           /\ Border(x, y) => MapTiles[TileIndex(x, y)] = "Hill"
<1>1. Width \in Nat /\ Height \in Nat /\ x \in Nat /\ y \in Nat
  BY MapAssumption
<1>2. y * Width <= (Height - 1) * Width /\ y * Width >= 0 /\ y * Width \in Int
  BY <1>1
<1>3. (Height - 1) * Width = Width * Height - Width /\ Width * Height \in Int
  BY <1>1
<1>4. TileIndex(x, y) \in 0 .. Width * Height - 1
  BY <1>1, <1>2, <1>3 DEF TileIndex
<1>5. <<x, y>> \in Cells
  BY DEF Cells
<1>6. Border(x, y) => MapTiles[TileIndex(x, y)] = "Hill"
  <2> DEFINE c == <<x, y>>
  <2>1. c[1] = x /\ c[2] = y
    OBVIOUS
  <2>2. Border(x, y) => \E d \in Cells : TileIndex(x, y) = TileIndex(d[1], d[2])
                                          /\ Border(d[1], d[2])
    <3>1. c \in Cells
      BY <1>5
    <3>2. Border(x, y) => TileIndex(x, y) = TileIndex(c[1], c[2]) /\ Border(c[1], c[2])
      BY <2>1
    <3> HIDE DEF c
    <3> QED BY <3>1, <3>2
  <2> QED BY <1>4, <2>2 DEF MapTiles
<1> QED BY <1>4, <1>6 DEF MapTiles

\* A step from a place is off the map or onto a cell.
LEMMA StepOK ==
    ASSUME NEW c \in Place, NEW d \in Steps
    PROVE  /\ Plus(c, d) \in Vec
           /\ ~OffMap(Plus(c, d)) => /\ Plus(c, d).x \in 0 .. Width - 1
                                     /\ Plus(c, d).y \in 0 .. Height - 1
<1>1. /\ c \in Vec /\ d \in Vec /\ d.x \in -1 .. 1 /\ d.y \in -1 .. 1
      /\ c.x \in -1 .. Width - 2 /\ c.y \in -1 .. Height - 2
  BY VecOK DEF Place, Steps, CoordVec
<1>2. Plus(c, d) \in Vec
  BY <1>1, VecOK
<1>3. Plus(c, d).x = c.x + d.x /\ Plus(c, d).y = c.y + d.y
  BY DEF Plus, CoordVec
<1> QED BY <1>1, <1>2, <1>3, MapAssumption DEF OffMap

\* CheckPlayerAction lets nobody onto the hills.
LEMMA ApprovedInside ==
    ASSUME NEW p \in DOMAIN world.players, NEW d \in Steps,
           world.players[p].Coords \in Place, Approved(p, d)
    PROVE  LET place == Plus(world.players[p].Coords, d) IN
           Inside(place) /\ place \in Vec /\ Alive(world.players[p])
<1> DEFINE place == Plus(world.players[p].Coords, d)
<1>1. MoveBy(p, d).ActionType = "Move" /\ MoveBy(p, d).PlayerID = p
      /\ MoveBy(p, d).ActionInfo = d
  BY DEF MoveBy
<1>2. /\ ~OffMap(place) /\ MapTiles[TileIndex(place.x, place.y)] # "Hill"
      /\ world.players[p].HP > 0
  BY <1>1 DEF Approved, CheckPlayerAction
<1>3. place \in Vec /\ place.x \in 0 .. Width - 1 /\ place.y \in 0 .. Height - 1
  BY <1>2, StepOK
<1>4. ~Border(place.x, place.y)
  BY <1>2, <1>3, TileOK
<1>5. Inside(place)
  BY <1>3, <1>4, MapAssumption DEF Inside, Border
<1> QED BY <1>2, <1>3, <1>5 DEF Alive

LEMMA PlayersFinite ==
    ASSUME GoodWorld(world)
    PROVE  /\ IsFiniteSet(DOMAIN world.players)
           /\ DOMAIN world.players \subseteq Nat \ {0}
BY FiniteAssumption, PlayersAssumption, FS_Subset DEF GoodWorld

LEMMA RegisterKeeps ==
    ASSUME IInv, NEW p \in Players, NEW site \in SpawnSites, NEW items \in StartItems,
           Register(p, site, items)
    PROVE  IInv'
<1> DEFINE joined == Assign(world, p, NewPlayer(site, items))
           none == CurrentPlayerID = NoPlayer
           welcome(others) == IF p = watcher THEN Welcome(joined, p, others)
                              ELSE <<PlayerMsg("ClientAddPlayer", p, joined.players[p])>>
           turn == IF none THEN ToWatcher(p, <<Msg("GamePlayerTurn", NoPlayer)>>) ELSE <<>>
<1> USE DEF IInv
<1>1. NewPlayer(site, items) \in GoodPlayer /\ NewPlayer(site, items).Coords \in Place
  BY NewPlayerOK
<1>2. /\ GoodWorld(joined) /\ DOMAIN joined.players = DOMAIN world.players \cup {p}
      /\ \A q \in DOMAIN world.players \cup {p} :
            joined.players[q] = IF q = p THEN NewPlayer(site, items) ELSE world.players[q]
  BY <1>1, AssignOK
<1>3. Placed(joined)
  BY <1>1, <1>2 DEF Placed
<1>4. /\ world' = IF none THEN FullTurn(joined, p) ELSE joined
      /\ CurrentPlayerID' = IF none THEN p ELSE CurrentPlayerID
      /\ \E others \in InOrder(DOMAIN world.players) : inbox' = Told(welcome(others) \o turn)
      /\ ai' = ai /\ ai.pc = "off"
      /\ UNCHANGED <<rounds, watcher, connected, client>>
  BY DEF Register, Idle, clientVars
<1> HIDE DEF joined
<1>5. GoodWorld(world') /\ Placed(world') /\ DOMAIN world'.players = DOMAIN joined.players
  <2>1. CASE none
    <3>1. /\ GoodWorld(FullTurn(joined, p))
          /\ DOMAIN FullTurn(joined, p).players = DOMAIN joined.players
          /\ \A q \in DOMAIN joined.players :
                FullTurn(joined, p).players[q].Coords = joined.players[q].Coords
      BY <1>2, FullTurnOK
    <3> QED BY <1>3, <1>4, <2>1, <3>1, PlacedOK
  <2>2. CASE ~none
    BY <1>2, <1>3, <1>4, <2>2
  <2> QED BY <2>1, <2>2
<1>6. CurrentPlayerID' \in DOMAIN world'.players \cup {NoPlayer}
  BY <1>2, <1>4, <1>5
<1>7. inbox' \in Seq(GoodMessage)
  <2>1. PICK others \in InOrder(DOMAIN world.players) : inbox' = Told(welcome(others) \o turn)
    BY <1>4
  <2>2. Welcome(joined, p, others) \in Seq(GoodMessage)
    BY <1>2, PlayersFinite, WelcomeOK
  <2>3. <<PlayerMsg("ClientAddPlayer", p, joined.players[p])>> \in Seq(GoodMessage)
    <3>1. joined.players[p] \in GoodPlayer
      BY <1>1, <1>2
    <3>2. PlayerMsg("ClientAddPlayer", p, joined.players[p]) \in GoodMessage
      BY <3>1, MessageOK
    <3> QED BY <3>2
  <2>4. turn \in Seq(GoodMessage)
    <3>1. ToWatcher(p, <<Msg("GamePlayerTurn", NoPlayer)>>) \in Seq(GoodMessage)
      BY TurnMessageOK, ToWatcherOK
    <3>2. <<>> \in Seq(GoodMessage)
      OBVIOUS
    <3> QED BY <3>1, <3>2
  <2>5. welcome(others) \in Seq(GoodMessage)
    BY <2>2, <2>3
  <2> HIDE DEF welcome, turn
  <2>6. welcome(others) \o turn \in Seq(GoodMessage)
    BY <2>4, <2>5
  <2> QED BY <2>1, <2>6, ToldOK
<1>8. GoodAI'
  BY <1>4 DEF GoodAI
<1> QED BY <1>4, <1>5, <1>6, <1>7, <1>8

\* The locals of MakeAITurn, given field by field.
LEMMA AIStateOK ==
    /\ \A pc \in {"off", "enemy", "act"}, i, n \in Nat, left \in 0 .. 3, c \in Vec,
          dirt \in BOOLEAN, list \in Seq(EnemyAction) :
        [pc |-> pc, i |-> i, ActiveEnemyID |-> n, LeftedAction |-> left, TargetCoords |-> c,
         EnemyListDirt |-> dirt, enemyActions |-> list] \in AIState
    /\ \A s \in AIState :
        /\ s = [pc |-> s.pc, i |-> s.i, ActiveEnemyID |-> s.ActiveEnemyID,
                LeftedAction |-> s.LeftedAction, TargetCoords |-> s.TargetCoords,
                EnemyListDirt |-> s.EnemyListDirt, enemyActions |-> s.enemyActions]
        /\ s.pc \in {"off", "enemy", "act"} /\ s.i \in Nat /\ s.ActiveEnemyID \in Nat
        /\ s.LeftedAction \in 0 .. 3 /\ s.TargetCoords \in Vec /\ s.EnemyListDirt \in BOOLEAN
        /\ s.enemyActions \in Seq(EnemyAction)
BY DEF AIState

LEMMA AIStartOK == AIStart \in AIState /\ AIStart.pc = "enemy"
<1> DEFINE clean == FALSE
           here == CoordVec(0, 0, 0)
           list == <<>>
<1>1. here \in Vec /\ list \in Seq(EnemyAction) /\ clean \in BOOLEAN
  BY DEF Vec, CoordVec
<1>2. AIOff = [pc |-> "off", i |-> 0, ActiveEnemyID |-> 0, LeftedAction |-> 0,
               TargetCoords |-> here, EnemyListDirt |-> clean, enemyActions |-> list]
  BY DEF AIOff
<1> HIDE DEF clean, here, list
<1>3. AIOff \in AIState
  BY <1>1, <1>2 DEF AIState
<1>4. AIStart \in AIState
  BY <1>3 DEF AIStart, AIState
<1> QED BY <1>3, <1>4 DEF AIStart, AIState

LEMMA ApproveKeeps ==
    ASSUME IInv, NEW p \in Players, NEW d \in Steps, ApproveAction(p, d)
    PROVE  IInv'
<1> DEFINE acted == MakeApprovedAction(world, MoveBy(p, d))
           messages == <<Msg("GamePlayerActionValidated", MoveBy(p, d))>>
           next == First(After(p))
           turn == TurnTold(next)
<1> USE DEF IInv
<1>1. /\ p \in DOMAIN world.players /\ Approved(p, d) /\ ai.pc = "off"
      /\ PassTurn(p, acted, messages)
      /\ UNCHANGED <<rounds, watcher, connected, client>>
  BY DEF ApproveAction, MayAsk, Idle, clientVars
<1>2. MoveBy(p, d) \in PlayerAction /\ MoveBy(p, d).PlayerID = p
      /\ MoveBy(p, d).ActionType = "Move" /\ MoveBy(p, d).ActionInfo = d
  BY VecOK DEF MoveBy, PlayerAction, PlayerActionTypes
<1>3. /\ GoodWorld(acted) /\ DOMAIN acted.players = DOMAIN world.players
      /\ \A q \in DOMAIN world.players :
            acted.players[q].Coords = IF q = p THEN Plus(world.players[q].Coords, d)
                                      ELSE world.players[q].Coords
  BY <1>1, <1>2, MakeApprovedActionOK
<1>4. Placed(acted)
  <2>1. world.players[p].Coords \in Place
    BY <1>1 DEF Placed
  <2>2. Inside(Plus(world.players[p].Coords, d)) /\ Plus(world.players[p].Coords, d) \in Vec
    BY <1>1, <2>1, ApprovedInside
  <2>3. Plus(world.players[p].Coords, d) \in Place
    BY <2>2, MapAssumption DEF Inside, Place
  <2> QED BY <1>3, <2>3 DEF Placed
<1>5. messages \in Seq(GoodMessage)
  BY <1>2, MessageOK
<1>6. Told(messages) \in Seq(GoodMessage)
  BY <1>5, ToldOK
<1> HIDE DEF acted, messages
<1>7. CASE acted.players[p].CurrentTurns > 0
  <2>1. world' = acted /\ inbox' = Told(messages) /\ UNCHANGED <<CurrentPlayerID, ai>>
    BY <1>1, <1>7 DEF PassTurn
  <2> QED BY <1>1, <1>3, <1>4, <1>6, <2>1 DEF GoodAI
<1>8. CASE ~(acted.players[p].CurrentTurns > 0) /\ After(p) # {}
  <2>1. /\ CurrentPlayerID' = next /\ world' = FullTurn(acted, next)
        /\ inbox' = Told(messages \o turn) /\ ai' = ai
    BY <1>1, <1>8 DEF PassTurn
  <2>2. next \in DOMAIN world.players
    <3>1. After(p) \in SUBSET Nat
      BY PlayersFinite DEF After
    <3>2. next \in After(p)
      BY <1>8, <3>1, FirstOK
    <3> QED BY <3>2 DEF After
  <2>3. /\ GoodWorld(FullTurn(acted, next))
        /\ DOMAIN FullTurn(acted, next).players = DOMAIN acted.players
        /\ \A q \in DOMAIN acted.players :
            FullTurn(acted, next).players[q].Coords = acted.players[q].Coords
    BY <1>3, FullTurnOK
  <2>4. Placed(FullTurn(acted, next))
    BY <1>4, <2>3, PlacedOK
  <2>5. turn \in Seq(GoodMessage)
    <3>1. next \in Players
      BY <2>2 DEF GoodWorld
    <3> QED BY <3>1, TurnToldOK
  <2> HIDE DEF turn, next
  <2>6. messages \o turn \in Seq(GoodMessage)
    BY <1>5, <2>5
  <2>7. Told(messages \o turn) \in Seq(GoodMessage)
    BY <2>6, ToldOK
  <2> QED BY <1>1, <1>3, <2>1, <2>2, <2>3, <2>4, <2>7 DEF GoodAI
<1>9. CASE ~(acted.players[p].CurrentTurns > 0) /\ After(p) = {}
  <2>1. world' = acted /\ inbox' = Told(messages) /\ ai' = AIStart
        /\ UNCHANGED CurrentPlayerID
    BY <1>1, <1>9 DEF PassTurn
  <2>2. GoodAI'
    BY <1>1, <1>3, <2>1, AIStartOK DEF GoodAI
  <2> QED BY <1>1, <1>3, <1>4, <1>6, <2>1, <2>2
<1> QED BY <1>7, <1>8, <1>9

LEMMA SkipDeadEnemyKeeps ==
    ASSUME IInv, SkipDeadEnemy
    PROVE  IInv'
<1>1. ai' = [ai EXCEPT !.i = @ + 1, !.EnemyListDirt = TRUE] /\ world' = world
      /\ ai.pc = "enemy" /\ UNCHANGED <<CurrentPlayerID, rounds, watcher, connected, client, inbox>>
  BY DEF SkipDeadEnemy, AIAt, clientVars
<1>2. ai' = [pc |-> "enemy", i |-> ai.i + 1, ActiveEnemyID |-> ai.ActiveEnemyID,
             LeftedAction |-> ai.LeftedAction, TargetCoords |-> ai.TargetCoords,
             EnemyListDirt |-> TRUE, enemyActions |-> ai.enemyActions]
  BY <1>1 DEF IInv, GoodAI, AIState
<1>3. ai' \in AIState /\ ai'.pc = "enemy"
  <2> DEFINE dirt == ai'.EnemyListDirt
  <2>1. /\ ai.i + 1 \in Nat /\ ai.ActiveEnemyID \in Nat /\ ai.ActiveEnemyID + 1 \in Nat
        /\ ai.LeftedAction \in 0 .. 3 /\ ai.TargetCoords \in Vec
        /\ ai.enemyActions \in Seq(EnemyAction) /\ dirt \in BOOLEAN
    BY <1>2, AIStateOK DEF IInv, GoodAI
  <2>2. ai' = [ai' EXCEPT !.EnemyListDirt = dirt]
    BY <1>2
  <2> HIDE DEF dirt
  <2> QED BY <1>2, <2>1, <2>2 DEF AIState
<1> QED BY <1>1, <1>3 DEF IInv, GoodAI

LEMMA ChooseTargetKeeps ==
    ASSUME IInv, ChooseTarget
    PROVE  IInv'
<1> DEFINE e == world.enemies[ai.i]
<1> USE DEF IInv
<1>1. /\ ai.pc = "enemy" /\ ai.i \in DOMAIN world.enemies
      /\ world' = [world EXCEPT !.enemies[ai.i] = Equip(e)]
      /\ UNCHANGED <<CurrentPlayerID, rounds, watcher, connected, client, inbox>>
  BY DEF ChooseTarget, AIAt, clientVars
<1>2. PICK target \in TargetCoords(world, ai.i) :
        ai' = [ai EXCEPT !.pc = "act", !.TargetCoords = target, !.LeftedAction = e.MaxActions]
  BY DEF ChooseTarget
<1>3. e \in GoodEnemy
  BY <1>1 DEF GoodWorld
<1>4. Equip(e) = e
  BY <1>3, EquipOK
<1>5. /\ GoodWorld(world') /\ world'.players = world.players
      /\ DOMAIN world'.enemies = DOMAIN world.enemies
  BY <1>1, <1>3, <1>4, PutEnemyOK
<1>6. target \in Vec /\ e.MaxActions \in 0 .. 3
  BY <1>1, <1>3, TargetCoordsOK DEF GoodEnemy, Enemy
<1> HIDE DEF e
<1>7. ai' \in AIState /\ ai'.i = ai.i
  BY <1>2, <1>6 DEF GoodAI, AIState
<1> QED BY <1>1, <1>5, <1>7 DEF GoodAI, Placed

LEMMA ActKeeps ==
    ASSUME IInv, AIAt("act"), ai.LeftedAction # 0, NEW type \in EnemyActionTypes,
           NEW info \in Vec, NEW target \in Vec, Act(type, info, target)
    PROVE  IInv'
<1> DEFINE action == [actionType |-> type, EnemyID |-> ai.ActiveEnemyID, ActionInfo |-> info]
           list == Append(ai.enemyActions, action)
           acted == MakeEnemyAction(world, ai.i, action)
<1> USE DEF IInv
<1>1. /\ ai.pc = "act" /\ ai.i \in DOMAIN world.enemies /\ ai \in AIState
      /\ DOMAIN world.players # {}
      /\ UNCHANGED <<CurrentPlayerID, rounds, watcher, connected, client, inbox>>
  BY DEF AIAt, GoodAI, clientVars
<1>2. /\ world' = acted
      /\ ai' = [ai EXCEPT !.TargetCoords = target, !.LeftedAction = @ - 1, !.enemyActions = list]
  BY DEF Act
<1>3. action \in EnemyAction
  BY <1>1 DEF EnemyAction, AIState
<1>4. /\ GoodWorld(acted) /\ DOMAIN acted.players = DOMAIN world.players
      /\ DOMAIN acted.enemies = DOMAIN world.enemies
      /\ \A q \in DOMAIN world.players : acted.players[q].Coords = world.players[q].Coords
  BY <1>1, <1>3, MakeEnemyActionOK
<1>5. list \in Seq(EnemyAction)
  BY <1>1, <1>3 DEF AIState
<1> HIDE DEF list, acted, action
<1>6. Placed(acted)
  BY <1>4, PlacedOK
<1>7. ai' \in AIState /\ ai'.i = ai.i
  <2>1. ai' = [pc |-> ai.pc, i |-> ai.i, ActiveEnemyID |-> ai.ActiveEnemyID,
               LeftedAction |-> ai.LeftedAction - 1, TargetCoords |-> target,
               EnemyListDirt |-> ai.EnemyListDirt, enemyActions |-> list]
    BY <1>1, <1>2 DEF AIState
  <2>2. ai.LeftedAction - 1 \in 0 .. 3
    BY <1>1 DEF AIState
  <2> QED BY <1>1, <1>5, <2>1, <2>2, AIStateOK
<1> QED BY <1>1, <1>2, <1>4, <1>6, <1>7 DEF GoodAI

LEMMA MoveKeeps ==
    ASSUME IInv, Move
    PROVE  IInv'
<1>1. /\ AIAt("act") /\ ai.LeftedAction # 0
      /\ ai.i \in DOMAIN world.enemies /\ ai.TargetCoords \in Vec
  BY DEF Move, AIAt, IInv, GoodAI, AIState
<1>2. Displacement \in Vec
  <2>1. world.enemies[ai.i].Coords \in Vec
    BY <1>1 DEF IInv, GoodWorld, GoodEnemy, Enemy
  <2> QED BY <1>1, <2>1, VecOK DEF Displacement
<1>3. Sign(Displacement.x) \in Int /\ Sign(Displacement.y) \in Int
  BY DEF Sign
<1>4. /\ CoordVec(Sign(Displacement.x), 0, 0) \in Vec
      /\ CoordVec(0, Sign(Displacement.y), 0) \in Vec
      /\ MinusScalar(ai.TargetCoords, Sign(Displacement.x)) \in Vec
      /\ MinusScalar(ai.TargetCoords, Sign(Displacement.y)) \in Vec
  BY <1>1, <1>3, VecOK
<1>5. "EnemyMove" \in EnemyActionTypes
  BY DEF EnemyActionTypes
<1>6. \/ Act("EnemyMove", CoordVec(Sign(Displacement.x), 0, 0),
             MinusScalar(ai.TargetCoords, Sign(Displacement.x)))
      \/ Act("EnemyMove", CoordVec(0, Sign(Displacement.y), 0),
             MinusScalar(ai.TargetCoords, Sign(Displacement.y)))
  BY DEF Move
<1> QED BY <1>1, <1>4, <1>5, <1>6, ActKeeps

LEMMA BaseAttackKeeps ==
    ASSUME IInv, BaseAttack
    PROVE  IInv'
<1>1. /\ AIAt("act") /\ ai.LeftedAction # 0
      /\ ai.i \in DOMAIN world.enemies /\ ai.TargetCoords \in Vec
  BY DEF BaseAttack, AIAt, IInv, GoodAI, AIState
<1>2. Displacement \in Vec
  <2>1. world.enemies[ai.i].Coords \in Vec
    BY <1>1 DEF IInv, GoodWorld, GoodEnemy, Enemy
  <2> QED BY <1>1, <2>1, VecOK DEF Displacement
<1>3. CoordVec(Displacement.x, Displacement.y, 0) \in Vec
  BY <1>2 DEF Vec, CoordVec
<1>4. "EnemyBaseAttack" \in EnemyActionTypes
  BY DEF EnemyActionTypes
<1>5. Act("EnemyBaseAttack", CoordVec(Displacement.x, Displacement.y, 0), ai.TargetCoords)
  BY DEF BaseAttack
<1> QED BY <1>1, <1>3, <1>4, <1>5, ActKeeps

LEMMA NextEnemyKeeps ==
    ASSUME IInv, NextEnemy
    PROVE  IInv'
<1>1. ai' = [ai EXCEPT !.pc = "enemy", !.i = @ + 1, !.ActiveEnemyID = @ + 1] /\ world' = world
      /\ ai.pc = "act" /\ UNCHANGED <<CurrentPlayerID, rounds, watcher, connected, client, inbox>>
  BY DEF NextEnemy, AIAt, clientVars
<1>2. ai' = [pc |-> "enemy", i |-> ai.i + 1, ActiveEnemyID |-> ai.ActiveEnemyID + 1,
             LeftedAction |-> ai.LeftedAction, TargetCoords |-> ai.TargetCoords,
             EnemyListDirt |-> ai.EnemyListDirt, enemyActions |-> ai.enemyActions]
  BY <1>1 DEF IInv, GoodAI, AIState
<1>3. ai' \in AIState /\ ai'.pc = "enemy"
  <2> DEFINE dirt == ai'.EnemyListDirt
  <2>1. /\ ai.i + 1 \in Nat /\ ai.ActiveEnemyID \in Nat /\ ai.ActiveEnemyID + 1 \in Nat
        /\ ai.LeftedAction \in 0 .. 3 /\ ai.TargetCoords \in Vec
        /\ ai.enemyActions \in Seq(EnemyAction) /\ dirt \in BOOLEAN
    BY <1>2, AIStateOK DEF IInv, GoodAI
  <2>2. ai' = [ai' EXCEPT !.EnemyListDirt = dirt]
    BY <1>2
  <2> HIDE DEF dirt
  <2> QED BY <1>2, <2>1, <2>2 DEF AIState
<1> QED BY <1>1, <1>3 DEF IInv, GoodAI

LEMMA EndAITurnKeeps ==
    ASSUME IInv, EndAITurn
    PROVE  IInv'
<1> DEFINE next == First(DOMAIN world.players)
           told == [k \in DOMAIN ai.enemyActions |-> Msg("GameAITurnAction", ai.enemyActions[k])]
           turn == TurnTold(next)
<1> USE DEF IInv
<1>1. /\ ai.pc = "enemy" /\ CurrentPlayerID' = next
      /\ \E kept \in InOrder(Kept) :
            world' = FullTurn([world EXCEPT !.enemies = [k \in DOMAIN kept |-> @[kept[k]]]], next)
      /\ inbox' = Told(told \o turn)
      /\ ai' = AIOff /\ rounds' = rounds + 1
      /\ UNCHANGED <<watcher, connected, client>>
  BY DEF EndAITurn, FirstPlayerAgain, clientVars
<1>2. next \in DOMAIN world.players
  <2>1. DOMAIN world.players \in SUBSET Nat /\ DOMAIN world.players # {}
    BY <1>1, PlayersFinite DEF GoodAI
  <2> QED BY <2>1, FirstOK
<1>3. told \in Seq(GoodMessage)
  <2>1. ai.enemyActions \in Seq(EnemyAction)
    BY AIStateOK DEF GoodAI
  <2>2. \A k \in DOMAIN ai.enemyActions : told[k] \in GoodMessage
    BY <2>1, MessageOK
  <2>3. told \in [1 .. Len(ai.enemyActions) -> GoodMessage] /\ Len(ai.enemyActions) \in Nat
    <3>1. DOMAIN ai.enemyActions = 1 .. Len(ai.enemyActions) /\ Len(ai.enemyActions) \in Nat
      BY <2>1
    <3>2. told = [k \in 1 .. Len(ai.enemyActions) |->
                    Msg("GameAITurnAction", ai.enemyActions[k])]
      BY <3>1
    <3> QED BY <2>2, <3>1, <3>2
  <2> HIDE DEF told
  <2> QED BY <2>3
<1>4. turn \in Seq(GoodMessage)
  <2>1. next \in Players
    BY <1>2 DEF GoodWorld
  <2> QED BY <2>1, TurnToldOK
<1> HIDE DEF told, turn, next
<1>5. told \o turn \in Seq(GoodMessage)
  BY <1>3, <1>4
<1>6. inbox' \in Seq(GoodMessage)
  BY <1>1, <1>5, ToldOK
<1>7. /\ GoodWorld(world') /\ DOMAIN world'.players = DOMAIN world.players
      /\ \A q \in DOMAIN world.players : world'.players[q].Coords = world.players[q].Coords
  <2>1. PICK kept \in InOrder(Kept) :
            world' = FullTurn([world EXCEPT !.enemies =
                                [k \in DOMAIN kept |-> world.enemies[kept[k]]]], next)
    BY <1>1
  <2> DEFINE list == [k \in DOMAIN kept |-> world.enemies[kept[k]]]
             left == [players |-> world.players, enemies |-> list]
  <2>2. world.enemies \in Seq(GoodEnemy) /\ DOMAIN world.enemies = 1 .. Len(world.enemies)
        /\ Len(world.enemies) \in Nat
    BY DEF GoodWorld
  <2>3. IsFiniteSet(Kept) /\ Kept \subseteq DOMAIN world.enemies
    <3>1. Kept \subseteq DOMAIN world.enemies
      BY DEF Kept
    <3>2. IsFiniteSet(1 .. Len(world.enemies))
      <4>1. 1 \in Int /\ Len(world.enemies) \in Int
        BY <2>2
      <4> QED BY <4>1, FS_Interval
    <3> QED BY <2>2, <3>1, <3>2, FS_Subset
  <2>4. kept \in Seq(Kept) /\ DOMAIN kept = 1 .. Cardinality(Kept) /\ Cardinality(Kept) \in Nat
    BY <2>3, InOrderOK
  <2>5. \A k \in DOMAIN kept : list[k] \in GoodEnemy
    <3> TAKE k \in DOMAIN kept
    <3>1. kept[k] \in DOMAIN world.enemies
      BY <2>3, <2>4
    <3> QED BY <2>2, <3>1
  <2>6. list \in [1 .. Cardinality(Kept) -> GoodEnemy]
    BY <2>4, <2>5
  <2>7. world' = FullTurn([world EXCEPT !.enemies = list], next)
    BY <2>1
  <2> HIDE DEF list
  <2>8. list \in Seq(GoodEnemy)
    BY <2>4, <2>6
  <2>9. [world EXCEPT !.enemies = list] = left
    BY DEF GoodWorld
  <2>10. GoodWorld(left) /\ left.players = world.players
    BY <2>8 DEF GoodWorld
  <2> HIDE DEF left
  <2> QED BY <2>7, <2>9, <2>10, FullTurnOK
<1>8. Placed(world')
  BY <1>7, PlacedOK
<1>9. GoodAI'
  <2>1. CoordVec(0, 0, 0) \in Vec /\ <<>> \in Seq(EnemyAction)
    BY DEF Vec, CoordVec
  <2>2. AIOff \in AIState /\ AIOff.pc = "off"
    BY <2>1 DEF AIOff, AIState
  <2> QED BY <1>1, <2>2 DEF GoodAI
<1> QED BY <1>1, <1>2, <1>6, <1>7, <1>8, <1>9

LEMMA HandleKeeps ==
    ASSUME IInv, Handle
    PROVE  IInv'
<1> USE DEF IInv
<1>1. /\ inbox # <<>> /\ client' = Handled(client, Head(inbox))
      /\ inbox' = Tail(inbox) \/ inbox' = <<>>
      /\ UNCHANGED <<world, CurrentPlayerID, ai, rounds, watcher, connected>>
  BY DEF Handle, serverVars
<1>2. Head(inbox) \in GoodMessage /\ Tail(inbox) \in Seq(GoodMessage)
  BY <1>1
<1>3. GoodClient(client')
  BY <1>1, <1>2, HandledOK
<1>4. inbox' \in Seq(GoodMessage)
  <2>1. CASE inbox' = <<>>
    BY <2>1
  <2>2. CASE inbox' = Tail(inbox)
    BY <1>2, <2>2
  <2> QED BY <1>1, <2>1, <2>2
<1> QED BY <1>1, <1>3, <1>4 DEF GoodAI

LEMMA NextKeeps == IInv /\ [Next]_vars => IInv'
<1> SUFFICES ASSUME IInv, [Next]_vars PROVE IInv'
  OBVIOUS
<1>1. CASE UNCHANGED vars
  BY <1>1 DEF vars, serverVars, clientVars, IInv, GoodAI
<1>2. CASE Connect
  BY <1>2 DEF Connect, serverVars, IInv, GoodAI
<1>3. ASSUME NEW p \in Players, NEW site \in SpawnSites, NEW items \in StartItems,
             Register(p, site, items)
      PROVE  IInv'
  BY <1>3, RegisterKeeps
<1>4. ASSUME NEW p \in Players, NEW d \in Steps, ApproveAction(p, d)
      PROVE  IInv'
  BY <1>4, ApproveKeeps
<1>5. ASSUME NEW p \in Players, NEW d \in Steps, AbortAction(p, d)
      PROVE  IInv'
  BY <1>1, <1>5 DEF AbortAction
<1>6. CASE SkipDeadEnemy
  BY <1>6, SkipDeadEnemyKeeps
<1>7. CASE ChooseTarget
  BY <1>7, ChooseTargetKeeps
<1>8. CASE Move
  BY <1>8, MoveKeeps
<1>9. CASE GoNowhere
  BY <1>1, <1>9 DEF GoNowhere
<1>10. CASE BaseAttack
  BY <1>10, BaseAttackKeeps
<1>11. CASE NextEnemy
  BY <1>11, NextEnemyKeeps
<1>12. CASE EndAITurn
  BY <1>12, EndAITurnKeeps
<1>13. CASE Handle
  BY <1>13, HandleKeeps
<1>14. CASE Over
  BY <1>1, <1>14 DEF Over
<1> QED BY <1>1, <1>2, <1>3, <1>4, <1>5, <1>6, <1>7, <1>8, <1>9, <1>10, <1>11, <1>12, <1>13,
           <1>14 DEF Next, AITurn

\* Whatever the players do and the enemies answer, the server's world, every
\* message on its way and the client's copy are good.
THEOREM GoodAlways == Spec => []IInv
<1>1. Init => IInv
  BY InitOK
<1>2. IInv /\ [Next]_vars => IInv'
  BY NextKeeps
<1> QED BY <1>1, <1>2, PTL DEF Spec

-----------------------------------------------------------------------------
(* What follows from it.                                                   *)

\* The types: hit points, quantities and turn counters never go below zero,
\* and coordinates and inventories keep their shape through every rule.
THEOREM TypeCorrect == Spec => []TypeOK
<1>1. IInv => TypeOK
  <2> SUFFICES ASSUME IInv PROVE TypeOK
    OBVIOUS
  <2>1. IsWorld(world) /\ IsWorld(client.world)
    BY GoodWorldIsWorld DEF IInv, GoodClient
  <2>2. inbox \in Seq(Message)
    <3>1. inbox \in Seq(GoodMessage)
      BY DEF IInv
    <3> QED BY <3>1, GoodMessageIsMessage
  <2> QED BY <2>1, <2>2 DEF IInv, GoodAI, GoodClient, TypeOK
<1> QED BY <1>1, GoodAlways, PTL

\* The off-by-one of CheckPlayerAction's range test (GameServer.cpp:310) is
\* out of reach of any player: no action makes it index past the tiles.
THEOREM TilesStayInBounds == Spec => []TileInBounds
<1>1. IInv => TileInBounds
  <2> SUFFICES ASSUME IInv, NEW p \in DOMAIN world.players, NEW d \in Steps,
                      ~OffMap(Plus(world.players[p].Coords, d))
               PROVE  TileIndex(Plus(world.players[p].Coords, d).x,
                                Plus(world.players[p].Coords, d).y) \in DOMAIN MapTiles
    BY DEF TileInBounds
  <2>1. world.players[p].Coords \in Place
    BY DEF IInv, Placed
  <2> QED BY <2>1, StepOK, TileOK
<1> QED BY <1>1, GoodAlways, PTL

\* No enemy ever reads Storage[InvalidID] (spNetMETA.h:436).
THEOREM EnemiesAlwaysArmed == Spec => []EnemiesStayArmed
<1>1. IInv => EnemiesStayArmed
  <2> SUFFICES ASSUME IInv, NEW i \in DOMAIN world.enemies
               PROVE  /\ world.enemies[i].EquipedItemID \in Slots
                      /\ ~Weapon(world.enemies[i]).empty
    BY DEF EnemiesStayArmed
  <2>1. world.enemies[i] \in GoodEnemy
    BY DEF IInv, GoodWorld
  <2> QED BY <2>1 DEF GoodEnemy
<1> QED BY <1>1, GoodAlways, PTL

\* The unsigned quantity of arrows never wraps (spNetMETA.h:449, 499).
THEOREM AmmunitionNeverWraps == Spec => []AmmunitionLeft
<1>1. IInv => AmmunitionLeft
  <2> SUFFICES ASSUME IInv PROVE AmmunitionLeft
    OBVIOUS
  <2>1. \A p \in DOMAIN world.players : world.players[p].Inventory \in Stock
    BY DEF IInv, GoodWorld, GoodPlayer
  <2>2. \A i \in DOMAIN world.enemies : world.enemies[i].Inventory \in Stock
    BY DEF IInv, GoodWorld, GoodEnemy
  <2> QED BY <2>1, <2>2 DEF AmmunitionLeft, Stock
<1> QED BY <1>1, GoodAlways, PTL

\* A holder that is dead or off the map never passes the turn on
\* (GameServer.cpp:295): no message of any player changes that.
THEOREM StuckStaysStuck == Spec => StuckForEver
<1>1. IInv /\ [Next]_vars => [HolderStuck => HolderStuck' /\ CurrentPlayerID' = CurrentPlayerID]_vars
  <2> SUFFICES ASSUME IInv, Next, HolderStuck
               PROVE  HolderStuck' /\ CurrentPlayerID' = CurrentPlayerID
    OBVIOUS
  <2> DEFINE h == CurrentPlayerID
  <2>1. ai.pc = "off" /\ h # NoPlayer /\ h \in DOMAIN world.players /\ Stuck(h)
    BY DEF HolderStuck, IInv
  <2>2. ASSUME UNCHANGED <<world, CurrentPlayerID, ai>>
        PROVE  HolderStuck' /\ CurrentPlayerID' = CurrentPlayerID
    BY <2>2 DEF HolderStuck, Stuck
  <2>3. CASE Connect \/ Handle \/ Over \/ \E p \in Players, d \in Steps : AbortAction(p, d)
    BY <2>2, <2>3 DEF Connect, Handle, Over, AbortAction, vars, serverVars
  <2>4. ASSUME NEW p \in Players, NEW site \in SpawnSites, NEW items \in StartItems,
               Register(p, site, items)
        PROVE  HolderStuck' /\ CurrentPlayerID' = CurrentPlayerID
    <3>1. /\ world' = Assign(world, p, NewPlayer(site, items)) /\ CurrentPlayerID' = h
          /\ p # h /\ ai' = ai
      BY <2>1, <2>4 DEF Register
    <3>2. world'.players[h] = world.players[h]
      BY <2>1, <2>4, <3>1, NewPlayerOK, AssignOK DEF IInv
    <3> QED BY <2>1, <3>1, <3>2 DEF HolderStuck, Stuck
  <2>5. ASSUME NEW p \in Players, NEW d \in Steps, ApproveAction(p, d)
        PROVE  FALSE
    <3>1. p = h /\ Approved(p, d)
      BY <2>5 DEF ApproveAction, Approved
    <3>2. world.players[p].Coords \in Place /\ p \in DOMAIN world.players
      BY <2>1, <3>1 DEF IInv, Placed
    <3>3. Inside(Plus(world.players[p].Coords, d)) /\ Alive(world.players[p])
      BY <3>1, <3>2, ApprovedInside
    <3> QED BY <2>1, <3>1, <3>3 DEF Stuck
  <2>6. ~AITurn
    BY <2>1 DEF AITurn, SkipDeadEnemy, ChooseTarget, Move, GoNowhere, OnlyZLeft, BaseAttack,
                NextEnemy, EndAITurn, AIAt
  <2> QED BY <2>3, <2>4, <2>5, <2>6 DEF Next
<1> QED BY <1>1, GoodAlways, PTL DEF Spec, StuckForEver

-----------------------------------------------------------------------------
(* What a client will have handled.                                        *)

\* Whatever holds at 0 and goes on to hold holds of all numbers.
LEMMA AllNumbers ==
    ASSUME NEW S, 0 \in S, \A n \in Nat : n \in S => n + 1 \in S
    PROVE  Nat \subseteq S
<1> DEFINE others == Nat \ S
<1>1. SUFFICES ASSUME others # {} PROVE FALSE
  OBVIOUS
<1>2. PICK n \in others : \A k \in others : n <= k
  BY <1>1, MinOK
<1>3. n # 0 /\ n \in Nat /\ n \notin S
  BY <1>2
<1>4. n - 1 \in Nat /\ n - 1 \notin others
  BY <1>2, <1>3
<1>5. n - 1 + 1 = n
  BY <1>3
<1>6. n - 1 + 1 \in S
  BY <1>4
<1> QED BY <1>3, <1>5, <1>6

\* Actions of enemies, as messages.
Actions(list) == [k \in DOMAIN list |-> Msg("GameAITurnAction", list[k])]

LEMMA ActionsOK ==
    ASSUME NEW list \in Seq(EnemyAction)
    PROVE  Actions(list) \in Seq(GoodMessage) /\ Len(Actions(list)) = Len(list)
<1>1. Len(list) \in Nat /\ DOMAIN list = 1 .. Len(list)
  OBVIOUS
<1>2. \A k \in DOMAIN list : Actions(list)[k] \in GoodMessage
  BY MessageOK DEF Actions
<1>3. Actions(list) \in [1 .. Len(list) -> GoodMessage]
  BY <1>1, <1>2 DEF Actions
<1> QED BY <1>1, <1>3

\* One action more is one message more.
LEMMA ActionsMore ==
    ASSUME NEW list \in Seq(EnemyAction), NEW a \in EnemyAction
    PROVE  Actions(Append(list, a)) = Actions(list) \o <<Msg("GameAITurnAction", a)>>
<1> DEFINE m == Msg("GameAITurnAction", a)
           ms == Actions(list)
           n == Len(list)
           more == Actions(Append(list, a))
<1>1. /\ n \in Nat /\ Append(list, a) \in Seq(EnemyAction) /\ Len(Append(list, a)) = n + 1
      /\ Append(list, a)[n + 1] = a /\ \A k \in 1 .. n : Append(list, a)[k] = list[k]
      /\ DOMAIN list = 1 .. n /\ DOMAIN Append(list, a) = 1 .. n + 1
  OBVIOUS
<1>2. ms \in Seq(GoodMessage) /\ Len(ms) = n /\ m \in GoodMessage
  BY ActionsOK, MessageOK
<1>3. more \in Seq(GoodMessage) /\ Len(more) = n + 1
  BY <1>1, ActionsOK
<1>4. more[n + 1] = m /\ \A k \in 1 .. n : more[k] = ms[k]
  BY <1>1 DEF Actions
<1> HIDE DEF ms, m, more, n
<1>5. ms \o <<m>> \in Seq(GoodMessage) /\ Len(ms \o <<m>>) = n + 1
  BY <1>1, <1>2
<1>6. (ms \o <<m>>)[n + 1] = m /\ \A k \in 1 .. n : (ms \o <<m>>)[k] = ms[k]
  BY <1>1, <1>2
<1>7. \A k \in 1 .. n + 1 : more[k] = (ms \o <<m>>)[k]
  <2> TAKE k \in 1 .. n + 1
  <2>1. k = n + 1 \/ k \in 1 .. n
    BY <1>1
  <2> QED BY <1>4, <1>6, <2>1
<1>8. more = ms \o <<m>>
  BY <1>1, <1>3, <1>5, <1>7
<1> QED BY <1>8 DEF ms, m, more

LEMMA BacklogOK ==
    ASSUME inbox \in Seq(GoodMessage), ai.enemyActions \in Seq(EnemyAction)
    PROVE  Backlog = inbox \o Actions(ai.enemyActions) /\ Backlog \in Seq(GoodMessage)
<1>1. Backlog = inbox \o Actions(ai.enemyActions)
  BY DEF Backlog, Actions
<1> QED BY <1>1, ActionsOK

\* A process that died handles nothing any more.
Lives(c, m) == IF c.fault = "none" THEN Handled(c, m) ELSE c

\* g is the client before the first of the messages, and after each of them.
Runs(c, ms, g) ==
    /\ DOMAIN g = 0 .. Len(ms) /\ g[0] = c
    /\ \A k \in 1 .. Len(ms) : g[k] = Lives(g[k - 1], ms[k])

Becomes(c, ms, d) == \E g : Runs(c, ms, g) /\ g[Len(ms)] = d

LEMMA BecomesNothing ==
    ASSUME NEW c
    PROVE  Becomes(c, <<>>, c)
<1> DEFINE g == [k \in {0} |-> c]
<1>1. Len(<<>>) = 0 /\ DOMAIN g = 0 .. 0 /\ g[0] = c /\ 1 .. 0 = {}
  OBVIOUS
<1> HIDE DEF g
<1> QED BY <1>1 DEF Becomes, Runs

LEMMA BecomesOne ==
    ASSUME NEW c, NEW m
    PROVE  Becomes(c, <<m>>, Lives(c, m))
<1> DEFINE d == Lives(c, m)
           g == [k \in {0, 1} |-> IF k = 0 THEN c ELSE d]
<1> HIDE DEF d
<1>1. /\ Len(<<m>>) = 1 /\ DOMAIN g = 0 .. 1 /\ g[0] = c /\ g[1] = d /\ 1 .. 1 = {1}
      /\ <<m>>[1] = m /\ 1 - 1 = 0
  OBVIOUS
<1> HIDE DEF g
<1>2. \A k \in 1 .. 1 : g[k] = Lives(g[k - 1], <<m>>[k])
  BY <1>1 DEF d
<1> QED BY <1>1, <1>2 DEF Becomes, Runs, d

LEMMA BecomesBoth ==
    ASSUME NEW ms \in Seq(GoodMessage), NEW ns \in Seq(GoodMessage), NEW c, NEW d, NEW e,
           Becomes(c, ms, d), Becomes(d, ns, e)
    PROVE  Becomes(c, ms \o ns, e)
<1>1. PICK f : Runs(c, ms, f) /\ f[Len(ms)] = d
  BY DEF Becomes
<1>2. PICK g : Runs(d, ns, g) /\ g[Len(ns)] = e
  BY DEF Becomes
<1> DEFINE L == Len(ms)
           both == [k \in 0 .. L + Len(ns) |-> IF k <= L THEN f[k] ELSE g[k - L]]
<1>3. /\ L \in Nat /\ Len(ns) \in Nat /\ Len(ms \o ns) = L + Len(ns)
      /\ \A k \in 1 .. L : (ms \o ns)[k] = ms[k]
      /\ \A k \in 1 .. Len(ns) : (ms \o ns)[L + k] = ns[k]
  OBVIOUS
<1>4. /\ DOMAIN f = 0 .. L /\ f[0] = c /\ f[L] = d
      /\ \A k \in 1 .. L : f[k] = Lives(f[k - 1], ms[k])
      /\ DOMAIN g = 0 .. Len(ns) /\ g[0] = d /\ g[Len(ns)] = e
      /\ \A k \in 1 .. Len(ns) : g[k] = Lives(g[k - 1], ns[k])
  BY <1>1, <1>2 DEF Runs
<1> HIDE DEF L
<1>5. DOMAIN both = 0 .. Len(ms \o ns) /\ both[0] = c
  BY <1>3, <1>4
<1>6. both[Len(ms \o ns)] = e
  <2>1. CASE Len(ns) = 0
    BY <1>3, <1>4, <2>1
  <2>2. CASE Len(ns) # 0
    BY <1>3, <1>4, <2>2
  <2> QED BY <2>1, <2>2
<1>7. ASSUME NEW k \in 1 .. Len(ms \o ns) PROVE both[k] = Lives(both[k - 1], (ms \o ns)[k])
  <2>1. CASE k <= L
    <3>1. k \in 1 .. L /\ both[k] = f[k] /\ both[k - 1] = f[k - 1]
      BY <1>3, <2>1
    <3> QED BY <1>3, <1>4, <3>1
  <2>2. CASE k = L + 1
    <3>1. both[k] = g[1] /\ both[k - 1] = f[L] /\ 1 \in 1 .. Len(ns) /\ 1 - 1 = 0
      BY <1>3, <2>2
    <3>2. g[1] = Lives(g[0], ns[1])
      BY <1>4, <3>1
    <3>3. (ms \o ns)[k] = ns[1]
      BY <1>3, <2>2, <3>1
    <3> QED BY <1>4, <3>1, <3>2, <3>3
  <2>3. CASE k > L + 1
    <3>1. k - L \in 1 .. Len(ns) /\ both[k] = g[k - L] /\ both[k - 1] = g[k - L - 1]
      BY <1>3, <2>3
    <3>2. (ms \o ns)[L + (k - L)] = ns[k - L] /\ L + (k - L) = k
      BY <1>3, <3>1
    <3> QED BY <1>4, <3>1, <3>2
  <2> QED BY <1>3, <2>1, <2>2, <2>3
<1> HIDE DEF both
<1> QED BY <1>5, <1>6, <1>7 DEF Becomes, Runs

\* The first of the messages may as well have been handled.
LEMMA BecomesAfterOne ==
    ASSUME NEW ms \in Seq(GoodMessage), ms # <<>>, NEW c, NEW d, Becomes(c, ms, d)
    PROVE  Becomes(Lives(c, Head(ms)), Tail(ms), d)
<1>1. PICK f : Runs(c, ms, f) /\ f[Len(ms)] = d
  BY DEF Becomes
<1> DEFINE L == Len(ms)
           rest == [k \in 0 .. L - 1 |-> f[k + 1]]
<1>2. /\ L \in Nat \ {0} /\ Len(Tail(ms)) = L - 1 /\ Head(ms) = ms[1]
      /\ \A k \in 1 .. L - 1 : Tail(ms)[k] = ms[k + 1]
  OBVIOUS
<1>3. f[0] = c /\ f[L] = d /\ \A k \in 1 .. L : f[k] = Lives(f[k - 1], ms[k])
  BY <1>1 DEF Runs
<1> HIDE DEF L
<1>4. /\ DOMAIN rest = 0 .. Len(Tail(ms)) /\ rest[Len(Tail(ms))] = d
  BY <1>2, <1>3
<1>5. rest[0] = Lives(c, Head(ms))
  <2>1. rest[0] = f[1] /\ 1 \in 1 .. L /\ 1 - 1 = 0
    BY <1>2
  <2>2. f[1] = Lives(f[0], ms[1])
    BY <1>3, <2>1
  <2> QED BY <1>2, <1>3, <2>1, <2>2
<1>6. ASSUME NEW k \in 1 .. Len(Tail(ms)) PROVE rest[k] = Lives(rest[k - 1], Tail(ms)[k])
  <2>1. rest[k] = f[k + 1] /\ rest[k - 1] = f[k] /\ k + 1 \in 1 .. L /\ k + 1 - 1 = k
        /\ k \in 1 .. L - 1
    BY <1>2
  <2>2. f[k + 1] = Lives(f[k], ms[k + 1])
    BY <1>3, <2>1
  <2> QED BY <1>2, <2>1, <2>2
<1> HIDE DEF rest
<1> QED BY <1>4, <1>5, <1>6 DEF Becomes, Runs

\* Whatever is sent to a process that died.
LEMMA BecomesDead ==
    ASSUME NEW ms \in Seq(GoodMessage), NEW c, c.fault # "none"
    PROVE  /\ Becomes(c, ms, c)
           /\ \A d : Becomes(c, ms, d) => d = c
<1>1. Len(ms) \in Nat
  OBVIOUS
<1>2. \A m : Lives(c, m) = c
  BY DEF Lives
<1>3. Becomes(c, ms, c)
  <2> DEFINE g == [k \in 0 .. Len(ms) |-> c]
  <2>1. Runs(c, ms, g) /\ g[Len(ms)] = c
    BY <1>1, <1>2 DEF Runs
  <2> HIDE DEF g
  <2> QED BY <2>1 DEF Becomes
<1>4. ASSUME NEW d, Becomes(c, ms, d) PROVE d = c
  <2>1. PICK g : Runs(c, ms, g) /\ g[Len(ms)] = d
    BY <1>4 DEF Becomes
  <2> DEFINE S == {k \in Nat : k <= Len(ms) => g[k] = c}
  <2>2. 0 \in S
    BY <2>1 DEF Runs
  <2>3. ASSUME NEW n \in Nat, n \in S PROVE n + 1 \in S
    <3> SUFFICES ASSUME n + 1 <= Len(ms) PROVE g[n + 1] = c
      OBVIOUS
    <3>1. n <= Len(ms) /\ n + 1 \in 1 .. Len(ms) /\ n + 1 - 1 = n
      BY <1>1
    <3>2. g[n + 1] = Lives(g[n], ms[n + 1])
      BY <2>1, <3>1 DEF Runs
    <3>3. g[n] = c
      BY <2>3, <3>1
    <3> QED BY <1>2, <3>2, <3>3
  <2> HIDE DEF S
  <2>4. Len(ms) \in S
    BY <1>1, <2>2, <2>3, AllNumbers
  <2> QED BY <1>1, <2>1, <2>4 DEF S
<1> QED BY <1>3, <1>4

\* The client of CaughtUp, dead or not.
LEMMA CaughtUpIs ==
    ASSUME Backlog \in Seq(GoodMessage)
    PROVE  \E h : /\ h[0] = client /\ h[Len(Backlog)] = CaughtUp
                  /\ \A k \in 1 .. Len(Backlog) : h[k] = Handled(h[k - 1], Backlog[k])
<1> DEFINE L == Len(Backlog)
           Goes(f, n) == /\ DOMAIN f = 0 .. n /\ f[0] = client
                         /\ \A k \in 1 .. n : f[k] = Handled(f[k - 1], Backlog[k])
           S == {n \in Nat : n <= L => \E f : Goes(f, n)}
<1>1. L \in Nat
  OBVIOUS
<1>2. 0 \in S
  <2> DEFINE f == [k \in {0} |-> client]
  <2>1. DOMAIN f = 0 .. 0 /\ f[0] = client
    OBVIOUS
  <2>2. \A k \in 1 .. 0 : f[k] = Handled(f[k - 1], Backlog[k])
    OBVIOUS
  <2> HIDE DEF f
  <2> QED BY <2>1, <2>2
<1>3. ASSUME NEW n \in Nat, n \in S PROVE n + 1 \in S
  <2> SUFFICES ASSUME n + 1 <= L PROVE \E f : Goes(f, n + 1)
    OBVIOUS
  <2>1. n <= L
    BY <1>1
  <2>2. PICK f : Goes(f, n)
    BY <1>3, <2>1
  <2> DEFINE last == Handled(f[n], Backlog[n + 1])
             e == [k \in 0 .. n + 1 |-> IF k = n + 1 THEN last ELSE f[k]]
  <2> HIDE DEF last
  <2>3. DOMAIN e = 0 .. n + 1 /\ e[0] = client
    BY <2>2
  <2>4. ASSUME NEW k \in 1 .. n + 1 PROVE e[k] = Handled(e[k - 1], Backlog[k])
    <3>1. CASE k = n + 1
      <4>1. e[k] = last /\ e[k - 1] = f[n]
        BY <3>1
      <4> QED BY <3>1, <4>1 DEF last
    <3>2. CASE k \in 1 .. n
      <4>1. e[k] = f[k] /\ e[k - 1] = f[k - 1]
        BY <3>2
      <4> QED BY <2>2, <3>2, <4>1
    <3> QED BY <3>1, <3>2
  <2> HIDE DEF e
  <2> QED BY <2>3, <2>4
<1> HIDE DEF S
<1>4. L \in S
  BY <1>1, <1>2, <1>3, AllNumbers
<1> DEFINE handled[k \in 0 .. L] == IF k = 0 THEN client ELSE Handled(handled[k - 1], Backlog[k])
           Again(f) == [k \in 0 .. L |-> IF k = 0 THEN client ELSE Handled(f[k - 1], Backlog[k])]
<1>5. CaughtUp = handled[L]
  BY DEF CaughtUp
<1>6. PICK f : Goes(f, L)
  BY <1>1, <1>4 DEF S
<1>7. \E h : h = Again(h)
  <2> DEFINE h == [k \in 0 .. L |-> f[k]]
  <2>1. h[0] = client /\ \A k \in 1 .. L : h[k] = Handled(h[k - 1], Backlog[k])
    <3>1. h[0] = f[0] /\ \A k \in 1 .. L : h[k] = f[k] /\ h[k - 1] = f[k - 1]
      BY <1>1
    <3> QED BY <1>6, <3>1
  <2>2. h = [k \in 0 .. L |-> h[k]]
    OBVIOUS
  <2> HIDE DEF h
  <2>3. \A k \in 0 .. L : h[k] = IF k = 0 THEN client ELSE Handled(h[k - 1], Backlog[k])
    BY <1>1, <2>1
  <2>4. h = Again(h)
    BY <2>2, <2>3
  <2> QED BY <2>4
<1>8. handled = Again(handled)
  BY <1>7
<1> HIDE DEF handled
<1>9. handled[0] = client /\ \A k \in 1 .. L : handled[k] = Handled(handled[k - 1], Backlog[k])
  <2>1. \A k \in 0 .. L :
            Again(handled)[k] = IF k = 0 THEN client ELSE Handled(handled[k - 1], Backlog[k])
    OBVIOUS
  <2>2. \A k \in 0 .. L : handled[k] = IF k = 0 THEN client ELSE Handled(handled[k - 1], Backlog[k])
    BY <1>8, <2>1
  <2> QED BY <1>1, <2>2
<1> QED BY <1>5, <1>9

\* A client that is caught up and alive has been alive all along.
LEMMA HandledFault ==
    ASSUME NEW c, GoodClient(c), NEW m \in GoodMessage, c.fault # "none"
    PROVE  Handled(c, m).fault # "none"
BY DEF Handled, GoodMessage, GoodClient

LEMMA CaughtUpLives ==
    ASSUME Backlog \in Seq(GoodMessage), GoodClient(client), NEW d, Becomes(client, Backlog, d)
    PROVE  CaughtUp.fault = "none" => CaughtUp = d
<1> DEFINE L == Len(Backlog)
<1>1. PICK h : /\ h[0] = client /\ h[L] = CaughtUp
               /\ \A k \in 1 .. L : h[k] = Handled(h[k - 1], Backlog[k])
  BY CaughtUpIs
<1>2. PICK g : /\ g[0] = client /\ g[L] = d
               /\ \A k \in 1 .. L : g[k] = Lives(g[k - 1], Backlog[k])
  BY DEF Becomes, Runs
<1>3. L \in Nat /\ \A k \in 1 .. L : Backlog[k] \in GoodMessage
  OBVIOUS
<1> DEFINE S == {k \in Nat : k <= L => GoodClient(h[k]) /\ (h[k].fault = "none" => h[k] = g[k])}
<1> HIDE DEF L
<1>4. 0 \in S
  BY <1>1, <1>2
<1>5. ASSUME NEW n \in Nat, n \in S PROVE n + 1 \in S
  <2> SUFFICES ASSUME n + 1 <= L
               PROVE  GoodClient(h[n + 1]) /\ (h[n + 1].fault = "none" => h[n + 1] = g[n + 1])
    OBVIOUS
  <2>1. n <= L /\ n + 1 \in 1 .. L /\ n + 1 - 1 = n
    BY <1>3
  <2>2. GoodClient(h[n]) /\ (h[n].fault = "none" => h[n] = g[n])
    BY <1>5, <2>1
  <2>3. h[n + 1] = Handled(h[n], Backlog[n + 1]) /\ g[n + 1] = Lives(g[n], Backlog[n + 1])
    BY <1>1, <1>2, <2>1
  <2>4. Backlog[n + 1] \in GoodMessage
    BY <1>3, <2>1
  <2>5. GoodClient(h[n + 1])
    BY <2>2, <2>3, <2>4, HandledOK
  <2>6. h[n + 1].fault = "none" => h[n].fault = "none"
    BY <2>2, <2>3, <2>4, HandledFault
  <2> QED BY <2>2, <2>3, <2>5, <2>6 DEF Lives
<1> HIDE DEF S
<1>6. L \in S
  BY <1>3, <1>4, <1>5, AllNumbers
<1> QED BY <1>1, <1>2, <1>3, <1>6 DEF S

-----------------------------------------------------------------------------
(* What the rules do not depend on, and what they cannot undo.             *)

\* Two players that differ in the actions they have left at most.
LikePlayer(a, b) ==
    /\ a.HP = b.HP /\ a.EquipedItemID = b.EquipedItemID /\ a.Inventory = b.Inventory
    /\ a.Coords = b.Coords /\ a.MaxTurns = b.MaxTurns

LikeWorld(w, v) ==
    /\ DOMAIN w.players = DOMAIN v.players
    /\ \A p \in DOMAIN w.players : LikePlayer(w.players[p], v.players[p])
    /\ w.enemies = v.enemies

\* No rule brings an enemy back, adds one or removes one.
DeadStay(w, v) ==
    /\ Len(v.enemies) = Len(w.enemies) /\ DOMAIN v.enemies = DOMAIN w.enemies
    /\ \A i \in DOMAIN w.enemies : ~Alive(w.enemies[i]) => ~Alive(v.enemies[i])

TurnsStay(w, v) ==
    \A p \in DOMAIN w.players : /\ v.players[p].CurrentTurns = w.players[p].CurrentTurns
                                /\ v.players[p].MaxTurns = w.players[p].MaxTurns

LEMMA EnemiesAre ==
    ASSUME NEW w, GoodWorld(w), NEW v, GoodWorld(v), DOMAIN v.enemies = DOMAIN w.enemies
    PROVE  /\ Len(v.enemies) = Len(w.enemies) /\ Len(w.enemies) \in Nat
           /\ DOMAIN w.enemies = 1 .. Len(w.enemies)
<1>1. /\ Len(w.enemies) \in Nat /\ DOMAIN w.enemies = 1 .. Len(w.enemies)
      /\ Len(v.enemies) \in Nat /\ DOMAIN v.enemies = 1 .. Len(v.enemies)
  BY DEF GoodWorld
<1> QED BY <1>1

LEMMA HurtIs ==
    ASSUME NEW w, GoodWorld(w), NEW target, NEW damage
    PROVE  /\ \A p \in DOMAIN w.players : Hurt(w, target, damage).players[p] =
                IF p \in target.playerIDs THEN TakeDamage(w.players[p], damage) ELSE w.players[p]
           /\ \A i \in DOMAIN w.enemies : Hurt(w, target, damage).enemies[i] =
                IF i \in target.EnemyIDs THEN TakeDamage(w.enemies[i], damage) ELSE w.enemies[i]
BY DEF Hurt

LEMMA HurtMore ==
    ASSUME NEW w, GoodWorld(w), NEW target, NEW damage \in Nat
    PROVE  DeadStay(w, Hurt(w, target, damage)) /\ TurnsStay(w, Hurt(w, target, damage))
<1> DEFINE v == Hurt(w, target, damage)
<1>1. GoodWorld(v) /\ DOMAIN v.enemies = DOMAIN w.enemies
  BY HurtOK
<1>2. /\ \A p \in DOMAIN w.players : v.players[p] =
            IF p \in target.playerIDs THEN TakeDamage(w.players[p], damage) ELSE w.players[p]
      /\ \A i \in DOMAIN w.enemies : v.enemies[i] =
            IF i \in target.EnemyIDs THEN TakeDamage(w.enemies[i], damage) ELSE w.enemies[i]
  BY HurtIs
<1> HIDE DEF v
<1>3. ASSUME NEW p \in DOMAIN w.players
      PROVE  /\ v.players[p].CurrentTurns = w.players[p].CurrentTurns
             /\ v.players[p].MaxTurns = w.players[p].MaxTurns
  <2>1. w.players[p] \in GoodPlayer
    BY DEF GoodWorld
  <2>2. /\ TakeDamage(w.players[p], damage).CurrentTurns = w.players[p].CurrentTurns
        /\ TakeDamage(w.players[p], damage).MaxTurns = w.players[p].MaxTurns
    BY <2>1 DEF TakeDamage, GoodPlayer, Player
  <2> QED BY <1>2, <2>2
<1>4. ASSUME NEW i \in DOMAIN w.enemies, ~Alive(w.enemies[i]) PROVE ~Alive(v.enemies[i])
  <2>1. w.enemies[i] \in GoodEnemy /\ w.enemies[i].HP = 0
    BY <1>4 DEF GoodWorld, Alive
  <2>2. TakeDamage(w.enemies[i], damage).HP = 0
    BY <2>1 DEF TakeDamage, GoodEnemy, Enemy
  <2> QED BY <1>2, <2>1, <2>2 DEF Alive
<1>5. Len(v.enemies) = Len(w.enemies)
  BY <1>1, EnemiesAre
<1>6. DeadStay(w, v)
  BY <1>1, <1>4, <1>5 DEF DeadStay
<1>7. TurnsStay(w, v)
  BY <1>3 DEF TurnsStay
<1> QED BY <1>6, <1>7 DEF v

LEMMA PlayerMakeAttackMore ==
    ASSUME NEW w, GoodWorld(w), NEW p \in DOMAIN w.players, NEW target
    PROVE  /\ DeadStay(w, PlayerMakeAttack(w, p, target))
           /\ TurnsStay(w, PlayerMakeAttack(w, p, target))
<1> DEFINE body == w.players[p]
           spent == [w EXCEPT !.players[p] = SpendArrow(body)]
<1>1. body \in GoodPlayer
  BY DEF GoodWorld
<1>2. /\ SpendArrow(body) \in GoodPlayer
      /\ SpendArrow(body).CurrentTurns = body.CurrentTurns
      /\ SpendArrow(body).MaxTurns = body.MaxTurns
  <2>1. SpendArrow(body) \in GoodPlayer
        /\ SpendArrow(body) = [body EXCEPT !.Inventory = SpendArrow(body).Inventory]
    BY <1>1, SpendPlayerOK
  <2> QED BY <1>1, <2>1 DEF GoodPlayer, Player
<1>3. AttackDamage(body) \in Nat
  BY <1>1, AttackDamageOK, SlotsOK DEF GoodPlayer, Player, Stock
<1>4. /\ GoodWorld(spent) /\ DOMAIN spent.players = DOMAIN w.players
      /\ \A q \in DOMAIN w.players :
            spent.players[q] = IF q = p THEN SpendArrow(body) ELSE w.players[q]
      /\ spent.enemies = w.enemies
  BY <1>2, PutPlayerOK
<1>5. CASE Weapon(body).empty
  <2>1. PlayerMakeAttack(w, p, target) = w
    BY <1>5 DEF PlayerMakeAttack
  <2> QED BY <2>1 DEF DeadStay, TurnsStay
<1>6. CASE ~Weapon(body).empty
  <2>1. PlayerMakeAttack(w, p, target) = Hurt(spent, target, AttackDamage(body))
    BY <1>6 DEF PlayerMakeAttack
  <2> HIDE DEF spent, body
  <2>2. /\ DeadStay(spent, Hurt(spent, target, AttackDamage(body)))
        /\ TurnsStay(spent, Hurt(spent, target, AttackDamage(body)))
    BY <1>3, <1>4, HurtMore
  <2>3. TurnsStay(w, spent)
    BY <1>2, <1>4 DEF TurnsStay, body
  <2> QED BY <1>4, <2>1, <2>2, <2>3 DEF DeadStay, TurnsStay
<1> QED BY <1>5, <1>6

LEMMA EnemyMakeAttackMore ==
    ASSUME NEW w, GoodWorld(w), NEW i \in DOMAIN w.enemies, NEW target
    PROVE  /\ DeadStay(w, EnemyMakeAttack(w, i, target))
           /\ TurnsStay(w, EnemyMakeAttack(w, i, target))
<1> DEFINE body == w.enemies[i]
           spent == [w EXCEPT !.enemies[i] = SpendArrow(body)]
<1>1. body \in GoodEnemy
  BY DEF GoodWorld
<1>2. SpendArrow(body) \in GoodEnemy /\ SpendArrow(body).HP = body.HP
  <2>1. SpendArrow(body).HP = body.HP
    BY <1>1 DEF SpendArrow, GoodEnemy, Enemy
  <2> QED BY <1>1, <2>1, SpendEnemyOK
<1>3. AttackDamage(body) \in Nat
  BY <1>1, AttackDamageOK DEF GoodEnemy, Stock
<1>4. /\ GoodWorld(spent) /\ spent.players = w.players
      /\ DOMAIN spent.enemies = DOMAIN w.enemies
  BY <1>2, PutEnemyOK
<1>5. \A j \in DOMAIN w.enemies :
        spent.enemies[j] = IF j = i THEN SpendArrow(body) ELSE w.enemies[j]
  BY DEF GoodWorld
<1>6. EnemyMakeAttack(w, i, target) = Hurt(spent, target, AttackDamage(body))
  BY <1>1 DEF EnemyMakeAttack, GoodEnemy
<1>7. DeadStay(w, spent)
  <2>1. Len(spent.enemies) = Len(w.enemies)
    BY <1>4, EnemiesAre
  <2>2. ASSUME NEW j \in DOMAIN w.enemies, ~Alive(w.enemies[j]) PROVE ~Alive(spent.enemies[j])
    BY <1>2, <1>5, <2>2 DEF Alive
  <2> QED BY <1>4, <2>1, <2>2 DEF DeadStay
<1> HIDE DEF spent, body
<1>8. /\ DeadStay(spent, Hurt(spent, target, AttackDamage(body)))
      /\ TurnsStay(spent, Hurt(spent, target, AttackDamage(body)))
  BY <1>3, <1>4, HurtMore
<1> QED BY <1>4, <1>6, <1>7, <1>8 DEF DeadStay, TurnsStay

\* An action is counted for the player that made it, and for nobody else.
LEMMA MakeApprovedActionMore ==
    ASSUME NEW w, GoodWorld(w), NEW a \in PlayerAction, a.PlayerID \in DOMAIN w.players
    PROVE  /\ DeadStay(w, MakeApprovedAction(w, a))
           /\ \A q \in DOMAIN w.players :
                /\ MakeApprovedAction(w, a).players[q].MaxTurns = w.players[q].MaxTurns
                /\ MakeApprovedAction(w, a).players[q].CurrentTurns =
                     IF q = a.PlayerID THEN (w.players[q].CurrentTurns - 1) % 16
                     ELSE w.players[q].CurrentTurns
<1> DEFINE p == a.PlayerID
           moved == Moved(w, a)
           fought == PlayerMakeAttack(moved, p, PlayerFindAttackTarget(moved, p, a.ActionInfo))
           counted == SetCurrentTurnActions(fought.players[p], fought.players[p].CurrentTurns - 1)
<1>1. /\ GoodWorld(moved) /\ DOMAIN moved.players = DOMAIN w.players
      /\ DeadStay(w, moved) /\ TurnsStay(w, moved)
  <2>1. CASE a.ActionType = "Move"
    <3> DEFINE body == w.players[p]
               there == Plus(body.Coords, a.ActionInfo)
               step == [body EXCEPT !.Coords = there]
    <3>1. body \in GoodPlayer /\ body.Coords \in Vec /\ a.ActionInfo \in Vec
      BY DEF GoodWorld, GoodPlayer, Player, PlayerAction
    <3>2. there \in Vec
      BY <3>1, VecOK
    <3>3. moved = [w EXCEPT !.players[p] = step]
      BY <2>1 DEF Moved, GoodWorld
    <3> HIDE DEF there, moved
    <3>4. /\ step \in GoodPlayer /\ step.CurrentTurns = body.CurrentTurns
          /\ step.MaxTurns = body.MaxTurns
      BY <3>1, <3>2 DEF GoodPlayer, Player
    <3> HIDE DEF step
    <3>5. /\ GoodWorld(moved) /\ DOMAIN moved.players = DOMAIN w.players
          /\ moved.enemies = w.enemies
          /\ \A q \in DOMAIN w.players : moved.players[q] = IF q = p THEN step ELSE w.players[q]
      BY <3>3, <3>4, PutPlayerOK
    <3> QED BY <3>4, <3>5 DEF DeadStay, TurnsStay
  <2>2. CASE a.ActionType # "Move"
    BY <2>2 DEF Moved, DeadStay, TurnsStay
  <2> QED BY <2>1, <2>2
<1>2. /\ GoodWorld(fought) /\ DOMAIN fought.players = DOMAIN w.players
      /\ DeadStay(w, fought) /\ TurnsStay(w, fought)
  <2> HIDE DEF moved
  <2>1. /\ GoodWorld(fought) /\ DOMAIN fought.players = DOMAIN moved.players
        /\ DeadStay(moved, fought) /\ TurnsStay(moved, fought)
    BY <1>1, PlayerMakeAttackOK, PlayerMakeAttackMore
  <2> QED BY <1>1, <2>1 DEF DeadStay, TurnsStay
<1>3. MakeApprovedAction(w, a) = [fought EXCEPT !.players[p] = counted]
  BY <1>2 DEF MakeApprovedAction, GoodWorld
<1> HIDE DEF fought, moved
<1>4. fought.players[p] \in GoodPlayer
  BY <1>2 DEF GoodWorld
<1>5. /\ counted \in GoodPlayer /\ counted.MaxTurns = fought.players[p].MaxTurns
      /\ counted.CurrentTurns = (fought.players[p].CurrentTurns - 1) % 16
  <2> DEFINE b == fought.players[p]
  <2>1. (b.CurrentTurns - 1) % 16 \in 0 .. 15
    BY <1>4 DEF GoodPlayer, Player
  <2> QED BY <1>4, <2>1 DEF SetCurrentTurnActions, GoodPlayer, Player
<1> HIDE DEF counted
<1>6. /\ MakeApprovedAction(w, a).enemies = fought.enemies
      /\ \A q \in DOMAIN w.players :
            MakeApprovedAction(w, a).players[q] = IF q = p THEN counted ELSE fought.players[q]
  BY <1>2, <1>3, <1>5, PutPlayerOK
<1>7. DeadStay(w, MakeApprovedAction(w, a))
  BY <1>2, <1>6 DEF DeadStay
<1> QED BY <1>2, <1>5, <1>6, <1>7 DEF TurnsStay

LEMMA MakeEnemyActionMore ==
    ASSUME NEW w, GoodWorld(w), NEW i \in DOMAIN w.enemies, NEW a \in EnemyAction
    PROVE  DeadStay(w, MakeEnemyAction(w, i, a)) /\ TurnsStay(w, MakeEnemyAction(w, i, a))
<1>1. CASE a.actionType = "EnemyMove"
  <2> DEFINE e == w.enemies[i]
             there == Plus(e.Coords, a.ActionInfo)
             step == [e EXCEPT !.Coords = there]
             put == [w.enemies EXCEPT ![i] = step]
  <2>1. e \in GoodEnemy
    BY DEF GoodWorld
  <2>2. step.HP = e.HP
    BY <2>1 DEF GoodEnemy, Enemy
  <2>3. MakeEnemyAction(w, i, a) = [players |-> w.players, enemies |-> put]
    BY <1>1 DEF MakeEnemyAction, GoodWorld
  <2> HIDE DEF step
  <2>4. /\ DOMAIN put = DOMAIN w.enemies /\ Len(put) = Len(w.enemies)
        /\ \A j \in DOMAIN w.enemies : put[j] = IF j = i THEN step ELSE w.enemies[j]
    BY DEF GoodWorld
  <2> HIDE DEF put
  <2> QED BY <2>2, <2>3, <2>4 DEF DeadStay, TurnsStay, Alive
<1>2. CASE a.actionType # "EnemyMove"
  BY <1>2, EnemyMakeAttackMore DEF MakeEnemyAction
<1> QED BY <1>1, <1>2

LEMMA FullTurnMore ==
    ASSUME NEW w, GoodWorld(w), NEW p
    PROVE  \A q \in DOMAIN w.players :
             /\ LikePlayer(FullTurn(w, p).players[q], w.players[q])
             /\ FullTurn(w, p).players[q].CurrentTurns =
                  IF q = p THEN w.players[q].MaxTurns % 16 ELSE w.players[q].CurrentTurns
<1>1. CASE p \in DOMAIN w.players
  <2> DEFINE b == w.players[p]
             full == SetCurrentTurnActions(b, b.MaxTurns)
  <2>1. b \in GoodPlayer
    BY <1>1 DEF GoodWorld
  <2>2. b.MaxTurns % 16 \in 0 .. 15
    BY <2>1 DEF GoodPlayer, Player
  <2>3. full \in GoodPlayer /\ LikePlayer(full, b) /\ full.CurrentTurns = b.MaxTurns % 16
    BY <2>1, <2>2 DEF SetCurrentTurnActions, GoodPlayer, Player, LikePlayer
  <2>4. FullTurn(w, p) = [w EXCEPT !.players[p] = full]
    BY <1>1 DEF FullTurn, GoodWorld
  <2> HIDE DEF full
  <2>5. \A q \in DOMAIN w.players :
            FullTurn(w, p).players[q] = IF q = p THEN full ELSE w.players[q]
    BY <1>1, <2>3, <2>4, PutPlayerOK
  <2> QED BY <2>3, <2>5 DEF LikePlayer
<1>2. CASE p \notin DOMAIN w.players
  <2>1. FullTurn(w, p).players = w.players
    BY <1>2 DEF FullTurn, GoodWorld
  <2> QED BY <1>2, <2>1 DEF LikePlayer
<1> QED BY <1>1, <1>2

-----------------------------------------------------------------------------
(* The rules do the same to two worlds that are alike.                     *)

LEMMA LikeBody ==
    ASSUME NEW a \in GoodPlayer, NEW b \in GoodPlayer, LikePlayer(a, b)
    PROVE  /\ Weapon(a) = Weapon(b) /\ AttackDamage(a) = AttackDamage(b)
           /\ LikePlayer(SpendArrow(a), SpendArrow(b))
<1>1. a.Inventory = b.Inventory /\ a.EquipedItemID = b.EquipedItemID
  BY DEF LikePlayer
<1>2. Weapon(a) = Weapon(b) /\ Arrow(a) = Arrow(b)
  BY <1>1 DEF Weapon, Arrow
<1>3. AttackDamage(a) = AttackDamage(b)
  BY <1>1, <1>2 DEF AttackDamage
<1>4. Shoots(a) = Shoots(b)
  BY <1>2 DEF Shoots
<1>5. SpendArrow(a).Inventory = SpendArrow(b).Inventory
  <2>1. CASE ~Shoots(a)
    BY <1>1, <1>4, <2>1 DEF SpendArrow
  <2>2. CASE Shoots(a)
    <3>1. SpendArrow(a).Inventory = [a.Inventory EXCEPT ![Arrow(a)] = OneLess(@)]
      BY <2>2 DEF SpendArrow, GoodPlayer, Player
    <3>2. SpendArrow(b).Inventory = [b.Inventory EXCEPT ![Arrow(b)] = OneLess(@)]
      BY <1>4, <2>2 DEF SpendArrow, GoodPlayer, Player
    <3> QED BY <1>1, <1>2, <3>1, <3>2
  <2> QED BY <2>1, <2>2
<1>6. /\ SpendArrow(a) = [a EXCEPT !.Inventory = SpendArrow(a).Inventory]
      /\ SpendArrow(b) = [b EXCEPT !.Inventory = SpendArrow(b).Inventory]
  BY SpendPlayerOK
<1>7. LikePlayer(SpendArrow(a), SpendArrow(b))
  BY <1>5, <1>6 DEF LikePlayer, GoodPlayer, Player
<1> QED BY <1>2, <1>3, <1>7

LEMMA HurtLike ==
    ASSUME NEW w, GoodWorld(w), NEW v, GoodWorld(v), LikeWorld(w, v),
           NEW target, NEW damage \in Nat
    PROVE  LikeWorld(Hurt(w, target, damage), Hurt(v, target, damage))
<1> DEFINE x == Hurt(w, target, damage)
           y == Hurt(v, target, damage)
<1>1. DOMAIN x.players = DOMAIN w.players /\ DOMAIN y.players = DOMAIN v.players
  BY HurtOK
<1>2. x.enemies = y.enemies
  BY DEF LikeWorld, Hurt
<1>3. ASSUME NEW p \in DOMAIN w.players
      PROVE  LikePlayer(x.players[p], y.players[p])
  <2>1. /\ w.players[p] \in GoodPlayer /\ v.players[p] \in GoodPlayer
        /\ LikePlayer(w.players[p], v.players[p]) /\ p \in DOMAIN v.players
    BY DEF GoodWorld, LikeWorld
  <2>2. LikePlayer(TakeDamage(w.players[p], damage), TakeDamage(v.players[p], damage))
    BY <2>1 DEF TakeDamage, LikePlayer, GoodPlayer, Player
  <2>3. x.players[p] = IF p \in target.playerIDs THEN TakeDamage(w.players[p], damage)
                       ELSE w.players[p]
    BY HurtIs
  <2>4. y.players[p] = IF p \in target.playerIDs THEN TakeDamage(v.players[p], damage)
                       ELSE v.players[p]
    BY <2>1, HurtIs
  <2> HIDE DEF x, y
  <2> QED BY <2>1, <2>2, <2>3, <2>4
<1> HIDE DEF x, y
<1>4. LikeWorld(x, y)
  BY <1>1, <1>2, <1>3 DEF LikeWorld
<1> QED BY <1>4 DEF x, y

\* The same player takes the place of the one it is like.
LEMMA PutPlayerLike ==
    ASSUME NEW w, GoodWorld(w), NEW v, GoodWorld(v), LikeWorld(w, v), NEW p \in DOMAIN w.players,
           NEW a \in GoodPlayer, NEW b \in GoodPlayer, LikePlayer(a, b)
    PROVE  LikeWorld([w EXCEPT !.players[p] = a], [v EXCEPT !.players[p] = b])
<1> DEFINE x == [w EXCEPT !.players[p] = a]
           y == [v EXCEPT !.players[p] = b]
<1>1. p \in DOMAIN v.players
  BY DEF LikeWorld
<1>2. /\ DOMAIN x.players = DOMAIN w.players /\ x.enemies = w.enemies
      /\ \A q \in DOMAIN w.players : x.players[q] = IF q = p THEN a ELSE w.players[q]
  BY PutPlayerOK
<1>3. /\ DOMAIN y.players = DOMAIN v.players /\ y.enemies = v.enemies
      /\ \A q \in DOMAIN v.players : y.players[q] = IF q = p THEN b ELSE v.players[q]
  BY <1>1, PutPlayerOK
<1> HIDE DEF x, y
<1>4. LikeWorld(x, y)
  BY <1>2, <1>3 DEF LikeWorld
<1> QED BY <1>4 DEF x, y

LEMMA PlayerMakeAttackLike ==
    ASSUME NEW w, GoodWorld(w), NEW v, GoodWorld(v), LikeWorld(w, v),
           NEW p \in DOMAIN w.players, NEW target
    PROVE  LikeWorld(PlayerMakeAttack(w, p, target), PlayerMakeAttack(v, p, target))
<1> DEFINE a == w.players[p]
           b == v.players[p]
           x == [w EXCEPT !.players[p] = SpendArrow(a)]
           y == [v EXCEPT !.players[p] = SpendArrow(b)]
<1>1. a \in GoodPlayer /\ b \in GoodPlayer /\ LikePlayer(a, b) /\ p \in DOMAIN v.players
  BY DEF GoodWorld, LikeWorld
<1>2. /\ Weapon(a) = Weapon(b) /\ AttackDamage(a) = AttackDamage(b)
      /\ LikePlayer(SpendArrow(a), SpendArrow(b))
  BY <1>1, LikeBody
<1>3. SpendArrow(a) \in GoodPlayer /\ SpendArrow(b) \in GoodPlayer
  BY <1>1, SpendPlayerOK
<1>4. GoodWorld(x) /\ GoodWorld(y) /\ LikeWorld(x, y)
  BY <1>1, <1>2, <1>3, PutPlayerOK, PutPlayerLike
<1>5. AttackDamage(a) \in Nat
  BY <1>1, AttackDamageOK, SlotsOK DEF GoodPlayer, Player, Stock
<1>6. /\ PlayerMakeAttack(w, p, target) = IF Weapon(a).empty THEN w
                                          ELSE Hurt(x, target, AttackDamage(a))
      /\ PlayerMakeAttack(v, p, target) = IF Weapon(b).empty THEN v
                                          ELSE Hurt(y, target, AttackDamage(b))
  BY DEF PlayerMakeAttack
<1> HIDE DEF x, y, a, b
<1>7. LikeWorld(Hurt(x, target, AttackDamage(a)), Hurt(y, target, AttackDamage(a)))
  BY <1>4, <1>5, HurtLike
<1> QED BY <1>2, <1>6, <1>7

LEMMA EnemyMakeAttackLike ==
    ASSUME NEW w, GoodWorld(w), NEW v, GoodWorld(v), LikeWorld(w, v),
           NEW i \in DOMAIN w.enemies, NEW target
    PROVE  LikeWorld(EnemyMakeAttack(w, i, target), EnemyMakeAttack(v, i, target))
<1> DEFINE e == w.enemies[i]
           x == [w EXCEPT !.enemies[i] = SpendArrow(e)]
           y == [v EXCEPT !.enemies[i] = SpendArrow(e)]
<1>1. e \in GoodEnemy /\ e = v.enemies[i] /\ i \in DOMAIN v.enemies
  BY DEF GoodWorld, LikeWorld
<1>2. SpendArrow(e) \in GoodEnemy
  BY <1>1, SpendEnemyOK
<1>3. AttackDamage(e) \in Nat
  BY <1>1, AttackDamageOK DEF GoodEnemy, Stock
<1>4. /\ GoodWorld(x) /\ x.players = w.players
      /\ GoodWorld(y) /\ y.players = v.players
  BY <1>1, <1>2, PutEnemyOK
<1>5. x.enemies = y.enemies
  BY DEF GoodWorld, LikeWorld
<1>6. EnemyMakeAttack(w, i, target) = Hurt(x, target, AttackDamage(e))
  BY <1>1 DEF EnemyMakeAttack, GoodEnemy
<1>7. EnemyMakeAttack(v, i, target) = Hurt(y, target, AttackDamage(e))
  BY <1>1 DEF EnemyMakeAttack, GoodEnemy
<1> HIDE DEF x, y, e
<1>8. LikeWorld(x, y)
  BY <1>4, <1>5 DEF LikeWorld
<1> QED BY <1>3, <1>4, <1>6, <1>7, <1>8, HurtLike

LEMMA MovedLike ==
    ASSUME NEW w, GoodWorld(w), NEW v, GoodWorld(v), LikeWorld(w, v), NEW a \in PlayerAction,
           a.PlayerID \in DOMAIN w.players
    PROVE  /\ GoodWorld(Moved(w, a)) /\ DOMAIN Moved(w, a).players = DOMAIN w.players
           /\ GoodWorld(Moved(v, a)) /\ LikeWorld(Moved(w, a), Moved(v, a))
<1>1. CASE a.ActionType = "Move"
  <2> DEFINE p == a.PlayerID
             b == w.players[p]
             c == v.players[p]
             there == Plus(b.Coords, a.ActionInfo)
             x == [b EXCEPT !.Coords = there]
             y == [c EXCEPT !.Coords = there]
  <2>1. /\ b \in GoodPlayer /\ c \in GoodPlayer /\ LikePlayer(b, c) /\ p \in DOMAIN v.players
        /\ b.Coords = c.Coords /\ b.Coords \in Vec /\ a.ActionInfo \in Vec
    BY DEF GoodWorld, LikeWorld, LikePlayer, GoodPlayer, Player, PlayerAction
  <2>2. there \in Vec
    BY <2>1, VecOK
  <2>3. Moved(w, a) = [w EXCEPT !.players[p] = x]
    BY <1>1 DEF Moved, GoodWorld
  <2>4. Moved(v, a) = [v EXCEPT !.players[p] = y]
    BY <1>1, <2>1 DEF Moved, GoodWorld
  <2> HIDE DEF there
  <2>5. x \in GoodPlayer /\ y \in GoodPlayer
    BY <2>1, <2>2 DEF GoodPlayer, Player
  <2>6. LikePlayer(x, y)
    BY <2>1, <2>2 DEF LikePlayer, GoodPlayer, Player
  <2> HIDE DEF x, y, b, c
  <2>7. GoodWorld(Moved(w, a)) /\ DOMAIN Moved(w, a).players = DOMAIN w.players
    BY <2>3, <2>5, PutPlayerOK
  <2>8. GoodWorld(Moved(v, a))
    BY <2>1, <2>4, <2>5, PutPlayerOK
  <2>9. LikeWorld(Moved(w, a), Moved(v, a))
    <3>1. LikeWorld([w EXCEPT !.players[p] = x], [v EXCEPT !.players[p] = y])
      BY <2>5, <2>6, PutPlayerLike
    <3> QED BY <2>3, <2>4, <3>1
  <2> QED BY <2>7, <2>8, <2>9
<1>2. CASE a.ActionType # "Move"
  BY <1>2 DEF Moved
<1> QED BY <1>1, <1>2

LEMMA MakeApprovedActionLike ==
    ASSUME NEW w, GoodWorld(w), NEW v, GoodWorld(v), LikeWorld(w, v), NEW a \in PlayerAction,
           a.PlayerID \in DOMAIN w.players
    PROVE  LikeWorld(MakeApprovedAction(w, a), MakeApprovedAction(v, a))
<1> DEFINE p == a.PlayerID
           x == Moved(w, a)
           y == Moved(v, a)
           s == PlayerFindAttackTarget(x, p, a.ActionInfo)
           t == PlayerFindAttackTarget(y, p, a.ActionInfo)
           f == PlayerMakeAttack(x, p, s)
           g == PlayerMakeAttack(y, p, t)
           m == SetCurrentTurnActions(f.players[p], f.players[p].CurrentTurns - 1)
           n == SetCurrentTurnActions(g.players[p], g.players[p].CurrentTurns - 1)
<1>1. /\ GoodWorld(x) /\ GoodWorld(y) /\ LikeWorld(x, y)
      /\ DOMAIN x.players = DOMAIN w.players /\ DOMAIN y.players = DOMAIN w.players
  <2>1. GoodWorld(x) /\ GoodWorld(y) /\ LikeWorld(x, y) /\ DOMAIN x.players = DOMAIN w.players
    BY MovedLike
  <2> QED BY <2>1 DEF LikeWorld
<1> HIDE DEF x, y
<1>2. s = t
  <2>1. /\ DOMAIN x.players = DOMAIN y.players /\ x.enemies = y.enemies
        /\ \A q \in DOMAIN x.players : x.players[q].Coords = y.players[q].Coords
    BY <1>1 DEF LikeWorld, LikePlayer
  <2> QED BY <1>1, <2>1 DEF PlayerFindAttackTarget
<1> HIDE DEF s, t
<1>3. /\ GoodWorld(f) /\ GoodWorld(g) /\ LikeWorld(f, g)
      /\ DOMAIN f.players = DOMAIN w.players /\ DOMAIN g.players = DOMAIN w.players
  BY <1>1, <1>2, PlayerMakeAttackOK, PlayerMakeAttackLike
<1>4. MakeApprovedAction(w, a) = [f EXCEPT !.players[p] = m]
  BY <1>3 DEF MakeApprovedAction, GoodWorld, x, s
<1>5. MakeApprovedAction(v, a) = [g EXCEPT !.players[p] = n]
  BY <1>3 DEF MakeApprovedAction, GoodWorld, y, t
<1> HIDE DEF f, g
<1>6. /\ f.players[p] \in GoodPlayer /\ g.players[p] \in GoodPlayer
      /\ LikePlayer(f.players[p], g.players[p])
  BY <1>3 DEF GoodWorld, LikeWorld
<1>7. \A b \in GoodPlayer : (b.CurrentTurns - 1) % 16 \in 0 .. 15
  BY DEF GoodPlayer, Player
<1>8. m \in GoodPlayer /\ n \in GoodPlayer
  BY <1>6, <1>7 DEF SetCurrentTurnActions, GoodPlayer, Player
<1>9. LikePlayer(m, n)
  BY <1>6 DEF SetCurrentTurnActions, GoodPlayer, Player, LikePlayer
<1> HIDE DEF m, n
<1> QED BY <1>3, <1>4, <1>5, <1>8, <1>9, PutPlayerLike

LEMMA MakeEnemyActionLike ==
    ASSUME NEW w, GoodWorld(w), NEW v, GoodWorld(v), LikeWorld(w, v),
           NEW i \in DOMAIN w.enemies, NEW a \in EnemyAction
    PROVE  LikeWorld(MakeEnemyAction(w, i, a), MakeEnemyAction(v, i, a))
<1>1. CASE a.actionType = "EnemyMove"
  <2> DEFINE put == [w.enemies EXCEPT ![i].Coords = Plus(@, a.ActionInfo)]
  <2>1. MakeEnemyAction(w, i, a) = [players |-> w.players, enemies |-> put]
    BY <1>1 DEF MakeEnemyAction, GoodWorld
  <2>2. MakeEnemyAction(v, i, a) = [players |-> v.players, enemies |-> put]
    BY <1>1 DEF MakeEnemyAction, GoodWorld, LikeWorld
  <2> HIDE DEF put
  <2> QED BY <2>1, <2>2 DEF LikeWorld
<1>2. CASE a.actionType # "EnemyMove"
  <2> DEFINE s == EnemyFindAttackTarget(w, i, a.ActionInfo)
             t == EnemyFindAttackTarget(v, i, a.ActionInfo)
  <2>1. /\ DOMAIN w.players = DOMAIN v.players /\ w.enemies = v.enemies
        /\ \A q \in DOMAIN w.players : w.players[q].Coords = v.players[q].Coords
    BY DEF LikeWorld, LikePlayer
  <2>2. s = t
    BY <2>1 DEF EnemyFindAttackTarget
  <2>3. MakeEnemyAction(w, i, a) = EnemyMakeAttack(w, i, s)
    BY <1>2 DEF MakeEnemyAction
  <2>4. MakeEnemyAction(v, i, a) = EnemyMakeAttack(v, i, t)
    BY <1>2 DEF MakeEnemyAction
  <2> HIDE DEF s, t
  <2> QED BY <2>2, <2>3, <2>4, EnemyMakeAttackLike
<1> QED BY <1>1, <1>2

LEMMA AssignLike ==
    ASSUME NEW w, GoodWorld(w), NEW v, GoodWorld(v), LikeWorld(w, v), NEW p \in Players,
           NEW player \in GoodPlayer
    PROVE  LikeWorld(Assign(w, p, player), Assign(v, p, player))
<1> DEFINE x == Assign(w, p, player)
           y == Assign(v, p, player)
<1>1. /\ DOMAIN x.players = DOMAIN w.players \cup {p} /\ x.enemies = w.enemies
      /\ \A q \in DOMAIN w.players \cup {p} :
            x.players[q] = IF q = p THEN player ELSE w.players[q]
  BY AssignOK
<1>2. /\ DOMAIN y.players = DOMAIN v.players \cup {p} /\ y.enemies = v.enemies
      /\ \A q \in DOMAIN v.players \cup {p} :
            y.players[q] = IF q = p THEN player ELSE v.players[q]
  BY AssignOK
<1> HIDE DEF x, y
<1>3. LikeWorld(x, y)
  BY <1>1, <1>2 DEF LikeWorld, LikePlayer
<1> QED BY <1>3 DEF x, y

\* Whose turn begins makes no difference to that.
LEMMA FullTurnLike ==
    ASSUME NEW w, GoodWorld(w), NEW v, GoodWorld(v), LikeWorld(w, v), NEW p, NEW q
    PROVE  /\ LikeWorld(FullTurn(w, p), v) /\ LikeWorld(w, FullTurn(v, q))
           /\ LikeWorld(FullTurn(w, p), FullTurn(v, q))
<1> DEFINE x == FullTurn(w, p)
           y == FullTurn(v, q)
<1>1. /\ DOMAIN x.players = DOMAIN w.players /\ x.enemies = w.enemies
      /\ \A r \in DOMAIN w.players : LikePlayer(x.players[r], w.players[r])
  BY FullTurnOK, FullTurnMore
<1>2. /\ DOMAIN y.players = DOMAIN v.players /\ y.enemies = v.enemies
      /\ \A r \in DOMAIN v.players : LikePlayer(y.players[r], v.players[r])
  BY FullTurnOK, FullTurnMore
<1> HIDE DEF x, y
<1>3. LikeWorld(x, v) /\ LikeWorld(w, y) /\ LikeWorld(x, y)
  BY <1>1, <1>2 DEF LikeWorld, LikePlayer
<1> QED BY <1>3 DEF x, y

-----------------------------------------------------------------------------
(* Lists in order.                                                         *)

\* Every element of the set is in the list.
LEMMA InOrderAll ==
    ASSUME NEW S \in SUBSET Nat, IsFiniteSet(S), NEW f \in InOrder(S)
    PROVE  S = {f[k] : k \in DOMAIN f}
<1> DEFINE n == Cardinality(S)
<1>1. n \in Nat
  BY FS_CardinalityType
<1>2. f \in [1 .. n -> S] /\ \A i, j \in 1 .. n : i < j => f[i] < f[j]
  BY DEF InOrder
<1>3. IsFiniteSet(1 .. n) /\ Cardinality(1 .. n) = n
  <2>1. 1 \in Int /\ n \in Int
    BY <1>1
  <2>2. IsFiniteSet(1 .. n) /\ Cardinality(1 .. n) = IF 1 > n THEN 0 ELSE n - 1 + 1
    BY <2>1, FS_Interval
  <2> QED BY <1>1, <2>2
<1> HIDE DEF n
<1>4. f \in Injection(1 .. n, S)
  <2>1. ASSUME NEW i \in 1 .. n, NEW j \in 1 .. n, f[i] = f[j] PROVE i = j
    <3>1. f[i] \in Nat /\ f[j] \in Nat
      BY <1>2
    <3>2. CASE i < j
      BY <1>2, <2>1, <3>1, <3>2
    <3>3. CASE j < i
      BY <1>2, <2>1, <3>1, <3>3
    <3> QED BY <1>1, <3>2, <3>3
  <2> QED BY <1>2, <2>1 DEF Injection, IsInjective
<1>5. f \in Surjection(1 .. n, S)
  BY <1>3, <1>4, FS_Injection DEF n
<1> QED BY <1>2, <1>5 DEF Surjection

\* All numbers up to n in order.
LEMMA InOrderOne ==
    ASSUME NEW n \in Nat, NEW f \in InOrder(1 .. n)
    PROVE  f = [k \in 1 .. n |-> k]
<1>1. Cardinality(1 .. n) = n
  <2>1. 1 \in Int /\ n \in Int
    OBVIOUS
  <2>2. Cardinality(1 .. n) = IF 1 > n THEN 0 ELSE n - 1 + 1
    BY <2>1, FS_Interval
  <2> QED BY <2>2
<1>2. f \in [1 .. n -> 1 .. n] /\ \A i, j \in 1 .. n : i < j => f[i] < f[j]
  BY <1>1 DEF InOrder
<1>3. \A k \in 1 .. n : f[k] >= k
  <2> DEFINE S == {k \in Nat : k \in 1 .. n => f[k] >= k}
  <2>1. 0 \in S
    OBVIOUS
  <2>2. ASSUME NEW k \in Nat, k \in S PROVE k + 1 \in S
    <3> SUFFICES ASSUME k + 1 \in 1 .. n PROVE f[k + 1] >= k + 1
      OBVIOUS
    <3>1. CASE k = 0
      BY <1>2, <3>1
    <3>2. CASE k # 0
      <4>1. k \in 1 .. n /\ k < k + 1 /\ f[k] >= k
        BY <2>2, <3>2
      <4>2. f[k] < f[k + 1] /\ f[k] \in Nat /\ f[k + 1] \in Nat
        BY <1>2, <4>1
      <4> QED BY <4>1, <4>2
    <3> QED BY <3>1, <3>2
  <2> HIDE DEF S
  <2>3. Nat \subseteq S
    BY <2>1, <2>2, AllNumbers
  <2> QED BY <2>3 DEF S
<1>4. \A k \in 1 .. n : f[k] <= k
  <2> DEFINE S == {k \in Nat : n - k \in 1 .. n => f[n - k] <= n - k}
  <2>1. 0 \in S
    BY <1>2
  <2>2. ASSUME NEW k \in Nat, k \in S PROVE k + 1 \in S
    <3> DEFINE j == n - (k + 1)
    <3> SUFFICES ASSUME j \in 1 .. n PROVE f[j] <= j
      OBVIOUS
    <3>1. n - k = j + 1 /\ j + 1 \in 1 .. n /\ j < j + 1
      OBVIOUS
    <3>2. f[j + 1] <= j + 1
      BY <2>2, <3>1
    <3>3. f[j] < f[j + 1] /\ f[j] \in Nat /\ f[j + 1] \in Nat
      BY <1>2, <3>1
    <3> QED BY <3>2, <3>3
  <2> HIDE DEF S
  <2>3. Nat \subseteq S
    BY <2>1, <2>2, AllNumbers
  <2>4. ASSUME NEW k \in 1 .. n PROVE f[k] <= k
    <3>1. n - k \in Nat /\ n - (n - k) = k
      OBVIOUS
    <3> QED BY <2>3, <3>1 DEF S
  <2> QED BY <2>4
<1>5. \A k \in 1 .. n : f[k] = k
  <2> TAKE k \in 1 .. n
  <2>1. f[k] \in Nat /\ f[k] >= k /\ f[k] <= k
    BY <1>2, <1>3, <1>4
  <2> QED BY <2>1
<1> QED BY <1>2, <1>5

-----------------------------------------------------------------------------
(* A welcome makes the copy what the world is.                             *)

Copy(w, id) == [world |-> w, PlayerID |-> id, fault |-> "none"]

LEMMA CopyIs ==
    ASSUME NEW c, GoodClient(c), c.fault = "none"
    PROVE  c = Copy(c.world, c.PlayerID)
BY DEF GoodClient, Copy

LEMMA LivesWelcome ==
    ASSUME NEW w, NEW id
    PROVE  /\ \A q, b : Lives(Copy(w, id), PlayerMsg("ClientRegisterFromServer", q, b))
                            = Copy(Assign(w, q, b), q)
           /\ \A q, b : Lives(Copy(w, id), PlayerMsg("ClientAddPlayer", q, b))
                            = Copy(Assign(w, q, b), id)
<1>1. ASSUME NEW q, NEW b
      PROVE  Lives(Copy(w, id), PlayerMsg("ClientRegisterFromServer", q, b))
                = Copy(Assign(w, q, b), q)
  <2> DEFINE m == PlayerMsg("ClientRegisterFromServer", q, b)
             c == Copy(w, id)
  <2>1. m.id = "ClientRegisterFromServer" /\ m.body.ID = q /\ m.body.Player = b
    BY DEF PlayerMsg, Msg
  <2>2. c = [world |-> w, PlayerID |-> id, fault |-> "none"] /\ c.fault = "none"
    BY DEF Copy
  <2> HIDE DEF m, c
  <2>3. Lives(c, m) = [c EXCEPT !.PlayerID = q, !.world = Assign(@, q, b)]
    BY <2>1, <2>2 DEF Lives, Handled
  <2> QED BY <2>2, <2>3 DEF Copy, m, c
<1>2. ASSUME NEW q, NEW b
      PROVE  Lives(Copy(w, id), PlayerMsg("ClientAddPlayer", q, b)) = Copy(Assign(w, q, b), id)
  <2> DEFINE m == PlayerMsg("ClientAddPlayer", q, b)
             c == Copy(w, id)
  <2>1. m.id = "ClientAddPlayer" /\ m.body.ID = q /\ m.body.Player = b
    BY DEF PlayerMsg, Msg
  <2>2. c = [world |-> w, PlayerID |-> id, fault |-> "none"] /\ c.fault = "none"
    BY DEF Copy
  <2> HIDE DEF m, c
  <2>3. Lives(c, m) = [c EXCEPT !.world = Assign(@, q, b)]
    BY <2>1, <2>2 DEF Lives, Handled
  <2> QED BY <2>2, <2>3 DEF Copy, m, c
<1> QED BY <1>1, <1>2

LEMMA LivesTurns ==
    ASSUME NEW w, NEW id
    PROVE  /\ Lives(Copy(w, id), Msg("GamePlayerTurn", NoPlayer)) = Copy(FullTurn(w, id), id)
           /\ \A q : q = id \/ q \in DOMAIN w.players =>
                Lives(Copy(w, id), Msg("GameNextPlayerTurn", q)) = Copy(w, id)
<1>1. Lives(Copy(w, id), Msg("GamePlayerTurn", NoPlayer)) = Copy(FullTurn(w, id), id)
  BY DEF Lives, Handled, Copy, Msg
<1>2. ASSUME NEW q, q = id \/ q \in DOMAIN w.players
      PROVE  Lives(Copy(w, id), Msg("GameNextPlayerTurn", q)) = Copy(w, id)
  BY <1>2 DEF Lives, Handled, Copy, Msg, Known
<1> QED BY <1>1, <1>2

LEMMA LivesActions ==
    ASSUME NEW w, NEW id
    PROVE  /\ \A a : a.PlayerID \in DOMAIN w.players =>
                \/ /\ Lives(Copy(w, id), Msg("GamePlayerActionValidated", a)).fault = "assert"
                   /\ w.players[a.PlayerID].CurrentTurns = 0
                \/ Lives(Copy(w, id), Msg("GamePlayerActionValidated", a))
                    = Copy(MakeApprovedAction(w, a), id)
           /\ \A a : a.EnemyID + 1 \in DOMAIN w.enemies =>
                Lives(Copy(w, id), Msg("GameAITurnAction", a))
                    = Copy(MakeEnemyAction(w, a.EnemyID + 1, a), id)
<1> DEFINE c == Copy(w, id)
<1>1. c = [world |-> w, PlayerID |-> id, fault |-> "none"] /\ c.fault = "none" /\ c.world = w
  BY DEF Copy
<1> HIDE DEF c
<1>2. ASSUME NEW a, a.PlayerID \in DOMAIN w.players
      PROVE  \/ /\ Lives(c, Msg("GamePlayerActionValidated", a)).fault = "assert"
                /\ w.players[a.PlayerID].CurrentTurns = 0
             \/ Lives(c, Msg("GamePlayerActionValidated", a)) = Copy(MakeApprovedAction(w, a), id)
  <2> DEFINE m == Msg("GamePlayerActionValidated", a)
             empty == w.players[a.PlayerID].CurrentTurns = 0
             x == MakeApprovedAction(w, a)
  <2>1. m.id = "GamePlayerActionValidated" /\ m.body = a
    BY DEF Msg
  <2> HIDE DEF m
  <2>2. Lives(c, m) = [c EXCEPT !.world = x, !.fault = IF empty THEN "assert" ELSE "none"]
    BY <1>1, <1>2, <2>1 DEF Lives, Handled, Known
  <2> HIDE DEF x, empty
  <2>3. Lives(c, m) = [world |-> x, PlayerID |-> id,
                       fault |-> IF empty THEN "assert" ELSE "none"]
    BY <1>1, <2>2
  <2>4. empty \/ Lives(c, m) = Copy(x, id)
    BY <2>3 DEF Copy
  <2>5. empty => Lives(c, m).fault = "assert"
    BY <2>3
  <2> QED BY <2>4, <2>5 DEF empty, m, x
<1>3. ASSUME NEW a, a.EnemyID + 1 \in DOMAIN w.enemies
      PROVE  Lives(c, Msg("GameAITurnAction", a))
                = Copy(MakeEnemyAction(w, a.EnemyID + 1, a), id)
  <2> DEFINE m == Msg("GameAITurnAction", a)
             x == MakeEnemyAction(w, a.EnemyID + 1, a)
  <2>1. m.id = "GameAITurnAction" /\ m.body = a
    BY DEF Msg
  <2> HIDE DEF m
  <2>2. Lives(c, m) = [c EXCEPT !.world = x]
    BY <1>1, <1>3, <2>1 DEF Lives, Handled
  <2> HIDE DEF x
  <2>3. Lives(c, m) = Copy(x, id)
    BY <1>1, <2>2 DEF Copy
  <2> QED BY <2>3 DEF m, x
<1> QED BY <1>2, <1>3 DEF c

LEMMA LivesEnemy ==
    ASSUME NEW P, NEW es, NEW id, NEW e
    PROVE  Lives(Copy([players |-> P, enemies |-> es], id), Msg("ClientInitEnemy", e))
                = Copy([players |-> P, enemies |-> Append(es, e)], id)
<1> DEFINE more == Append(es, e)
           w == [players |-> P, enemies |-> es]
           m == Msg("ClientInitEnemy", e)
           c == Copy(w, id)
<1>1. m.id = "ClientInitEnemy" /\ m.body = e
  BY DEF Msg
<1>2. c = [world |-> w, PlayerID |-> id, fault |-> "none"] /\ c.fault = "none"
  BY DEF Copy
<1>3. c.world.enemies = es
  BY <1>2
<1> HIDE DEF m, c
<1>4. Lives(c, m) = [c EXCEPT !.world.enemies = Append(@, e)]
  BY <1>1, <1>2 DEF Lives, Handled
<1>5. [c EXCEPT !.world.enemies = Append(@, e)] = [c EXCEPT !.world.enemies = more]
  BY <1>2, <1>3
<1> HIDE DEF more
<1>6. [c EXCEPT !.world.enemies = more] = Copy([players |-> P, enemies |-> more], id)
  BY <1>2 DEF Copy
<1> QED BY <1>4, <1>5, <1>6 DEF m, c, more

LEMMA WelcomeEnemies ==
    ASSUME NEW es \in Seq(GoodEnemy), NEW P, NEW id
    PROVE  Becomes(Copy([players |-> P, enemies |-> <<>>], id),
                   [i \in DOMAIN es |-> Msg("ClientInitEnemy", es[i])],
                   Copy([players |-> P, enemies |-> es], id))
<1> DEFINE n == Len(es)
           ms == [i \in DOMAIN es |-> Msg("ClientInitEnemy", es[i])]
           E(k) == [i \in 1 .. k |-> es[i]]
           C(k) == Copy([players |-> P, enemies |-> E(k)], id)
           g == [k \in 0 .. n |-> C(k)]
<1>1. n \in Nat /\ DOMAIN es = 1 .. n /\ DOMAIN ms = 1 .. n
  OBVIOUS
<1>2. Len(ms) = n
  BY <1>1
<1>3. E(0) = <<>> /\ E(n) = es
  BY <1>1
<1>4. ASSUME NEW k \in 1 .. n PROVE g[k] = Lives(g[k - 1], ms[k])
  <2>1. E(k) = Append(E(k - 1), es[k])
    <3>1. k - 1 \in Nat /\ \A i \in 1 .. k : es[i] \in GoodEnemy
      BY <1>1
    <3>2. E(k - 1) \in Seq(GoodEnemy) /\ Len(E(k - 1)) = k - 1
      <4>1. E(k - 1) \in [1 .. k - 1 -> GoodEnemy]
        BY <3>1
      <4> QED BY <3>1, <4>1
    <3>3. \A i \in 1 .. k : Append(E(k - 1), es[k])[i] = es[i]
      BY <3>1, <3>2
    <3>4. DOMAIN Append(E(k - 1), es[k]) = 1 .. k
      BY <3>1, <3>2
    <3>5. Append(E(k - 1), es[k]) = [i \in 1 .. k |-> Append(E(k - 1), es[k])[i]]
      <4>1. Append(E(k - 1), es[k]) \in Seq(GoodEnemy)
        BY <3>1, <3>2
      <4> HIDE DEF E
      <4> QED BY <3>4, <4>1
    <3> QED BY <3>3, <3>5
  <2>2. g[k] = C(k) /\ g[k - 1] = C(k - 1) /\ ms[k] = Msg("ClientInitEnemy", es[k])
    BY <1>1
  <2> HIDE DEF g, ms, E
  <2>3. Lives(C(k - 1), Msg("ClientInitEnemy", es[k]))
            = Copy([players |-> P, enemies |-> Append(E(k - 1), es[k])], id)
    BY LivesEnemy
  <2> QED BY <2>1, <2>2, <2>3
<1>5. DOMAIN g = 0 .. n /\ g[0] = C(0) /\ g[n] = C(n)
  BY <1>1
<1> HIDE DEF g, n, E, ms
<1>6. Runs(Copy([players |-> P, enemies |-> <<>>], id), ms, g)
  BY <1>2, <1>3, <1>4, <1>5 DEF Runs
<1>7. g[Len(ms)] = Copy([players |-> P, enemies |-> es], id)
  BY <1>2, <1>3, <1>5
<1>8. Becomes(Copy([players |-> P, enemies |-> <<>>], id), ms,
              Copy([players |-> P, enemies |-> es], id))
  BY <1>6, <1>7 DEF Becomes
<1> QED BY <1>8 DEF ms

\* The other players, as messages, and what they make of the players of a copy.
Others(w, others) ==
    [i \in DOMAIN others |-> PlayerMsg("ClientAddPlayer", others[i], w.players[others[i]])]
Overwritten(w, D, P, S) == [q \in D \cup S |-> IF q \in S THEN w.players[q] ELSE P[q]]

LEMMA WelcomeOthers ==
    ASSUME NEW S \in SUBSET Nat, IsFiniteSet(S), NEW others \in InOrder(S),
           NEW w, NEW D, NEW P \in [D -> GoodPlayer], NEW es, NEW id
    PROVE  Becomes(Copy([players |-> P, enemies |-> es], id), Others(w, others),
                   Copy([players |-> Overwritten(w, D, P, S), enemies |-> es], id))
<1> DEFINE n == Cardinality(S)
           ms == [i \in DOMAIN others |->
                    PlayerMsg("ClientAddPlayer", others[i], w.players[others[i]])]
           T(k) == {others[i] : i \in 1 .. k}
           F(R) == [q \in D \cup R |-> IF q \in R THEN w.players[q] ELSE P[q]]
           g == [k \in 0 .. n |-> Copy([players |-> F(T(k)), enemies |-> es], id)]
<1> HIDE DEF n, F, ms
<1>1. n \in Nat /\ DOMAIN others = 1 .. n /\ T(n) = S
  BY InOrderOK, InOrderAll DEF n
<1>2. Len(ms) = n
  BY <1>1 DEF ms
<1>3. F(T(0)) = P
  BY DEF F
<1>4. ASSUME NEW k \in 1 .. n PROVE g[k] = Lives(g[k - 1], ms[k])
  <2> DEFINE o == others[k]
             v == [players |-> F(T(k - 1)), enemies |-> es]
             x == [players |-> F(T(k)), enemies |-> es]
  <2>1. T(k) = T(k - 1) \cup {o}
    BY <1>1
  <2>2. ms[k] = PlayerMsg("ClientAddPlayer", o, w.players[o])
    BY <1>1 DEF ms
  <2> HIDE DEF T
  <2>3. Assign(v, o, w.players[o]) = x
    <3> HIDE DEF o
    <3>1. Assign(v, o, w.players[o]) =
            [players |-> [q \in DOMAIN F(T(k - 1)) \cup {o} |->
                            IF q = o THEN w.players[o] ELSE F(T(k - 1))[q]], enemies |-> es]
      BY DEF Assign
    <3>2. [q \in DOMAIN F(T(k - 1)) \cup {o} |->
                IF q = o THEN w.players[o] ELSE F(T(k - 1))[q]] = F(T(k))
      BY <2>1 DEF F
    <3> QED BY <3>1, <3>2
  <2>4. g[k] = Copy(x, id) /\ g[k - 1] = Copy(v, id)
    BY <1>1
  <2> HIDE DEF g, v, x, o
  <2>5. Lives(Copy(v, id), PlayerMsg("ClientAddPlayer", o, w.players[o]))
            = Copy(Assign(v, o, w.players[o]), id)
    BY LivesWelcome
  <2> QED BY <2>2, <2>3, <2>4, <2>5
<1>5. /\ DOMAIN g = 0 .. n /\ g[0] = Copy([players |-> F(T(0)), enemies |-> es], id)
      /\ g[n] = Copy([players |-> F(T(n)), enemies |-> es], id)
  BY <1>1
<1> HIDE DEF g, T
<1>6. Runs(Copy([players |-> P, enemies |-> es], id), ms, g)
  BY <1>2, <1>3, <1>4, <1>5 DEF Runs
<1>7. g[Len(ms)] = Copy([players |-> F(S), enemies |-> es], id)
  BY <1>1, <1>2, <1>5
<1>8. Becomes(Copy([players |-> P, enemies |-> es], id), ms,
              Copy([players |-> F(S), enemies |-> es], id))
  BY <1>6, <1>7 DEF Becomes
<1> QED BY <1>8 DEF ms, F, Others, Overwritten

LEMMA WelcomeMakes ==
    ASSUME NEW w, GoodWorld(w), NEW p \in DOMAIN w.players,
           NEW S \in SUBSET Nat, IsFiniteSet(S), DOMAIN w.players = S \cup {p}, p \notin S,
           NEW others \in InOrder(S),
           NEW d, GoodClient(d), d.fault = "none", d.world.enemies = <<>>,
           DOMAIN d.world.players \subseteq S
    PROVE  Becomes(d, Welcome(w, p, others), Copy(w, p))
<1> DEFINE m == PlayerMsg("ClientRegisterFromServer", p, w.players[p])
           enemies == [i \in DOMAIN w.enemies |-> Msg("ClientInitEnemy", w.enemies[i])]
           added == Others(w, others)
           v == Assign(d.world, p, w.players[p])
           P == v.players
           D == DOMAIN d.world.players \cup {p}
           Q == Overwritten(w, D, P, S)
           C1 == Copy([players |-> P, enemies |-> <<>>], p)
           C2 == Copy([players |-> P, enemies |-> w.enemies], p)
           C3 == Copy([players |-> Q, enemies |-> w.enemies], p)
<1>1. w.players[p] \in GoodPlayer /\ p \in Players /\ S \in SUBSET DOMAIN w.players
  BY DEF GoodWorld
<1>2. GoodWorld(d.world)
  BY DEF GoodClient
<1>3. /\ GoodWorld(v) /\ DOMAIN P = DOMAIN d.world.players \cup {p} /\ v.enemies = <<>>
      /\ P[p] = w.players[p]
  BY <1>1, <1>2, AssignOK
<1> HIDE DEF v
<1>4. Becomes(d, <<m>>, C1)
  <2>1. d = Copy(d.world, d.PlayerID)
    BY CopyIs
  <2>2. Lives(Copy(d.world, d.PlayerID), m) = Copy(v, p)
    BY LivesWelcome DEF v
  <2>3. v = [players |-> P, enemies |-> <<>>]
    BY <1>3 DEF GoodWorld
  <2> HIDE DEF m
  <2> QED BY <2>1, <2>2, <2>3, BecomesOne
<1>5. Becomes(C1, enemies, C2)
  <2>1. w.enemies \in Seq(GoodEnemy)
    BY DEF GoodWorld
  <2> QED BY <2>1, WelcomeEnemies
<1>6. Becomes(C2, added, C3)
  <2>1. P \in [D -> GoodPlayer]
    BY <1>3 DEF GoodWorld
  <2> HIDE DEF P, D
  <2> QED BY <2>1, WelcomeOthers
<1>7. C3 = Copy(w, p)
  <2>1. DOMAIN Q = DOMAIN w.players /\ \A q \in DOMAIN w.players : Q[q] = w.players[q]
    BY <1>3 DEF Overwritten
  <2>2. w.players = [q \in DOMAIN w.players |-> w.players[q]]
    BY DEF GoodWorld
  <2>3. Q = [q \in DOMAIN w.players |-> Q[q]]
    BY <2>1 DEF Overwritten
  <2> HIDE DEF Q
  <2>4. Q = w.players
    BY <2>1, <2>2, <2>3
  <2>5. w = [players |-> w.players, enemies |-> w.enemies]
    BY DEF GoodWorld
  <2> QED BY <2>4, <2>5
<1>8. <<m>> \in Seq(GoodMessage) /\ enemies \in Seq(GoodMessage) /\ added \in Seq(GoodMessage)
  BY <1>1, WelcomePartsOK DEF Others
<1>9. Welcome(w, p, others) = <<m>> \o enemies \o added
  BY DEF Welcome, Others
<1> HIDE DEF m, enemies, added, C1, C2, C3
<1>10. Becomes(d, <<m>> \o enemies, C2)
  BY <1>4, <1>5, <1>8, BecomesBoth
<1>11. <<m>> \o enemies \in Seq(GoodMessage)
  BY <1>8
<1>12. Becomes(d, (<<m>> \o enemies) \o added, C3)
  BY <1>6, <1>8, <1>10, <1>11, BecomesBoth
<1> QED BY <1>7, <1>9, <1>12

-----------------------------------------------------------------------------
(* What the copy of a client, once it is caught up, has to do with the     *)
(* world: d is the client, p its player and w the world.                   *)

AllAlive(w) == \A i \in DOMAIN w.enemies : Alive(w.enemies[i])

\* Not welcome yet: it knows no enemies, and players only by name.
Strange(d, p, w) ==
    /\ p \notin DOMAIN w.players
    /\ d.world.enemies = <<>> /\ DOMAIN d.world.players \subseteq DOMAIN w.players

\* A client keeps the dead, and knows everything as long as there are none.
Familiar(d, p, w) ==
    /\ d.PlayerID = p /\ p \in DOMAIN w.players
    /\ DOMAIN d.world.players = DOMAIN w.players
    /\ \A q \in DOMAIN w.players : d.world.players[q].Coords = w.players[q].Coords
    /\ d.world.players[p].CurrentTurns = w.players[p].CurrentTurns
    /\ d.world.players[p].MaxTurns = w.players[p].MaxTurns
    /\ Len(w.enemies) <= Len(d.world.enemies)
    /\ AllAlive(d.world) => LikeWorld(d.world, w)

Plays(d) == d.fault = "none" /\ d.PlayerID # NoPlayer

Follows(d, p, w) ==
    /\ GoodClient(d)
    /\ d.fault = "at" => d.PlayerID = NoPlayer
    /\ d.fault = "none" /\ d.PlayerID = NoPlayer => Strange(d, p, w)
    /\ Plays(d) => Familiar(d, p, w)

\* Of a client that died nothing is asked, whatever becomes of the world.
LEMMA DeadFollows ==
    ASSUME NEW d, NEW p, NEW w, NEW v, Follows(d, p, w), d.fault # "none"
    PROVE  Follows(d, p, v)
BY DEF Follows, Plays

LEMMA LivesOK ==
    ASSUME NEW d, GoodClient(d), NEW m \in GoodMessage
    PROVE  GoodClient(Lives(d, m))
BY HandledOK DEF Lives

LEMMA DeadLives ==
    ASSUME NEW d, NEW m, d.fault # "none"
    PROVE  Lives(d, m) = d
BY DEF Lives

\* An enemy's action on the enemy the server has reached, and on the one its
\* EnemyID means to the client.
LEMMA ActionFollows ==
    ASSUME NEW p \in Players, NEW w, GoodWorld(w), NEW d, Follows(d, p, w),
           NEW i \in DOMAIN w.enemies, NEW a \in EnemyAction, a.EnemyID + 1 <= i,
           Plays(d) /\ AllAlive(d.world) => i = a.EnemyID + 1
    PROVE  LET e == Lives(d, Msg("GameAITurnAction", a)) IN
           /\ Follows(e, p, MakeEnemyAction(w, i, a))
           /\ Plays(e) /\ AllAlive(e.world) => Plays(d) /\ AllAlive(d.world)
<1> DEFINE m == Msg("GameAITurnAction", a)
           e == Lives(d, m)
           v == MakeEnemyAction(w, i, a)
<1>1. m \in GoodMessage /\ GoodClient(d) /\ GoodClient(e)
  BY MessageOK, LivesOK DEF Follows
<1>2. CASE d.fault # "none"
  <2>1. e = d
    BY <1>2, DeadLives
  <2> QED BY <1>2, <2>1, DeadFollows DEF Plays
<1>3. CASE d.fault = "none" /\ d.PlayerID = NoPlayer
  <2>1. d.world.enemies = <<>>
    BY <1>3 DEF Follows, Strange
  <2>2. a.EnemyID + 1 \notin DOMAIN d.world.enemies
    BY <2>1
  <2>3. m.id = "GameAITurnAction" /\ m.body = a
    BY DEF Msg
  <2>4. e = [d EXCEPT !.fault = "at"]
    <3> HIDE DEF m
    <3> QED BY <1>3, <2>2, <2>3 DEF Lives, Handled
  <2>5. e.fault = "at" /\ e.PlayerID = NoPlayer
    BY <1>1, <1>3, <2>4 DEF GoodClient
  <2> HIDE DEF e, m, v
  <2>6. Follows(e, p, v) /\ ~Plays(e)
    BY <1>1, <2>5 DEF Follows, Plays
  <2> QED BY <2>6 DEF e, m, v
<1>4. CASE Plays(d)
  <2> DEFINE j == a.EnemyID + 1
             x == MakeEnemyAction(d.world, j, a)
  <2>1. Familiar(d, p, w) /\ GoodWorld(d.world)
    BY <1>4 DEF Follows, GoodClient
  <2>2. j \in DOMAIN d.world.enemies
    <3>1. /\ DOMAIN w.enemies = 1 .. Len(w.enemies) /\ Len(w.enemies) \in Nat
          /\ DOMAIN d.world.enemies = 1 .. Len(d.world.enemies) /\ Len(d.world.enemies) \in Nat
      BY <2>1 DEF GoodWorld
    <3>2. a.EnemyID \in Nat
      BY DEF EnemyAction
    <3>3. Len(w.enemies) <= Len(d.world.enemies)
      BY <2>1 DEF Familiar
    <3> QED BY <3>1, <3>2, <3>3
  <2>3. e = Copy(x, p)
    <3>1. d = Copy(d.world, p)
      BY <1>1, <1>4, <2>1, CopyIs DEF Plays, Familiar
    <3>2. Lives(Copy(d.world, p), m) = Copy(x, p)
      BY <2>2, LivesActions
    <3> QED BY <3>1, <3>2
  <2> HIDE DEF e, m, j
  <2>4. /\ GoodWorld(x) /\ DOMAIN x.players = DOMAIN d.world.players
        /\ \A q \in DOMAIN d.world.players : x.players[q].Coords = d.world.players[q].Coords
        /\ DeadStay(d.world, x) /\ TurnsStay(d.world, x)
    BY <2>1, <2>2, MakeEnemyActionOK, MakeEnemyActionMore
  <2>5. /\ GoodWorld(v) /\ DOMAIN v.players = DOMAIN w.players
        /\ \A q \in DOMAIN w.players : v.players[q].Coords = w.players[q].Coords
        /\ DeadStay(w, v) /\ TurnsStay(w, v)
    BY MakeEnemyActionOK, MakeEnemyActionMore
  <2>6. AllAlive(x) => AllAlive(d.world) /\ LikeWorld(x, v)
    <3> SUFFICES ASSUME AllAlive(x) PROVE AllAlive(d.world) /\ LikeWorld(x, v)
      OBVIOUS
    <3>1. AllAlive(d.world)
      <4> HIDE DEF x
      <4> QED BY <2>4 DEF AllAlive, DeadStay
    <3>2. i = j /\ LikeWorld(d.world, w)
      BY <1>4, <2>1, <3>1 DEF Familiar, j
    <3>3. LikeWorld(x, v)
      BY <2>1, <2>2, <3>2, MakeEnemyActionLike
    <3> QED BY <3>1, <3>3
  <2> HIDE DEF x, v
  <2>7. e.world = x /\ e.PlayerID = p /\ e.fault = "none"
    BY <2>3 DEF Copy
  <2>8. Familiar(e, p, v)
    <3>1. /\ \A q \in DOMAIN v.players : e.world.players[q].Coords = v.players[q].Coords
          /\ DOMAIN e.world.players = DOMAIN v.players /\ p \in DOMAIN v.players
      BY <2>1, <2>4, <2>5, <2>7 DEF Familiar
    <3>2. /\ e.world.players[p].CurrentTurns = v.players[p].CurrentTurns
          /\ e.world.players[p].MaxTurns = v.players[p].MaxTurns
      BY <2>1, <2>4, <2>5, <2>7 DEF Familiar, TurnsStay
    <3>3. Len(v.enemies) <= Len(e.world.enemies)
      BY <2>1, <2>4, <2>5, <2>7 DEF Familiar, DeadStay
    <3> QED BY <2>6, <2>7, <3>1, <3>2, <3>3 DEF Familiar
  <2>9. p # NoPlayer
    BY PlayersAssumption DEF NoPlayer
  <2>10. Follows(e, p, v) /\ (AllAlive(e.world) => AllAlive(d.world))
    BY <1>1, <2>6, <2>7, <2>8, <2>9 DEF Follows, Plays
  <2> QED BY <1>4, <2>10 DEF e, m, v
<1> QED BY <1>1, <1>2, <1>3, <1>4 DEF Plays

\* A player's action, on the server and on a client that is told of it.
LEMMA ApprovedFollows ==
    ASSUME NEW p \in Players, NEW w, GoodWorld(w), NEW d, Follows(d, p, w),
           NEW a \in PlayerAction, a.PlayerID \in DOMAIN w.players
    PROVE  Follows(Lives(d, Msg("GamePlayerActionValidated", a)), p, MakeApprovedAction(w, a))
<1> DEFINE m == Msg("GamePlayerActionValidated", a)
           e == Lives(d, m)
           v == MakeApprovedAction(w, a)
           x == MakeApprovedAction(d.world, a)
<1>1. m \in GoodMessage /\ GoodClient(d) /\ GoodClient(e) /\ GoodWorld(d.world)
  BY MessageOK, LivesOK DEF Follows, GoodClient
<1>2. m.id = "GamePlayerActionValidated" /\ m.body = a
  BY DEF Msg
<1>3. /\ GoodWorld(v) /\ DOMAIN v.players = DOMAIN w.players
      /\ \A q \in DOMAIN w.players :
            v.players[q].Coords = IF q = a.PlayerID /\ a.ActionType = "Move"
                                  THEN Plus(w.players[q].Coords, a.ActionInfo)
                                  ELSE w.players[q].Coords
      /\ DeadStay(w, v)
      /\ \A q \in DOMAIN w.players :
            /\ v.players[q].MaxTurns = w.players[q].MaxTurns
            /\ v.players[q].CurrentTurns = IF q = a.PlayerID THEN (w.players[q].CurrentTurns - 1) % 16
                                           ELSE w.players[q].CurrentTurns
  BY MakeApprovedActionOK, MakeApprovedActionMore
<1>4. ASSUME a.PlayerID \in DOMAIN d.world.players
      PROVE  /\ GoodWorld(x) /\ DOMAIN x.players = DOMAIN d.world.players
             /\ \A q \in DOMAIN d.world.players :
                   x.players[q].Coords = IF q = a.PlayerID /\ a.ActionType = "Move"
                                         THEN Plus(d.world.players[q].Coords, a.ActionInfo)
                                         ELSE d.world.players[q].Coords
             /\ DeadStay(d.world, x)
             /\ \A q \in DOMAIN d.world.players :
                   /\ x.players[q].MaxTurns = d.world.players[q].MaxTurns
                   /\ x.players[q].CurrentTurns =
                        IF q = a.PlayerID THEN (d.world.players[q].CurrentTurns - 1) % 16
                        ELSE d.world.players[q].CurrentTurns
  BY <1>1, <1>4, MakeApprovedActionOK, MakeApprovedActionMore
<1>5. CASE d.fault # "none"
  <2>1. e = d
    BY <1>5, DeadLives
  <2>2. Follows(d, p, v)
    <3> HIDE DEF v
    <3> QED BY <1>5, DeadFollows
  <2> QED BY <2>1, <2>2
<1> HIDE DEF m, v, x
<1>6. CASE d.fault = "none" /\ d.PlayerID = NoPlayer
  <2>1. Strange(d, p, w)
    BY <1>6 DEF Follows
  <2>2. CASE ~Known(d, a.PlayerID)
    <3>1. e = d
      BY <1>2, <1>6, <2>2 DEF Lives, Handled
    <3>2. Strange(d, p, v)
      BY <1>3, <2>1 DEF Strange
    <3>3. Follows(d, p, v)
      BY <1>1, <1>6, <3>2 DEF Follows, Plays
    <3> QED BY <3>1, <3>3 DEF m, v
  <2>3. CASE Known(d, a.PlayerID)
    <3> DEFINE f == IF d.world.players[a.PlayerID].CurrentTurns = 0 THEN "assert" ELSE "none"
    <3>1. e = [d EXCEPT !.world = x, !.fault = f]
      BY <1>2, <1>6, <2>3 DEF Lives, Handled, x
    <3>2. f # "at"
      OBVIOUS
    <3> HIDE DEF f
    <3>3. e.world = x /\ e.fault # "at" /\ e.PlayerID = NoPlayer
      BY <1>1, <1>6, <3>1, <3>2 DEF GoodClient
    <3>4. x.enemies = <<>>
      <4>1. Len(x.enemies) = 0 /\ x.enemies \in Seq(GoodEnemy)
        BY <1>4, <2>1, <2>3 DEF Strange, Known, DeadStay, GoodWorld
      <4> QED BY <4>1
    <3>5. Strange(e, p, v)
      BY <1>3, <1>4, <2>1, <2>3, <3>3, <3>4 DEF Strange, Known
    <3> HIDE DEF e
    <3>6. Follows(e, p, v)
      BY <1>1, <3>3, <3>5 DEF Follows, Plays
    <3> QED BY <3>6 DEF e, m, v
  <2> QED BY <2>2, <2>3
<1>7. CASE Plays(d)
  <2>1. Familiar(d, p, w)
    BY <1>7 DEF Follows
  <2>2. a.PlayerID \in DOMAIN d.world.players /\ d = Copy(d.world, p)
    BY <1>1, <1>7, <2>1, CopyIs DEF Plays, Familiar
  <2>3. e.fault = "assert" \/ e = Copy(x, p)
    <3>1. \/ Lives(Copy(d.world, p), m).fault = "assert"
          \/ Lives(Copy(d.world, p), m) = Copy(x, p)
      BY <2>2, LivesActions DEF m, x
    <3> QED BY <2>2, <3>1
  <2> HIDE DEF e
  <2>4. CASE e.fault = "assert"
    <3>1. Follows(e, p, v)
      BY <1>1, <2>4 DEF Follows, Plays
    <3> QED BY <3>1 DEF e, m, v
  <2>5. CASE e = Copy(x, p)
    <3>1. e.world = x /\ e.PlayerID = p /\ e.fault = "none"
      BY <2>5 DEF Copy
    <3>2. /\ DOMAIN x.players = DOMAIN v.players /\ p \in DOMAIN v.players
          /\ \A q \in DOMAIN v.players : x.players[q].Coords = v.players[q].Coords
      BY <1>3, <1>4, <2>1, <2>2 DEF Familiar
    <3>3. /\ x.players[p].CurrentTurns = v.players[p].CurrentTurns
          /\ x.players[p].MaxTurns = v.players[p].MaxTurns
      BY <1>3, <1>4, <2>1, <2>2 DEF Familiar
    <3>4. Len(v.enemies) <= Len(x.enemies)
      BY <1>3, <1>4, <2>1, <2>2 DEF Familiar, DeadStay
    <3>5. AllAlive(x) => LikeWorld(x, v)
      <4> SUFFICES ASSUME AllAlive(x) PROVE LikeWorld(x, v)
        OBVIOUS
      <4>1. AllAlive(d.world)
        BY <1>4, <2>2 DEF AllAlive, DeadStay
      <4>2. LikeWorld(d.world, w)
        BY <2>1, <4>1 DEF Familiar
      <4> QED BY <1>1, <2>2, <4>2, MakeApprovedActionLike DEF x, v
    <3>6. Familiar(e, p, v)
      BY <3>1, <3>2, <3>3, <3>4, <3>5 DEF Familiar
    <3>7. p # NoPlayer
      BY PlayersAssumption DEF NoPlayer
    <3>8. Follows(e, p, v)
      BY <1>1, <3>1, <3>6, <3>7 DEF Follows, Plays
    <3> QED BY <3>8 DEF e, m, v
  <2> QED BY <2>3, <2>4, <2>5
<1> QED BY <1>1, <1>5, <1>6, <1>7 DEF Plays

\* Somebody else's turn begins: a client is not told how many actions that is.
LEMMA OthersTurnFollows ==
    ASSUME NEW p \in Players, NEW w, GoodWorld(w), NEW d, Follows(d, p, w),
           NEW q, q # p
    PROVE  Follows(d, p, FullTurn(w, q))
<1> DEFINE v == FullTurn(w, q)
<1>1. /\ GoodWorld(v) /\ DOMAIN v.players = DOMAIN w.players /\ v.enemies = w.enemies
      /\ \A r \in DOMAIN w.players : v.players[r].Coords = w.players[r].Coords
  BY FullTurnOK
<1>2. \A r \in DOMAIN w.players :
        /\ LikePlayer(v.players[r], w.players[r])
        /\ r # q => v.players[r].CurrentTurns = w.players[r].CurrentTurns
  BY FullTurnMore
<1>3. GoodClient(d) /\ GoodWorld(d.world)
  BY DEF Follows, GoodClient
<1>4. LikeWorld(d.world, w) => LikeWorld(d.world, v)
  BY <1>3, FullTurnLike
<1> HIDE DEF v
<1>5. Strange(d, p, w) => Strange(d, p, v)
  BY <1>1 DEF Strange
<1>6. Familiar(d, p, w) => Familiar(d, p, v)
  BY <1>1, <1>2, <1>4 DEF Familiar, LikePlayer
<1>7. Follows(d, p, v)
  BY <1>5, <1>6 DEF Follows
<1> QED BY <1>7 DEF v

\* Its own turn begins: it counts from the same number as the server.
LEMMA OwnTurnFollows ==
    ASSUME NEW p \in Players, NEW w, GoodWorld(w), NEW d, Follows(d, p, w), p \in DOMAIN w.players
    PROVE  Follows(Lives(d, Msg("GamePlayerTurn", NoPlayer)), p, FullTurn(w, p))
<1> DEFINE m == Msg("GamePlayerTurn", NoPlayer)
           e == Lives(d, m)
           v == FullTurn(w, p)
           x == FullTurn(d.world, p)
<1>1. m \in GoodMessage /\ GoodClient(d) /\ GoodClient(e) /\ GoodWorld(d.world)
  BY MessageOK, LivesOK DEF Follows, GoodClient
<1>2. CASE d.fault # "none"
  <2>1. e = d
    BY <1>2, DeadLives
  <2>2. Follows(d, p, v)
    <3> HIDE DEF v
    <3> QED BY <1>2, DeadFollows
  <2> QED BY <2>1, <2>2
<1>3. CASE d.fault = "none" /\ d.PlayerID = NoPlayer
  BY <1>3 DEF Follows, Strange
<1>4. CASE Plays(d)
  <2>1. Familiar(d, p, w)
    BY <1>4 DEF Follows
  <2>2. /\ GoodWorld(v) /\ DOMAIN v.players = DOMAIN w.players /\ v.enemies = w.enemies
        /\ \A r \in DOMAIN w.players : v.players[r].Coords = w.players[r].Coords
    BY FullTurnOK
  <2>3. /\ GoodWorld(x) /\ DOMAIN x.players = DOMAIN d.world.players
        /\ x.enemies = d.world.enemies
        /\ \A r \in DOMAIN d.world.players : x.players[r].Coords = d.world.players[r].Coords
    BY <1>1, FullTurnOK
  <2>4. /\ v.players[p].CurrentTurns = w.players[p].MaxTurns % 16
        /\ v.players[p].MaxTurns = w.players[p].MaxTurns
    BY FullTurnMore DEF LikePlayer
  <2>5. /\ x.players[p].CurrentTurns = d.world.players[p].MaxTurns % 16
        /\ x.players[p].MaxTurns = d.world.players[p].MaxTurns
    BY <1>1, <2>1, FullTurnMore DEF LikePlayer, Familiar
  <2>6. LikeWorld(d.world, w) => LikeWorld(x, v)
    BY <1>1, FullTurnLike
  <2>7. e = Copy(x, p)
    <3>1. d = Copy(d.world, p)
      BY <1>1, <1>4, <2>1, CopyIs DEF Plays, Familiar
    <3>2. Lives(Copy(d.world, p), m) = Copy(x, p)
      BY LivesTurns
    <3> QED BY <3>1, <3>2
  <2> HIDE DEF e, x, v, m
  <2>8. e.world = x /\ e.PlayerID = p /\ e.fault = "none"
    BY <2>7 DEF Copy
  <2>9. Familiar(e, p, v)
    <3>1. /\ DOMAIN x.players = DOMAIN v.players /\ p \in DOMAIN v.players
          /\ \A r \in DOMAIN v.players : x.players[r].Coords = v.players[r].Coords
      BY <2>1, <2>2, <2>3 DEF Familiar
    <3>2. /\ x.players[p].CurrentTurns = v.players[p].CurrentTurns
          /\ x.players[p].MaxTurns = v.players[p].MaxTurns
      BY <2>1, <2>4, <2>5 DEF Familiar
    <3>3. Len(v.enemies) <= Len(x.enemies)
      BY <2>1, <2>2, <2>3 DEF Familiar
    <3>4. AllAlive(x) => LikeWorld(x, v)
      BY <2>1, <2>3, <2>6 DEF Familiar, AllAlive
    <3> QED BY <2>8, <3>1, <3>2, <3>3, <3>4 DEF Familiar
  <2>10. p # NoPlayer
    BY PlayersAssumption DEF NoPlayer
  <2>11. Follows(e, p, v)
    BY <1>1, <2>8, <2>9, <2>10 DEF Follows, Plays
  <2> QED BY <2>11 DEF e, m, v
<1> QED BY <1>1, <1>2, <1>3, <1>4 DEF Plays

\* A name that everybody is told: only who is not welcome yet may not know it.
LEMMA NameFollows ==
    ASSUME NEW p \in Players, NEW w, GoodWorld(w), NEW d, Follows(d, p, w),
           NEW q \in DOMAIN w.players
    PROVE  Follows(Lives(d, Msg("GameNextPlayerTurn", q)), p, w)
<1> DEFINE m == Msg("GameNextPlayerTurn", q)
           e == Lives(d, m)
<1>1. m \in GoodMessage /\ GoodClient(d) /\ GoodClient(e)
  <2>1. q \in Players
    BY DEF GoodWorld
  <2>2. m \in GoodMessage
    BY <2>1, MessageOK
  <2> QED BY <2>2, LivesOK DEF Follows
<1>2. m.id = "GameNextPlayerTurn" /\ m.body = q
  BY DEF Msg
<1> HIDE DEF m
<1>3. CASE d.fault # "none"
  BY <1>3, DeadLives DEF m
<1>4. CASE d.fault = "none" /\ d.PlayerID = NoPlayer
  <2>1. e = [d EXCEPT !.fault = IF q # d.PlayerID /\ ~Known(d, q) THEN "at" ELSE @]
    BY <1>2, <1>4 DEF Lives, Handled
  <2>2. e = [d EXCEPT !.fault = "at"] \/ e = [d EXCEPT !.fault = "none"]
    BY <1>4, <2>1
  <2> HIDE DEF e
  <2>3. e.world = d.world /\ e.PlayerID = NoPlayer
    BY <1>1, <1>4, <2>2 DEF GoodClient
  <2>4. Strange(e, p, w)
    BY <1>4, <2>3 DEF Follows, Strange
  <2>5. Follows(e, p, w)
    BY <1>1, <2>3, <2>4 DEF Follows, Plays
  <2> QED BY <2>5 DEF e, m
<1>5. CASE Plays(d)
  <2>1. Familiar(d, p, w)
    BY <1>5 DEF Follows
  <2>2. d = Copy(d.world, p) /\ q \in DOMAIN d.world.players
    BY <1>1, <1>5, <2>1, CopyIs DEF Plays, Familiar
  <2>3. Lives(Copy(d.world, p), m) = Copy(d.world, p)
    BY <2>2, LivesTurns DEF m
  <2>4. e = d
    BY <2>2, <2>3
  <2> QED BY <2>4 DEF m
<1> QED BY <1>1, <1>3, <1>4, <1>5 DEF Plays

\* Another player enters the world.
LEMMA AddFollows ==
    ASSUME NEW p \in Players, NEW w, GoodWorld(w), NEW d, Follows(d, p, w), NEW q \in Players,
           q # p, NEW b \in GoodPlayer
    PROVE  Follows(Lives(d, PlayerMsg("ClientAddPlayer", q, b)), p, Assign(w, q, b))
<1> DEFINE m == PlayerMsg("ClientAddPlayer", q, b)
           e == Lives(d, m)
           v == Assign(w, q, b)
           x == Assign(d.world, q, b)
<1>1. m \in GoodMessage /\ GoodClient(d) /\ GoodClient(e) /\ GoodWorld(d.world)
  BY MessageOK, LivesOK DEF Follows, GoodClient
<1>2. /\ GoodWorld(v) /\ DOMAIN v.players = DOMAIN w.players \cup {q} /\ v.enemies = w.enemies
      /\ \A r \in DOMAIN w.players \cup {q} : v.players[r] = IF r = q THEN b ELSE w.players[r]
  BY AssignOK
<1>3. /\ GoodWorld(x) /\ DOMAIN x.players = DOMAIN d.world.players \cup {q}
      /\ x.enemies = d.world.enemies
      /\ \A r \in DOMAIN d.world.players \cup {q} :
            x.players[r] = IF r = q THEN b ELSE d.world.players[r]
  BY <1>1, AssignOK
<1>4. LikeWorld(d.world, w) => LikeWorld(x, v)
  BY <1>1, AssignLike
<1>5. CASE d.fault # "none"
  <2>1. e = d
    BY <1>5, DeadLives
  <2>2. Follows(d, p, v)
    <3> HIDE DEF v
    <3> QED BY <1>5, DeadFollows
  <2> QED BY <2>1, <2>2
<1>6. CASE d.fault = "none"
  <2>1. d = Copy(d.world, d.PlayerID)
    BY <1>1, <1>6, CopyIs
  <2>2. Lives(Copy(d.world, d.PlayerID), m) = Copy(x, d.PlayerID)
    BY LivesWelcome
  <2>3. e = Copy(x, d.PlayerID)
    BY <2>1, <2>2
  <2> HIDE DEF e, m, v, x
  <2>4. e.world = x /\ e.PlayerID = d.PlayerID /\ e.fault = "none"
    BY <2>3 DEF Copy
  <2>5. Strange(d, p, w) => Strange(e, p, v)
    BY <1>2, <1>3, <2>4 DEF Strange
  <2>6. Familiar(d, p, w) => Familiar(e, p, v)
    <3> SUFFICES ASSUME Familiar(d, p, w) PROVE Familiar(e, p, v)
      OBVIOUS
    <3>1. /\ DOMAIN x.players = DOMAIN v.players /\ p \in DOMAIN v.players
          /\ \A r \in DOMAIN v.players : x.players[r].Coords = v.players[r].Coords
      BY <1>2, <1>3 DEF Familiar
    <3>2. /\ x.players[p].CurrentTurns = v.players[p].CurrentTurns
          /\ x.players[p].MaxTurns = v.players[p].MaxTurns
      BY <1>2, <1>3 DEF Familiar
    <3>3. Len(v.enemies) <= Len(x.enemies)
      BY <1>2, <1>3 DEF Familiar
    <3>4. AllAlive(x) => LikeWorld(x, v)
      BY <1>3, <1>4 DEF Familiar, AllAlive
    <3> QED BY <2>4, <3>1, <3>2, <3>3, <3>4 DEF Familiar
  <2>7. Follows(e, p, v)
    BY <1>1, <1>6, <2>4, <2>5, <2>6 DEF Follows, Plays
  <2> QED BY <2>7 DEF e, m, v
<1> QED BY <1>5, <1>6

\* The server's list of enemies loses the dead, or nothing when there are none.
LEMMA FewerFollows ==
    ASSUME NEW p \in Players, NEW w, GoodWorld(w), NEW d, Follows(d, p, w), NEW list,
           Len(list) <= Len(w.enemies), AllAlive(w) => list = w.enemies,
           Len(list) \in Nat
    PROVE  Follows(d, p, [players |-> w.players, enemies |-> list])
<1> DEFINE v == [players |-> w.players, enemies |-> list]
<1>1. v.players = w.players /\ v.enemies = list
  OBVIOUS
<1> HIDE DEF v
<1>2. Strange(d, p, w) => Strange(d, p, v)
  BY <1>1 DEF Strange
<1>3. LikeWorld(d.world, w) /\ AllAlive(d.world) => LikeWorld(d.world, v)
  <2> SUFFICES ASSUME LikeWorld(d.world, w), AllAlive(d.world) PROVE LikeWorld(d.world, v)
    OBVIOUS
  <2>1. AllAlive(w)
    BY DEF LikeWorld, AllAlive
  <2> QED BY <1>1, <2>1 DEF LikeWorld
<1>4. GoodWorld(d.world)
  BY DEF Follows, GoodClient
<1>5. Len(d.world.enemies) \in Nat /\ Len(w.enemies) \in Nat
  BY <1>4 DEF GoodWorld
<1>6. Familiar(d, p, w) => Familiar(d, p, v)
  BY <1>1, <1>3, <1>5 DEF Familiar
<1>7. Follows(d, p, v)
  BY <1>2, <1>6 DEF Follows
<1> QED BY <1>7 DEF v

-----------------------------------------------------------------------------
(* The inductive invariant of the copy.                                    *)

\* The client c, once it has handled the messages, follows; and as long as no
\* enemy has died, the server counts its enemies without a gap.
Follow(c, messages, a, p, w) ==
    \E d : /\ Becomes(c, messages, d) /\ Follows(d, p, w)
           /\ a.pc # "off" /\ Plays(d) /\ AllAlive(d.world) => a.i = a.ActiveEnemyID + 1

FInv ==
    /\ Follow(client, Backlog, ai, watcher, world)
    /\ ai.pc = "off" => ai.enemyActions = <<>>
    /\ ai.pc # "off" => ai.ActiveEnemyID + 1 <= ai.i
    /\ ~connected => /\ watcher \notin DOMAIN world.players
                     /\ inbox = <<>> /\ client = Copy(EmptyWorld, NoPlayer)

\* A client that died follows whatever happens and whatever it is sent.
LEMMA DeadFollow ==
    ASSUME NEW c, c.fault # "none", NEW p, NEW w, NEW a, NEW ms \in Seq(GoodMessage),
           Follow(c, ms, a, p, w), NEW v, NEW b, NEW ns \in Seq(GoodMessage)
    PROVE  Follow(c, ns, b, p, v)
<1>1. PICK d : Becomes(c, ms, d) /\ Follows(d, p, w)
  BY DEF Follow
<1>2. d = c
  BY <1>1, BecomesDead
<1>3. Follows(c, p, v) /\ ~Plays(c)
  BY <1>1, <1>2, DeadFollows DEF Plays
<1>4. Becomes(c, ns, c)
  BY BecomesDead
<1> QED BY <1>3, <1>4 DEF Follow

\* So does one that knows nothing, as long as its player is not in the world.
LEMMA NewcomerFollows ==
    ASSUME NEW p, NEW w, p \notin DOMAIN w.players, NEW a
    PROVE  Follow(Copy(EmptyWorld, NoPlayer), <<>>, a, p, w)
<1> DEFINE c == Copy(EmptyWorld, NoPlayer)
           none == [EmptyWorld EXCEPT !.enemies = <<>>]
<1>1. none = EmptyWorld
  BY DEF EmptyWorld
<1>2. GoodWorld(none) /\ DOMAIN none.players = {}
  <2>1. <<>> \in Seq(GoodEnemy)
    OBVIOUS
  <2> QED BY <2>1, EmptyWorldOK
<1> HIDE DEF none
<1>3. EmptyWorld.enemies = <<>>
  BY DEF EmptyWorld
<1>4. c.world = EmptyWorld /\ c.PlayerID = NoPlayer /\ c.fault = "none" /\ GoodClient(c)
  BY <1>1, <1>2 DEF Copy, GoodClient
<1> HIDE DEF c
<1>5. Strange(c, p, w)
  BY <1>1, <1>2, <1>3, <1>4 DEF Strange
<1>6. Follows(c, p, w) /\ ~Plays(c)
  BY <1>4, <1>5 DEF Follows, Plays
<1>7. Becomes(c, <<>>, c)
  BY BecomesNothing
<1> QED BY <1>6, <1>7 DEF Follow, c

LEMMA NoActions == Actions(<<>>) = <<>>
<1>1. <<>> \in Seq(EnemyAction)
  OBVIOUS
<1>2. Actions(<<>>) \in Seq(GoodMessage) /\ Len(Actions(<<>>)) = 0
  BY <1>1, ActionsOK
<1> QED BY <1>2

LEMMA InitFollows == Init => FInv
<1> SUFFICES ASSUME Init PROVE FInv
  OBVIOUS
<1>1. IInv
  BY InitOK
<1>2. ai.pc = "off" /\ ai.enemyActions = <<>> /\ inbox = <<>>
  BY DEF Init, AIOff
<1>3. Backlog = <<>>
  <2>1. Backlog = inbox \o Actions(ai.enemyActions)
    BY <1>1, BacklogOK DEF IInv, GoodAI, AIState
  <2> QED BY <1>2, <2>1, NoActions
<1>4. client = Copy(EmptyWorld, NoPlayer)
  BY DEF Init, Copy
<1>5. watcher \notin DOMAIN world.players
  <2>1. PICK enemies : world = [EmptyWorld EXCEPT !.enemies = enemies]
    BY DEF Init
  <2> QED BY <2>1 DEF EmptyWorld
<1>6. Follow(client, Backlog, ai, watcher, world)
  BY <1>3, <1>4, <1>5, NewcomerFollows
<1> QED BY <1>2, <1>4, <1>5, <1>6 DEF FInv

\* The enemies' turn, its locals and its messages in a state of IInv.
LEMMA BacklogIs ==
    ASSUME IInv
    PROVE  /\ Backlog = inbox \o Actions(ai.enemyActions) /\ Backlog \in Seq(GoodMessage)
           /\ ai.enemyActions \in Seq(EnemyAction) /\ ai.i \in Nat /\ ai.ActiveEnemyID \in Nat
           /\ ai.LeftedAction \in 0 .. 3
           /\ ai = [pc |-> ai.pc, i |-> ai.i, ActiveEnemyID |-> ai.ActiveEnemyID,
                    LeftedAction |-> ai.LeftedAction, TargetCoords |-> ai.TargetCoords,
                    EnemyListDirt |-> ai.EnemyListDirt, enemyActions |-> ai.enemyActions]
<1>1. ai \in AIState /\ inbox \in Seq(GoodMessage)
  BY DEF IInv, GoodAI
<1> QED BY <1>1, AIStateOK, BacklogOK

LEMMA BacklogNext == Backlog' = inbox' \o Actions(ai'.enemyActions)
BY DEF Backlog, Actions

\* Steps that change neither the world nor what the watcher will have handled.
LEMMA QuietFollows ==
    ASSUME IInv, FInv, UNCHANGED <<world, watcher, connected, client, inbox>>,
           ai'.enemyActions = ai.enemyActions,
           ai'.pc = "off" <=> ai.pc = "off",
           ai'.i - ai'.ActiveEnemyID = ai.i - ai.ActiveEnemyID,
           ai'.i \in Nat, ai'.ActiveEnemyID \in Nat
    PROVE  FInv'
<1>1. Backlog' = Backlog
  BY DEF Backlog
<1>2. PICK d : /\ Becomes(client, Backlog, d) /\ Follows(d, watcher, world)
               /\ ai.pc # "off" /\ Plays(d) /\ AllAlive(d.world) => ai.i = ai.ActiveEnemyID + 1
  BY DEF FInv, Follow
<1>3. ai.i \in Nat /\ ai.ActiveEnemyID \in Nat
  BY BacklogIs
<1>4. /\ ai.i = ai.ActiveEnemyID + 1 => ai'.i = ai'.ActiveEnemyID + 1
      /\ ai.ActiveEnemyID + 1 <= ai.i => ai'.ActiveEnemyID + 1 <= ai'.i
  BY <1>3
<1>5. Follow(client, Backlog, ai, watcher, world)'
  BY <1>1, <1>2, <1>4 DEF Follow
<1> QED BY <1>4, <1>5 DEF FInv

LEMMA ConnectFollows ==
    ASSUME IInv, FInv, Connect
    PROVE  FInv'
<1>1. UNCHANGED <<world, ai, watcher, client, inbox>> /\ connected'
  BY DEF Connect, serverVars
<1>2. Backlog' = Backlog
  BY <1>1 DEF Backlog
<1> QED BY <1>1, <1>2 DEF FInv

\* A dead enemy is passed only by a client that has seen one die.
LEMMA SkipDeadEnemyFollows ==
    ASSUME IInv, FInv, SkipDeadEnemy
    PROVE  FInv'
<1>1. /\ ai.pc = "enemy" /\ ai.i \in DOMAIN world.enemies /\ ~Alive(world.enemies[ai.i])
      /\ ai' = [ai EXCEPT !.i = @ + 1, !.EnemyListDirt = TRUE]
      /\ UNCHANGED <<world, watcher, connected, client, inbox>>
  BY DEF SkipDeadEnemy, AIAt, clientVars
<1>2. /\ ai'.pc = "enemy" /\ ai'.i = ai.i + 1 /\ ai'.ActiveEnemyID = ai.ActiveEnemyID
      /\ ai'.enemyActions = ai.enemyActions
  <2>1. ai = [pc |-> ai.pc, i |-> ai.i, ActiveEnemyID |-> ai.ActiveEnemyID,
              LeftedAction |-> ai.LeftedAction, TargetCoords |-> ai.TargetCoords,
              EnemyListDirt |-> ai.EnemyListDirt, enemyActions |-> ai.enemyActions]
    BY BacklogIs
  <2> QED BY <1>1, <2>1
<1>3. Backlog' = Backlog
  BY <1>1, <1>2 DEF Backlog
<1>4. PICK d : Becomes(client, Backlog, d) /\ Follows(d, watcher, world)
  BY DEF FInv, Follow
<1>5. ~(Plays(d) /\ AllAlive(d.world))
  <2> SUFFICES ASSUME Plays(d), AllAlive(d.world) PROVE FALSE
    OBVIOUS
  <2>1. LikeWorld(d.world, world)
    BY <1>4 DEF Follows, Familiar
  <2> QED BY <1>1, <2>1 DEF LikeWorld, AllAlive
<1>6. Follow(client, Backlog, ai, watcher, world)'
  BY <1>1, <1>3, <1>4, <1>5 DEF Follow
<1>7. ai'.ActiveEnemyID + 1 <= ai'.i
  <2>1. ai.i \in Nat /\ ai.ActiveEnemyID \in Nat
    BY BacklogIs
  <2>2. ai.ActiveEnemyID + 1 <= ai.i
    BY <1>1 DEF FInv
  <2> QED BY <1>2, <2>1, <2>2
<1> QED BY <1>1, <1>2, <1>6, <1>7 DEF FInv

LEMMA ChooseTargetFollows ==
    ASSUME IInv, FInv, ChooseTarget
    PROVE  FInv'
<1> DEFINE e == world.enemies[ai.i]
<1>1. /\ ai.pc = "enemy" /\ ai.i \in DOMAIN world.enemies
      /\ world' = [world EXCEPT !.enemies[ai.i] = Equip(e)]
      /\ UNCHANGED <<watcher, connected, client, inbox>>
      /\ \E target \in TargetCoords(world, ai.i) :
            ai' = [ai EXCEPT !.pc = "act", !.TargetCoords = target, !.LeftedAction = e.MaxActions]
  BY DEF ChooseTarget, AIAt, clientVars
<1>2. world' = world
  <2>1. GoodWorld(world) /\ e \in GoodEnemy
    BY <1>1 DEF IInv, GoodWorld
  <2>2. Equip(e) = e
    BY <2>1, EquipOK
  <2>3. world = [players |-> world.players, enemies |-> world.enemies]
        /\ world.enemies = [j \in DOMAIN world.enemies |-> world.enemies[j]]
    BY <2>1 DEF GoodWorld
  <2>4. [world.enemies EXCEPT ![ai.i] = e] = world.enemies
    BY <2>3
  <2>5. world' = [world EXCEPT !.enemies[ai.i] = e]
    BY <1>1, <2>2
  <2> QED BY <2>3, <2>4, <2>5
<1>3. /\ ai'.pc = "act" /\ ai'.i = ai.i /\ ai'.ActiveEnemyID = ai.ActiveEnemyID
      /\ ai'.enemyActions = ai.enemyActions
  <2>1. ai = [pc |-> ai.pc, i |-> ai.i, ActiveEnemyID |-> ai.ActiveEnemyID,
              LeftedAction |-> ai.LeftedAction, TargetCoords |-> ai.TargetCoords,
              EnemyListDirt |-> ai.EnemyListDirt, enemyActions |-> ai.enemyActions]
    BY BacklogIs
  <2>2. PICK target : ai' = [ai EXCEPT !.pc = "act", !.TargetCoords = target,
                                       !.LeftedAction = e.MaxActions]
    BY <1>1
  <2> QED BY <2>1, <2>2
<1>4. ai.i \in Nat /\ ai.ActiveEnemyID \in Nat
  BY BacklogIs
<1>5. ai'.i \in Nat /\ ai'.ActiveEnemyID \in Nat
      /\ ai'.i - ai'.ActiveEnemyID = ai.i - ai.ActiveEnemyID
  BY <1>3, <1>4
<1>6. ai'.pc = "off" <=> ai.pc = "off"
  BY <1>1, <1>3
<1> QED BY <1>1, <1>2, <1>3, <1>5, <1>6, QuietFollows

LEMMA NextEnemyFollows ==
    ASSUME IInv, FInv, NextEnemy
    PROVE  FInv'
<1>1. /\ ai.pc = "act" /\ ai' = [ai EXCEPT !.pc = "enemy", !.i = @ + 1, !.ActiveEnemyID = @ + 1]
      /\ UNCHANGED <<world, watcher, connected, client, inbox>>
  BY DEF NextEnemy, AIAt, clientVars
<1>2. /\ ai'.pc = "enemy" /\ ai'.i = ai.i + 1 /\ ai'.ActiveEnemyID = ai.ActiveEnemyID + 1
      /\ ai'.enemyActions = ai.enemyActions
  <2>1. ai = [pc |-> ai.pc, i |-> ai.i, ActiveEnemyID |-> ai.ActiveEnemyID,
              LeftedAction |-> ai.LeftedAction, TargetCoords |-> ai.TargetCoords,
              EnemyListDirt |-> ai.EnemyListDirt, enemyActions |-> ai.enemyActions]
    BY BacklogIs
  <2> QED BY <1>1, <2>1
<1>3. ai.i \in Nat /\ ai.ActiveEnemyID \in Nat
  BY BacklogIs
<1>4. ai'.i \in Nat /\ ai'.ActiveEnemyID \in Nat
      /\ ai'.i - ai'.ActiveEnemyID = ai.i - ai.ActiveEnemyID
  BY <1>2, <1>3
<1>5. ai'.pc = "off" <=> ai.pc = "off"
  BY <1>1, <1>2
<1> QED BY <1>1, <1>2, <1>4, <1>5, QuietFollows

\* The enemy acts: its action waits to be told, as the last of the messages.
LEMMA ActFollows ==
    ASSUME IInv, FInv, AIAt("act"), NEW type \in EnemyActionTypes,
           NEW info \in Vec, NEW target \in Vec, Act(type, info, target)
    PROVE  FInv'
<1> DEFINE action == [actionType |-> type, EnemyID |-> ai.ActiveEnemyID, ActionInfo |-> info]
           m == Msg("GameAITurnAction", action)
           acted == MakeEnemyAction(world, ai.i, action)
<1>1. /\ ai.pc = "act" /\ UNCHANGED <<watcher, connected, client, inbox>>
      /\ world' = acted
      /\ ai' = [ai EXCEPT !.TargetCoords = target, !.LeftedAction = @ - 1,
                          !.enemyActions = Append(@, action)]
      /\ ai.i \in DOMAIN world.enemies
      /\ watcher \in Players /\ GoodWorld(world) /\ inbox \in Seq(GoodMessage)
  BY DEF AIAt, Act, clientVars, IInv, GoodAI
<1>2. action \in EnemyAction
  <2>1. ai.ActiveEnemyID \in Nat
    BY BacklogIs
  <2> QED BY <2>1 DEF EnemyAction
<1>3. action.EnemyID = ai.ActiveEnemyID
  OBVIOUS
<1> HIDE DEF action
<1>4. /\ ai'.pc = "act" /\ ai'.i = ai.i /\ ai'.ActiveEnemyID = ai.ActiveEnemyID
      /\ ai'.enemyActions = Append(ai.enemyActions, action)
  <2>1. ai = [pc |-> ai.pc, i |-> ai.i, ActiveEnemyID |-> ai.ActiveEnemyID,
              LeftedAction |-> ai.LeftedAction, TargetCoords |-> ai.TargetCoords,
              EnemyListDirt |-> ai.EnemyListDirt, enemyActions |-> ai.enemyActions]
    BY BacklogIs
  <2> DEFINE list == Append(ai.enemyActions, action)
             left == ai.LeftedAction - 1
  <2>2. ai' = [ai EXCEPT !.TargetCoords = target, !.LeftedAction = left, !.enemyActions = list]
    BY <1>1
  <2> HIDE DEF list, left
  <2>3. /\ ai'.pc = ai.pc /\ ai'.i = ai.i /\ ai'.ActiveEnemyID = ai.ActiveEnemyID
        /\ ai'.enemyActions = list
    BY <2>1, <2>2
  <2> QED BY <1>1, <2>3 DEF list
<1>5. Backlog' = Backlog \o <<m>> /\ Backlog \in Seq(GoodMessage) /\ <<m>> \in Seq(GoodMessage)
  <2> DEFINE before == Actions(ai.enemyActions)
  <2>1. /\ Backlog = inbox \o before /\ Backlog \in Seq(GoodMessage)
        /\ ai.enemyActions \in Seq(EnemyAction)
    BY BacklogIs
  <2>2. before \in Seq(GoodMessage)
    BY <2>1, ActionsOK
  <2>3. Actions(Append(ai.enemyActions, action)) = before \o <<m>>
    BY <1>2, <2>1, ActionsMore
  <2>4. Backlog' = inbox \o Actions(Append(ai.enemyActions, action))
    <3>1. inbox' = inbox /\ ai'.enemyActions = Append(ai.enemyActions, action)
      BY <1>1, <1>4
    <3> HIDE DEF before, m
    <3> QED BY <3>1, BacklogNext
  <2>5. <<m>> \in Seq(GoodMessage)
    <3>1. m \in GoodMessage
      BY <1>2, MessageOK
    <3> HIDE DEF m
    <3> QED BY <3>1
  <2> HIDE DEF before, m
  <2>6. inbox \o (before \o <<m>>) = (inbox \o before) \o <<m>>
    BY <1>1, <2>2, <2>5, ConcatAssociative
  <2> QED BY <2>1, <2>3, <2>4, <2>5, <2>6
<1>6. PICK d : /\ Becomes(client, Backlog, d) /\ Follows(d, watcher, world)
               /\ ai.pc # "off" /\ Plays(d) /\ AllAlive(d.world) => ai.i = ai.ActiveEnemyID + 1
  BY DEF FInv, Follow
<1> DEFINE e == Lives(d, m)
<1>7. ai.ActiveEnemyID + 1 <= ai.i
  BY <1>1 DEF FInv
<1>8. /\ Follows(e, watcher, acted)
      /\ Plays(e) /\ AllAlive(e.world) => Plays(d) /\ AllAlive(d.world)
  BY <1>1, <1>2, <1>3, <1>6, <1>7, ActionFollows
<1>9. Becomes(client, Backlog \o <<m>>, e)
  <2>1. Becomes(d, <<m>>, e)
    BY BecomesOne
  <2> HIDE DEF m, e
  <2> QED BY <1>5, <1>6, <2>1, BecomesBoth
<1> HIDE DEF m, e, acted
<1>10. Follow(client, Backlog, ai, watcher, world)'
  <2>1. Follow(client, Backlog \o <<m>>, ai', watcher, acted)
    BY <1>1, <1>4, <1>6, <1>8, <1>9 DEF Follow
  <2>2. client' = client /\ watcher' = watcher /\ world' = acted /\ Backlog' = Backlog \o <<m>>
    BY <1>1, <1>5
  <2> QED BY <2>1, <2>2
<1>11. ~connected => watcher \notin DOMAIN acted.players
  <2>1. DOMAIN acted.players = DOMAIN world.players
    BY <1>1, <1>2, MakeEnemyActionOK DEF acted
  <2> QED BY <2>1 DEF FInv
<1> QED BY <1>1, <1>4, <1>7, <1>10, <1>11 DEF FInv

LEMMA MoveFollows ==
    ASSUME IInv, FInv, Move
    PROVE  FInv'
<1>1. /\ AIAt("act") /\ ai.i \in DOMAIN world.enemies /\ ai.TargetCoords \in Vec
  BY DEF Move, AIAt, IInv, GoodAI, AIState
<1>2. Displacement \in Vec
  <2>1. world.enemies[ai.i].Coords \in Vec
    BY <1>1 DEF IInv, GoodWorld, GoodEnemy, Enemy
  <2> QED BY <1>1, <2>1, VecOK DEF Displacement
<1>3. Sign(Displacement.x) \in Int /\ Sign(Displacement.y) \in Int
  BY DEF Sign
<1>4. /\ CoordVec(Sign(Displacement.x), 0, 0) \in Vec
      /\ CoordVec(0, Sign(Displacement.y), 0) \in Vec
      /\ MinusScalar(ai.TargetCoords, Sign(Displacement.x)) \in Vec
      /\ MinusScalar(ai.TargetCoords, Sign(Displacement.y)) \in Vec
  BY <1>1, <1>3, VecOK
<1>5. "EnemyMove" \in EnemyActionTypes
  BY DEF EnemyActionTypes
<1>6. \/ Act("EnemyMove", CoordVec(Sign(Displacement.x), 0, 0),
             MinusScalar(ai.TargetCoords, Sign(Displacement.x)))
      \/ Act("EnemyMove", CoordVec(0, Sign(Displacement.y), 0),
             MinusScalar(ai.TargetCoords, Sign(Displacement.y)))
  BY DEF Move
<1> QED BY <1>1, <1>4, <1>5, <1>6, ActFollows

LEMMA BaseAttackFollows ==
    ASSUME IInv, FInv, BaseAttack
    PROVE  FInv'
<1>1. /\ AIAt("act") /\ ai.i \in DOMAIN world.enemies /\ ai.TargetCoords \in Vec
  BY DEF BaseAttack, AIAt, IInv, GoodAI, AIState
<1>2. Displacement \in Vec
  <2>1. world.enemies[ai.i].Coords \in Vec
    BY <1>1 DEF IInv, GoodWorld, GoodEnemy, Enemy
  <2> QED BY <1>1, <2>1, VecOK DEF Displacement
<1>3. CoordVec(Displacement.x, Displacement.y, 0) \in Vec
  BY <1>2 DEF Vec, CoordVec
<1>4. "EnemyBaseAttack" \in EnemyActionTypes
  BY DEF EnemyActionTypes
<1>5. Act("EnemyBaseAttack", CoordVec(Displacement.x, Displacement.y, 0), ai.TargetCoords)
  BY DEF BaseAttack
<1> QED BY <1>1, <1>3, <1>4, <1>5, ActFollows

\* What a client handles is not on its way any more: its future is the same.
LEMMA HandleFollows ==
    ASSUME IInv, FInv, IInv', Handle
    PROVE  FInv'
<1> DEFINE before == Actions(ai.enemyActions)
           m == Head(inbox)
<1>1. /\ client.fault = "none" /\ inbox # <<>> /\ client' = Handled(client, m)
      /\ inbox' = IF client'.fault = "none" THEN Tail(inbox) ELSE <<>>
      /\ UNCHANGED <<world, ai, watcher, connected>>
      /\ inbox \in Seq(GoodMessage)
  BY DEF Handle, serverVars, IInv
<1>2. /\ Backlog = inbox \o before /\ Backlog \in Seq(GoodMessage)
      /\ ai.enemyActions \in Seq(EnemyAction)
  BY BacklogIs
<1>3. before \in Seq(GoodMessage)
  BY <1>2, ActionsOK
<1>4. Backlog' = inbox' \o before /\ Backlog' \in Seq(GoodMessage)
  <2>1. inbox' \in Seq(GoodMessage) /\ ai' = ai
    BY <1>1 DEF IInv
  <2>2. Backlog' = inbox' \o before
    BY <2>1 DEF Backlog, Actions
  <2> HIDE DEF before
  <2> QED BY <1>3, <2>1, <2>2
<1> HIDE DEF before
<1>5. Backlog # <<>> /\ Head(Backlog) = m /\ Tail(Backlog) = Tail(inbox) \o before
  BY <1>1, <1>2, <1>3
<1>6. PICK d : /\ Becomes(client, Backlog, d) /\ Follows(d, watcher, world)
               /\ ai.pc # "off" /\ Plays(d) /\ AllAlive(d.world) => ai.i = ai.ActiveEnemyID + 1
  BY DEF FInv, Follow
<1>7. client' = Lives(client, m)
  BY <1>1 DEF Lives
<1>8. Becomes(client', Tail(Backlog), d)
  <2>1. Becomes(Lives(client, Head(Backlog)), Tail(Backlog), d)
    BY <1>2, <1>5, <1>6, BecomesAfterOne
  <2> QED BY <1>5, <1>7, <2>1
<1>9. Becomes(client', Backlog', d)
  <2>1. CASE client'.fault = "none"
    BY <1>1, <1>4, <1>5, <1>8, <2>1
  <2>2. CASE client'.fault # "none"
    <3> DEFINE c == client'
    <3>1. Tail(Backlog) \in Seq(GoodMessage)
      BY <1>2, <1>5
    <3>2. d = c
      <4> HIDE DEF c
      <4>1. c.fault # "none" /\ Becomes(c, Tail(Backlog), d)
        BY <1>8, <2>2 DEF c
      <4> QED BY <3>1, <4>1, BecomesDead
    <3>3. Becomes(c, Backlog', c)
      BY <1>4, <2>2, BecomesDead
    <3> QED BY <3>2, <3>3
  <2> QED BY <2>1, <2>2
<1>10. Follow(client, Backlog, ai, watcher, world)'
  <2>1. Follow(client', Backlog', ai, watcher, world)
    BY <1>6, <1>9 DEF Follow
  <2> QED BY <1>1, <2>1
<1> QED BY <1>1, <1>10 DEF FInv

\* The messages that go with a step of the server, after those it held back.
LEMMA ToldFollows ==
    ASSUME IInv, FInv, IInv', UNCHANGED <<watcher, connected, client>>,
           NEW ms \in Seq(GoodMessage),
           inbox' = Told(Actions(ai.enemyActions) \o ms),
           ai'.enemyActions = <<>>, ai'.pc # "off" => ai'.i = ai'.ActiveEnemyID + 1,
           ~connected => watcher \notin DOMAIN world'.players,
           \A d : connected /\ Follows(d, watcher, world) =>
                    \E e : Becomes(d, ms, e) /\ Follows(e, watcher, world')
    PROVE  FInv'
<1> DEFINE before == Actions(ai.enemyActions)
<1>1. /\ Backlog = inbox \o before /\ Backlog \in Seq(GoodMessage)
      /\ before \in Seq(GoodMessage) /\ inbox \in Seq(GoodMessage)
  BY BacklogIs, ActionsOK DEF IInv
<1> HIDE DEF before
<1>2. Backlog' = inbox' /\ Backlog' \in Seq(GoodMessage)
  <2>1. inbox' \in Seq(GoodMessage)
    BY DEF IInv
  <2>2. Backlog' = inbox' \o <<>>
    BY NoActions, BacklogNext
  <2> QED BY <2>1, <2>2, ConcatEmptySeq
<1>3. Follow(client, Backlog, ai, watcher, world)
  BY DEF FInv
<1>4. ai'.pc # "off" => ai'.ActiveEnemyID + 1 <= ai'.i
  <2>1. ai'.ActiveEnemyID \in Nat
    BY AIStateOK DEF IInv, GoodAI
  <2> QED BY <2>1
<1>5. Follow(client, Backlog', ai', watcher, world')
  <2>1. CASE client.fault # "none"
    BY <1>1, <1>2, <1>3, <2>1, DeadFollow
  <2>2. CASE client.fault = "none" /\ ~connected
    <3>1. Backlog' = <<>> /\ client = Copy(EmptyWorld, NoPlayer)
      BY <1>2, <2>2 DEF FInv, Told
    <3> QED BY <2>2, <3>1, NewcomerFollows
  <2>3. CASE client.fault = "none" /\ connected
    <3>1. PICK d : Becomes(client, Backlog, d) /\ Follows(d, watcher, world)
      BY <1>3 DEF Follow
    <3>2. PICK e : Becomes(d, ms, e) /\ Follows(e, watcher, world')
      BY <2>3, <3>1
    <3>3. Backlog' = Backlog \o ms
      <4>1. Backlog' = inbox \o (before \o ms)
        BY <1>2, <2>3 DEF Told, before
      <4> QED BY <1>1, <4>1, ConcatAssociative
    <3>4. Becomes(client, Backlog', e)
      BY <1>1, <3>1, <3>2, <3>3, BecomesBoth
    <3> QED BY <3>2, <3>4 DEF Follow
  <2> QED BY <2>1, <2>2, <2>3
<1>6. Follow(client, Backlog, ai, watcher, world)'
  BY <1>5
<1>7. ~connected' => watcher' \notin DOMAIN world'.players
                     /\ inbox' = <<>> /\ client' = Copy(EmptyWorld, NoPlayer)
  BY DEF FInv, Told
<1> QED BY <1>4, <1>6, <1>7 DEF FInv

\* A turn that is begun when a player registers is told to that player alone.
LEMMA FirstTurnFollows ==
    ASSUME NEW w, GoodWorld(w), watcher \in Players, NEW d, Follows(d, watcher, w),
           NEW q \in DOMAIN w.players
    PROVE  \E e : /\ Becomes(d, ToWatcher(q, <<Msg("GamePlayerTurn", NoPlayer)>>), e)
                  /\ Follows(e, watcher, FullTurn(w, q))
<1> DEFINE m == Msg("GamePlayerTurn", NoPlayer)
           own == ToWatcher(q, <<m>>)
           v == FullTurn(w, q)
<1>1. CASE q = watcher
  <2>1. Follows(Lives(d, m), watcher, v)
    BY <1>1, OwnTurnFollows
  <2>2. Becomes(d, <<m>>, Lives(d, m)) /\ own = <<m>>
    BY <1>1, BecomesOne DEF ToWatcher
  <2> QED BY <2>1, <2>2
<1>2. CASE q # watcher
  <2>1. Follows(d, watcher, v)
    BY <1>2, OthersTurnFollows
  <2>2. Becomes(d, <<>>, d) /\ own = <<>>
    BY <1>2, BecomesNothing DEF ToWatcher
  <2> QED BY <2>1, <2>2
<1> QED BY <1>1, <1>2

\* The turn passes to q, and the client is told so.
LEMMA TurnToldFollows ==
    ASSUME NEW w, GoodWorld(w), watcher \in Players, NEW d, Follows(d, watcher, w),
           NEW q \in DOMAIN w.players
    PROVE  \E e : Becomes(d, TurnTold(q), e) /\ Follows(e, watcher, FullTurn(w, q))
<1> DEFINE m == Msg("GamePlayerTurn", NoPlayer)
           own == ToWatcher(q, <<m>>)
           name == Msg("GameNextPlayerTurn", q)
           v == FullTurn(w, q)
<1>1. q \in Players
  BY DEF GoodWorld
<1>2. own \in Seq(GoodMessage) /\ <<name>> \in Seq(GoodMessage)
  <2>1. own \in Seq(GoodMessage)
    BY TurnMessageOK, ToWatcherOK
  <2>2. name \in GoodMessage
    BY <1>1, MessageOK
  <2> HIDE DEF own, name
  <2> QED BY <2>1, <2>2
<1>3. GoodWorld(v) /\ DOMAIN v.players = DOMAIN w.players
  BY FullTurnOK
<1>4. TurnTold(q) = own \o <<name>>
  BY DEF TurnTold
<1>5. \E e : Becomes(d, own, e) /\ Follows(e, watcher, v)
  BY FirstTurnFollows
<1>6. PICK e : Becomes(d, own, e) /\ Follows(e, watcher, v)
  BY <1>5
<1> HIDE DEF own, v
<1>7. Follows(Lives(e, name), watcher, v)
  BY <1>3, <1>6, NameFollows
<1>8. Becomes(e, <<name>>, Lives(e, name))
  BY BecomesOne
<1> HIDE DEF name
<1>9. \E c : Becomes(d, own \o <<name>>, c) /\ Follows(c, watcher, v)
  BY <1>2, <1>6, <1>7, <1>8, BecomesBoth
<1> QED BY <1>4, <1>9 DEF v

\* The watcher's own registration makes it a copy of the world; another's is
\* one more player.
LEMMA WelcomeFollows ==
    ASSUME NEW w, GoodWorld(w), watcher \in Players, NEW d, Follows(d, watcher, w),
           NEW p \in Players, p \notin DOMAIN w.players, NEW b \in GoodPlayer,
           NEW others \in InOrder(DOMAIN w.players)
    PROVE  LET joined == Assign(w, p, b)
               ms == IF p = watcher THEN Welcome(joined, p, others)
                     ELSE <<PlayerMsg("ClientAddPlayer", p, joined.players[p])>>
           IN  \E e : Becomes(d, ms, e) /\ Follows(e, watcher, joined)
<1> DEFINE joined == Assign(w, p, b)
           S == DOMAIN w.players
           welcome == Welcome(joined, p, others)
           added == <<PlayerMsg("ClientAddPlayer", p, joined.players[p])>>
<1>1. /\ GoodWorld(joined) /\ DOMAIN joined.players = S \cup {p} /\ p \in DOMAIN joined.players
      /\ joined.players[p] = b
  BY AssignOK
<1>2. S \in SUBSET Nat /\ S \in SUBSET DOMAIN joined.players /\ IsFiniteSet(S) /\ p \notin S
  BY <1>1, FiniteAssumption, PlayersAssumption, FS_Subset DEF GoodWorld
<1>3. CASE p # watcher
  <2> DEFINE m == PlayerMsg("ClientAddPlayer", p, b)
  <2>1. Follows(Lives(d, m), watcher, joined)
    BY <1>3, AddFollows
  <2>2. added = <<m>>
    BY <1>1
  <2>3. Becomes(d, <<m>>, Lives(d, m))
    BY BecomesOne
  <2> HIDE DEF m, joined, added, welcome
  <2>4. \E e : Becomes(d, added, e) /\ Follows(e, watcher, joined)
    BY <2>1, <2>2, <2>3
  <2> QED BY <1>3, <2>4 DEF joined, added, welcome
<1>4. CASE p = watcher
  <2>1. \E e : Becomes(d, welcome, e) /\ Follows(e, p, joined)
    <3> HIDE DEF joined, S
    <3>1. CASE d.fault # "none"
      <4>1. welcome \in Seq(GoodMessage)
        BY <1>1, <1>2, WelcomeOK DEF S
      <4> HIDE DEF welcome
      <4>2. Becomes(d, welcome, d)
        BY <3>1, <4>1, BecomesDead
      <4>3. Follows(d, p, joined)
        BY <1>4, <3>1, DeadFollows
      <4> QED BY <4>2, <4>3
    <3>2. CASE d.fault = "none"
      <4>1. GoodClient(d) /\ d.world.enemies = <<>> /\ DOMAIN d.world.players \subseteq S
        BY <1>4, <3>2 DEF Follows, Plays, Strange, Familiar, S
      <4>2. others \in InOrder(S)
        BY DEF S
      <4> DEFINE e == Copy(joined, p)
      <4>3. Becomes(d, welcome, e)
        BY <1>1, <1>2, <3>2, <4>1, <4>2, WelcomeMakes
      <4>4. e.world = joined /\ e.PlayerID = p /\ e.fault = "none" /\ GoodClient(e)
        BY <1>1 DEF Copy, GoodClient
      <4> HIDE DEF e, welcome
      <4>5. LikeWorld(joined, joined)
        BY <1>1 DEF LikeWorld, LikePlayer
      <4>6. Familiar(e, p, joined)
        BY <1>1, <4>4, <4>5 DEF Familiar, GoodWorld
      <4>7. p # NoPlayer
        BY PlayersAssumption DEF NoPlayer
      <4>8. Follows(e, p, joined)
        BY <4>4, <4>6, <4>7 DEF Follows
      <4> QED BY <4>3, <4>8
    <3> QED BY <3>1, <3>2
  <2> HIDE DEF joined, added, welcome
  <2> QED BY <1>4, <2>1 DEF joined, added, welcome
<1> QED BY <1>3, <1>4

LEMMA RegisterFollows ==
    ASSUME IInv, FInv, IInv', NEW p \in Players, NEW site \in SpawnSites,
           NEW items \in StartItems, Register(p, site, items)
    PROVE  FInv'
<1> DEFINE b == NewPlayer(site, items)
           joined == Assign(world, p, b)
           none == CurrentPlayerID = NoPlayer
           welcome(others) == IF p = watcher THEN Welcome(joined, p, others)
                              ELSE <<PlayerMsg("ClientAddPlayer", p, joined.players[p])>>
           own == ToWatcher(p, <<Msg("GamePlayerTurn", NoPlayer)>>)
           turn == IF none THEN own ELSE <<>>
<1>1. /\ p \notin DOMAIN world.players /\ (p = watcher => connected)
      /\ world' = IF none THEN FullTurn(joined, p) ELSE joined
      /\ ai' = ai /\ ai.pc = "off" /\ UNCHANGED <<watcher, connected, client>>
  BY DEF Register, Idle, clientVars
<1>2. PICK others \in InOrder(DOMAIN world.players) : inbox' = Told(welcome(others) \o turn)
  BY DEF Register
<1> DEFINE ms == welcome(others)
<1>3. GoodWorld(world) /\ watcher \in Players /\ b \in GoodPlayer
  BY NewPlayerOK DEF IInv
<1>4. /\ GoodWorld(joined) /\ DOMAIN joined.players = DOMAIN world.players \cup {p}
      /\ joined.players[p] = b
  BY <1>3, AssignOK
<1>5. ms \in Seq(GoodMessage)
  <2>1. Welcome(joined, p, others) \in Seq(GoodMessage)
    BY <1>3, <1>4, PlayersFinite, WelcomeOK
  <2>2. PlayerMsg("ClientAddPlayer", p, joined.players[p]) \in GoodMessage
    BY <1>3, <1>4, MessageOK
  <2> QED BY <2>1, <2>2
<1>6. turn \in Seq(GoodMessage)
  <2>1. own \in Seq(GoodMessage)
    BY TurnMessageOK, ToWatcherOK
  <2> QED BY <2>1
<1>7. ai.enemyActions = <<>>
  BY <1>1 DEF FInv
<1>8. ~connected => watcher \notin DOMAIN world'.players
  <2>1. DOMAIN world'.players = DOMAIN joined.players
    BY <1>1, <1>4, FullTurnOK
  <2>2. ~connected => watcher \notin DOMAIN world.players /\ watcher # p
    BY <1>1 DEF FInv
  <2> QED BY <1>4, <2>1, <2>2
<1>9. ASSUME NEW d, Follows(d, watcher, world)
      PROVE  \E e : Becomes(d, ms \o turn, e) /\ Follows(e, watcher, world')
  <2>1. \E c : Becomes(d, ms, c) /\ Follows(c, watcher, joined)
    BY <1>1, <1>3, <1>9, WelcomeFollows
  <2>2. PICK c : Becomes(d, ms, c) /\ Follows(c, watcher, joined)
    BY <2>1
  <2>3. \E e : Becomes(c, turn, e) /\ Follows(e, watcher, world')
    <3>1. CASE none
      <4>1. p \in DOMAIN joined.players
        BY <1>4
      <4> HIDE DEF joined, ms
      <4>2. \E e : Becomes(c, own, e) /\ Follows(e, watcher, FullTurn(joined, p))
        BY <1>3, <1>4, <2>2, <4>1, FirstTurnFollows
      <4> HIDE DEF own
      <4> QED BY <1>1, <3>1, <4>2
    <3>2. CASE ~none
      <4>1. Becomes(c, <<>>, c)
        BY BecomesNothing
      <4> HIDE DEF joined, ms
      <4> QED BY <1>1, <2>2, <3>2, <4>1
    <3> QED BY <3>1, <3>2
  <2>4. PICK e : Becomes(c, turn, e) /\ Follows(e, watcher, world')
    BY <2>3
  <2> HIDE DEF ms, turn
  <2>5. Becomes(d, ms \o turn, e)
    BY <1>5, <1>6, <2>2, <2>4, BecomesBoth
  <2> QED BY <2>4, <2>5
<1>10. inbox' = Told(Actions(ai.enemyActions) \o (ms \o turn)) /\ ms \o turn \in Seq(GoodMessage)
  <2>1. inbox' = Told(ms \o turn)
    BY <1>2
  <2> HIDE DEF ms, turn
  <2>2. ms \o turn \in Seq(GoodMessage)
    BY <1>5, <1>6
  <2>3. Actions(ai.enemyActions) \o (ms \o turn) = ms \o turn
    BY <1>7, <2>2, NoActions, ConcatEmptySeq
  <2> QED BY <2>1, <2>2, <2>3
<1> HIDE DEF ms, turn
<1>11. ai'.enemyActions = <<>> /\ ai'.pc = "off"
  BY <1>1, <1>7
<1> QED BY <1>1, <1>8, <1>9, <1>10, <1>11, ToldFollows

LEMMA ApproveFollows ==
    ASSUME IInv, FInv, IInv', NEW p \in Players, NEW d \in Steps, ApproveAction(p, d)
    PROVE  FInv'
<1> DEFINE a == MoveBy(p, d)
           acted == MakeApprovedAction(world, a)
           m == Msg("GamePlayerActionValidated", a)
           next == First(After(p))
<1>1. /\ p \in DOMAIN world.players /\ ai.pc = "off" /\ PassTurn(p, acted, <<m>>)
      /\ UNCHANGED <<watcher, connected, client>>
  BY DEF ApproveAction, MayAsk, Idle, clientVars
<1>2. a \in PlayerAction /\ a.PlayerID = p
  BY VecOK DEF MoveBy, PlayerAction, PlayerActionTypes
<1>3. GoodWorld(world) /\ watcher \in Players /\ m \in GoodMessage
  BY <1>2, MessageOK DEF IInv
<1>4. GoodWorld(acted) /\ DOMAIN acted.players = DOMAIN world.players
  BY <1>1, <1>2, <1>3, MakeApprovedActionOK
<1>5. ASSUME NEW c, Follows(c, watcher, world)
      PROVE  \E e : Becomes(c, <<m>>, e) /\ Follows(e, watcher, acted)
  <2>1. Follows(Lives(c, m), watcher, acted)
    BY <1>1, <1>2, <1>3, <1>5, ApprovedFollows
  <2>2. Becomes(c, <<m>>, Lives(c, m))
    BY BecomesOne
  <2> QED BY <2>1, <2>2
<1> HIDE DEF a, acted, m
<1>6. <<m>> \in Seq(GoodMessage)
  BY <1>3
<1>7. ai.enemyActions = <<>> /\ (~connected => watcher \notin DOMAIN world.players)
  BY <1>1 DEF FInv
<1>8. ASSUME NEW ms \in Seq(GoodMessage) PROVE Actions(ai.enemyActions) \o ms = ms
  BY <1>7, NoActions, ConcatEmptySeq
<1>9. CASE acted.players[p].CurrentTurns > 0
  <2>1. world' = acted /\ inbox' = Told(<<m>>) /\ ai' = ai
    BY <1>1, <1>9 DEF PassTurn
  <2>2. ai'.enemyActions = <<>> /\ ai'.pc = "off"
    BY <1>1, <1>7, <2>1
  <2>3. inbox' = Told(Actions(ai.enemyActions) \o <<m>>)
    BY <1>6, <1>8, <2>1
  <2> QED BY <1>1, <1>4, <1>5, <1>6, <1>7, <2>1, <2>2, <2>3, ToldFollows
<1>10. CASE ~(acted.players[p].CurrentTurns > 0) /\ After(p) # {}
  <2> DEFINE turn == TurnTold(next)
  <2>1. world' = FullTurn(acted, next) /\ inbox' = Told(<<m>> \o turn) /\ ai' = ai
    BY <1>1, <1>10 DEF PassTurn
  <2>2. next \in DOMAIN acted.players
    <3>1. After(p) \in SUBSET Nat
      BY <1>3, PlayersFinite DEF After
    <3>2. next \in After(p)
      BY <1>10, <3>1, FirstOK
    <3> QED BY <1>4, <3>2 DEF After
  <2> HIDE DEF next
  <2>3. turn \in Seq(GoodMessage)
    <3>1. next \in Players
      BY <1>4, <2>2 DEF GoodWorld
    <3> QED BY <3>1, TurnToldOK
  <2>4. DOMAIN FullTurn(acted, next).players = DOMAIN acted.players
    BY <1>4, FullTurnOK
  <2>5. ASSUME NEW c, Follows(c, watcher, world)
        PROVE  \E e : Becomes(c, <<m>> \o turn, e) /\ Follows(e, watcher, world')
    <3>1. PICK e : Becomes(c, <<m>>, e) /\ Follows(e, watcher, acted)
      BY <1>5, <2>5
    <3>2. PICK f : Becomes(e, turn, f) /\ Follows(f, watcher, FullTurn(acted, next))
      BY <1>3, <1>4, <2>2, <3>1, TurnToldFollows
    <3> HIDE DEF turn
    <3>3. Becomes(c, <<m>> \o turn, f)
      BY <1>6, <2>3, <3>1, <3>2, BecomesBoth
    <3> QED BY <2>1, <3>2, <3>3
  <2>6. ai'.enemyActions = <<>> /\ ai'.pc = "off"
    BY <1>1, <1>7, <2>1
  <2> HIDE DEF turn
  <2> DEFINE ms == <<m>> \o turn
  <2>7. ms \in Seq(GoodMessage)
    BY <1>6, <2>3
  <2>8. inbox' = Told(Actions(ai.enemyActions) \o ms)
    <3>1. inbox' = Told(ms)
      BY <2>1
    <3> HIDE DEF ms
    <3> QED BY <1>8, <2>7, <3>1
  <2> HIDE DEF ms
  <2> QED BY <1>1, <1>4, <1>7, <2>1, <2>4, <2>5, <2>6, <2>7, <2>8, ToldFollows DEF ms
<1>11. CASE ~(acted.players[p].CurrentTurns > 0) /\ After(p) = {}
  <2>1. world' = acted /\ inbox' = Told(<<m>>) /\ ai' = AIStart
    BY <1>1, <1>11 DEF PassTurn
  <2>2. ai'.enemyActions = <<>> /\ ai'.i = ai'.ActiveEnemyID + 1
    BY <2>1 DEF AIStart, AIOff
  <2>3. inbox' = Told(Actions(ai.enemyActions) \o <<m>>)
    BY <1>6, <1>8, <2>1
  <2> QED BY <1>1, <1>4, <1>5, <1>6, <1>7, <2>1, <2>2, <2>3, ToldFollows
<1> QED BY <1>9, <1>10, <1>11

\* The server's list after the dead have left it: no longer than it was, and
\* the same if nobody is dead.
LEMMA KeptIs ==
    ASSUME GoodWorld(world), NEW kept \in InOrder(Kept)
    PROVE  LET list == [k \in DOMAIN kept |-> world.enemies[kept[k]]] IN
           /\ list \in Seq(GoodEnemy) /\ Len(list) \in Nat
           /\ Len(list) <= Len(world.enemies)
           /\ AllAlive(world) => list = world.enemies
<1> DEFINE list == [k \in DOMAIN kept |-> world.enemies[kept[k]]]
           n == Len(world.enemies)
<1>1. world.enemies \in Seq(GoodEnemy) /\ DOMAIN world.enemies = 1 .. n /\ n \in Nat
  BY DEF GoodWorld
<1>2. Kept \subseteq 1 .. n
  BY <1>1 DEF Kept
<1> HIDE DEF n
<1>3. IsFiniteSet(1 .. n) /\ Cardinality(1 .. n) = n
  <2>1. 1 \in Int /\ n \in Int /\ (1 > n <=> n = 0) /\ n - 1 + 1 = n
    BY <1>1
  <2> QED BY <1>1, <2>1, FS_Interval
<1>4. IsFiniteSet(Kept) /\ Cardinality(Kept) <= n
  BY <1>2, <1>3, FS_Subset
<1>5. kept \in Seq(Kept) /\ DOMAIN kept = 1 .. Cardinality(Kept) /\ Cardinality(Kept) \in Nat
  BY <1>4, InOrderOK
<1>6. \A k \in DOMAIN kept : list[k] \in GoodEnemy
  <2> TAKE k \in DOMAIN kept
  <2>1. kept[k] \in 1 .. n
    <3>1. kept[k] \in Kept
      BY <1>5
    <3> QED BY <1>2, <3>1
  <2> QED BY <1>1, <2>1
<1>7. list \in [1 .. Cardinality(Kept) -> GoodEnemy]
  BY <1>5, <1>6
<1>8. AllAlive(world) => list = world.enemies
  <2> SUFFICES ASSUME AllAlive(world) PROVE list = world.enemies
    OBVIOUS
  <2>1. Kept = 1 .. n
    BY <1>1 DEF AllAlive, Kept
  <2>2. kept = [k \in 1 .. n |-> k]
    BY <1>1, <2>1, InOrderOne
  <2>3. list = [k \in 1 .. n |-> world.enemies[k]]
    BY <2>2
  <2> QED BY <1>1, <2>3
<1> HIDE DEF list
<1>9. list \in Seq(GoodEnemy) /\ Len(list) = Cardinality(Kept)
  BY <1>5, <1>7
<1> QED BY <1>4, <1>5, <1>8, <1>9 DEF list, n

\* At the end of the enemies' turn all that they did is told at once, the
\* dead leave the server's list, and the first player has the turn.
LEMMA EndAITurnFollows ==
    ASSUME IInv, FInv, IInv', EndAITurn
    PROVE  FInv'
<1> DEFINE next == First(DOMAIN world.players)
           turn == TurnTold(next)
<1>1. /\ ai.pc = "enemy" /\ inbox' = Told(Actions(ai.enemyActions) \o turn) /\ ai' = AIOff
      /\ UNCHANGED <<watcher, connected, client>>
  BY DEF EndAITurn, FirstPlayerAgain, clientVars, Actions
<1>2. PICK kept \in InOrder(Kept) :
            world' = FullTurn([world EXCEPT !.enemies =
                                [k \in DOMAIN kept |-> world.enemies[kept[k]]]], next)
  BY DEF EndAITurn, FirstPlayerAgain
<1> DEFINE list == [k \in DOMAIN kept |-> world.enemies[kept[k]]]
           left == [players |-> world.players, enemies |-> list]
<1>3. GoodWorld(world) /\ watcher \in Players
  BY DEF IInv
<1>4. next \in DOMAIN world.players
  <2>1. DOMAIN world.players \in SUBSET Nat /\ DOMAIN world.players # {}
    BY <1>1, <1>3, PlayersFinite DEF IInv, GoodAI
  <2> QED BY <2>1, FirstOK
<1>5. turn \in Seq(GoodMessage)
  <2>1. next \in Players
    BY <1>3, <1>4 DEF GoodWorld
  <2> QED BY <2>1, TurnToldOK
<1> HIDE DEF next
<1>6. /\ list \in Seq(GoodEnemy) /\ Len(list) \in Nat /\ Len(list) <= Len(world.enemies)
      /\ AllAlive(world) => list = world.enemies
  BY <1>3, KeptIs
<1>7. world' = FullTurn([world EXCEPT !.enemies = list], next)
  BY <1>2
<1> HIDE DEF list
<1>8. world' = FullTurn(left, next) /\ GoodWorld(left) /\ left.players = world.players
  <2>1. [world EXCEPT !.enemies = list] = left
    BY <1>3 DEF GoodWorld
  <2>2. GoodWorld(left) /\ left.players = world.players
    BY <1>3, <1>6 DEF GoodWorld
  <2> HIDE DEF left
  <2> QED BY <1>7, <2>1, <2>2
<1>9. ASSUME NEW d, Follows(d, watcher, world)
      PROVE  \E e : Becomes(d, turn, e) /\ Follows(e, watcher, world')
  <2>1. Follows(d, watcher, left)
    BY <1>3, <1>6, <1>9, FewerFollows
  <2> HIDE DEF left
  <2> QED BY <1>3, <1>4, <1>8, <2>1, TurnToldFollows
<1>10. ~connected => watcher \notin DOMAIN world'.players
  <2>1. DOMAIN world'.players = DOMAIN world.players
    <3> HIDE DEF left
    <3> QED BY <1>8, FullTurnOK
  <2> QED BY <2>1 DEF FInv
<1>11. ai'.enemyActions = <<>> /\ ai'.pc = "off"
  BY <1>1 DEF AIOff
<1> HIDE DEF turn, left
<1> QED BY <1>1, <1>5, <1>9, <1>10, <1>11, ToldFollows

LEMMA NextFollows == IInv /\ FInv /\ [Next]_vars => FInv'
<1> SUFFICES ASSUME IInv, FInv, [Next]_vars PROVE FInv'
  OBVIOUS
<1>0. IInv'
  BY NextKeeps
<1>1. CASE UNCHANGED vars
  <2>1. UNCHANGED <<world, ai, watcher, connected, client, inbox>>
    BY <1>1 DEF vars, serverVars, clientVars
  <2>2. Backlog' = Backlog
    BY <2>1 DEF Backlog
  <2> QED BY <2>1, <2>2 DEF FInv
<1>2. CASE Connect
  BY <1>2, ConnectFollows
<1>3. ASSUME NEW p \in Players, NEW site \in SpawnSites, NEW items \in StartItems,
             Register(p, site, items)
      PROVE  FInv'
  BY <1>0, <1>3, RegisterFollows
<1>4. ASSUME NEW p \in Players, NEW d \in Steps, ApproveAction(p, d)
      PROVE  FInv'
  BY <1>0, <1>4, ApproveFollows
<1>5. ASSUME NEW p \in Players, NEW d \in Steps, AbortAction(p, d)
      PROVE  FInv'
  BY <1>1, <1>5 DEF AbortAction
<1>6. CASE SkipDeadEnemy
  BY <1>6, SkipDeadEnemyFollows
<1>7. CASE ChooseTarget
  BY <1>7, ChooseTargetFollows
<1>8. CASE Move
  BY <1>8, MoveFollows
<1>9. CASE GoNowhere
  BY <1>1, <1>9 DEF GoNowhere
<1>10. CASE BaseAttack
  BY <1>10, BaseAttackFollows
<1>11. CASE NextEnemy
  BY <1>11, NextEnemyFollows
<1>12. CASE EndAITurn
  BY <1>0, <1>12, EndAITurnFollows
<1>13. CASE Handle
  BY <1>0, <1>13, HandleFollows
<1>14. CASE Over
  BY <1>1, <1>14 DEF Over
<1> QED BY <1>1, <1>2, <1>3, <1>4, <1>5, <1>6, <1>7, <1>8, <1>9, <1>10, <1>11, <1>12, <1>13,
           <1>14 DEF Next, AITurn

\* However far behind the watcher is, and whatever the others and the enemies
\* do in the meantime, the client it will be once it has handled what is on
\* its way follows the world.
THEOREM FollowsAlways == Spec => [](IInv /\ FInv)
<1>1. Init => IInv /\ FInv
  BY InitOK, InitFollows
<1>2. (IInv /\ FInv) /\ [Next]_vars => (IInv /\ FInv)'
  BY NextKeeps, NextFollows
<1> QED BY <1>1, <1>2, PTL DEF Spec

-----------------------------------------------------------------------------
(* What the copy is good for.                                              *)

\* Once its welcome is handled, no message makes vector::at or
\* unordered_map::at throw in the client (GameClient.cpp): every enemy and
\* every player it is told of is in its copy.
THEOREM IDsAlwaysKnown == Spec => []IDsKnown
<1>1. IInv /\ FInv => IDsKnown
  <2> SUFFICES ASSUME IInv, FInv, client.fault = "at" PROVE client.PlayerID = NoPlayer
    BY DEF IDsKnown
  <2>1. Backlog \in Seq(GoodMessage)
    BY BacklogIs
  <2>2. PICK d : Becomes(client, Backlog, d) /\ Follows(d, watcher, world)
    BY DEF FInv, Follow
  <2>3. d = client
    BY <2>1, <2>2, BecomesDead
  <2> QED BY <2>2, <2>3 DEF Follows
<1> QED BY <1>1, FollowsAlways, PTL

\* The client CaughtUp describes, if it lives and has been welcomed.
LEMMA CaughtUpFollows ==
    ASSUME IInv, FInv, InTheGame(CaughtUp)
    PROVE  Plays(CaughtUp) /\ Familiar(CaughtUp, watcher, world)
<1>1. Backlog \in Seq(GoodMessage) /\ GoodClient(client)
  BY BacklogIs DEF IInv
<1>2. PICK d : Becomes(client, Backlog, d) /\ Follows(d, watcher, world)
  BY DEF FInv, Follow
<1>3. CaughtUp.fault = "none" /\ CaughtUp.PlayerID # NoPlayer
  BY DEF InTheGame
<1>4. CaughtUp = d
  BY <1>1, <1>2, <1>3, CaughtUpLives
<1> QED BY <1>2, <1>3, <1>4 DEF Follows, Plays

\* Every client that plays has every player where the server has it, though
\* no message tells it where the others are (GameClient.cpp applies their
\* actions), and counts its own actions as the server does.
THEOREM PlayersAlwaysFollow == Spec => []PlayersFollow
<1>1. IInv /\ FInv => PlayersFollow
  <2> SUFFICES ASSUME IInv, FInv, InTheGame(CaughtUp)
               PROVE  /\ \A p \in DOMAIN world.players :
                            /\ p \in DOMAIN CaughtUp.world.players
                            /\ CaughtUp.world.players[p].Coords = world.players[p].Coords
                      /\ CaughtUp.world.players[watcher].CurrentTurns
                            = world.players[watcher].CurrentTurns
    BY DEF PlayersFollow
  <2> QED BY CaughtUpFollows DEF Familiar
<1> QED BY <1>1, FollowsAlways, PTL

\* As long as no enemy has died in its copy, the client also has every enemy,
\* all hit points and all inventories as the server has them.
THEOREM WorldAlwaysFollows == Spec => []WorldFollows
<1> DEFINE uncounted(w) == [p \in DOMAIN w.players |-> [w.players[p] EXCEPT !.CurrentTurns = 0]]
<1>1. ASSUME IInv, FInv, InTheGame(CaughtUp), AllAlive(CaughtUp.world)
      PROVE  /\ CaughtUp.world.enemies = world.enemies
             /\ uncounted(CaughtUp.world) = uncounted(world)
  <2> DEFINE v == CaughtUp.world
  <2>1. LikeWorld(v, world)
    BY <1>1, CaughtUpFollows DEF Familiar
  <2>2. GoodWorld(v) /\ GoodWorld(world)
    <3>1. Backlog \in Seq(GoodMessage) /\ GoodClient(client) /\ CaughtUp.fault = "none"
      BY <1>1, BacklogIs DEF IInv, InTheGame
    <3>2. PICK d : Becomes(client, Backlog, d) /\ Follows(d, watcher, world)
      BY <1>1 DEF FInv, Follow
    <3>3. CaughtUp = d
      BY <3>1, <3>2, CaughtUpLives
    <3> QED BY <1>1, <3>2, <3>3 DEF Follows, GoodClient, IInv
  <2> HIDE DEF v
  <2>3. \A p \in DOMAIN world.players : [v.players[p] EXCEPT !.CurrentTurns = 0]
                                            = [world.players[p] EXCEPT !.CurrentTurns = 0]
    <3> TAKE p \in DOMAIN world.players
    <3>1. v.players[p] \in Player /\ world.players[p] \in Player
      BY <2>1, <2>2 DEF LikeWorld, GoodWorld, GoodPlayer
    <3>2. LikePlayer(v.players[p], world.players[p])
      BY <2>1 DEF LikeWorld
    <3> QED BY <3>1, <3>2 DEF LikePlayer, Player
  <2>4. DOMAIN v.players = DOMAIN world.players /\ v.enemies = world.enemies
    BY <2>1 DEF LikeWorld
  <2> QED BY <2>3, <2>4 DEF v
<1>2. IInv /\ FInv => WorldFollows
  BY <1>1 DEF WorldFollows, AllAlive
<1> QED BY <1>2, FollowsAlways, PTL
=============================================================================
