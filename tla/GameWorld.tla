------------------------------ MODULE GameWorld ------------------------------
(***************************************************************************)
(* The rules of the game (SpNetCommon/src/spNetMETA.h): what the structs   *)
(* Player, Enemy, Inventory and GameWorld hold and what their functions    *)
(* compute.  Server and clients run this code on their own copy of the     *)
(* world, so every operator takes a world and returns one.                 *)
(*                                                                         *)
(* Left out of the structs: names, Mods, an item's usage after it became a *)
(* quantity, the appearance of tiles, and the kinds of tile other than     *)
(* Hill, the only one the rules look at.  Coordinates are int16 in the     *)
(* code; no rule lets them come near its limits on a map of 40 by 40.      *)
(***************************************************************************)
EXTENDS Integers, Sequences

CONSTANTS
    Players,           \* ids of players
    Width, Height,     \* Map::Width and Map::Height
    MaxInventorySize,
    ZombieHP, BanditHP, BanditArrows,  \* of EnemiesTable
    PoisonedArrows     \* usage of the Poisoned Arrow in ItemTable

ASSUME MapAssumption == Width \in Nat /\ Height \in Nat /\ Width > 2 /\ Height > 2
ASSUME InventoryAssumption == MaxInventorySize \in Nat /\ MaxInventorySize > 1
ASSUME TableAssumption ==
    /\ ZombieHP \in Nat \ {0} /\ BanditHP \in Nat \ {0}
    /\ BanditArrows \in Nat \ {0} /\ PoisonedArrows \in Nat \ {0}
ASSUME PlayersAssumption == Players \subseteq Nat \ {0}

InvalidID == -1    \* 0xFFFFFFFF

-----------------------------------------------------------------------------
(* matharz::template_vec3<int16> *)
Vec == [x : Int, y : Int, z : Int]
CoordVec(x, y, z) == [x |-> x, y |-> y, z |-> z]
Plus(a, b) == CoordVec(a.x + b.x, a.y + b.y, a.z + b.z)
Minus(a, b) == CoordVec(a.x - b.x, a.y - b.y, a.z - b.z)
MinusScalar(a, k) == CoordVec(a.x - k, a.y - k, a.z - k)
SquareLength(a) == a.x * a.x + a.y * a.y + a.z * a.z

\* The root cast back to an integer.
Lenght(a) == CHOOSE n \in 0 .. SquareLength(a) :
                n * n <= SquareLength(a) /\ SquareLength(a) < (n + 1) * (n + 1)

-----------------------------------------------------------------------------
(* Map: CustomServer::GenerateMap fills MapTiles row by row; rand() % Hill *)
(* never gives Hill.                                                       *)
Border(width, height) ==
    width = 0 \/ width = Width - 1 \/ height = 0 \/ height = Height - 1

Cells == (0 .. Width - 1) \X (0 .. Height - 1)
TileIndex(width, height) == width + height * Width

MapTiles ==
    [i \in 0 .. Width * Height - 1 |->
        IF \E c \in Cells : i = TileIndex(c[1], c[2]) /\ Border(c[1], c[2])
        THEN "Hill" ELSE "Ground"]

-----------------------------------------------------------------------------
(* Items and Inventory *)
ItemTypes == {"None", "Arrow", "Bow", "Sword", "Apple"}
ItemSlot == [empty : BOOLEAN, type : ItemTypes, Power : Nat, quantity : Nat]
Slots == 0 .. MaxInventorySize - 1
Inventory == [Slots -> ItemSlot]

Item(type, usage, power) == [type |-> type, usage |-> usage, Power |-> power]
ItemTable == [KeijuSword    |-> Item("Sword", 100, 5),
              VillagerBow   |-> Item("Bow", 27, 1),
              Apple         |-> Item("Apple", 3, 1),
              JustArrow     |-> Item("Arrow", 1, 1),
              PoisonedArrow |-> Item("Arrow", PoisonedArrows, 3),
              IronSword     |-> Item("Sword", 27, 3)]

Slot(type, power, quantity) ==
    [empty |-> FALSE, type |-> type, Power |-> power, quantity |-> quantity]
EmptySlot == [empty |-> TRUE, type |-> "None", Power |-> 0, quantity |-> 0]

\* Weapons come one to a slot, of anything else usage is how many there are.
ItemToAdd(item) ==
    Slot(item.type, item.Power, IF item.type \in {"Sword", "Bow"} THEN 1 ELSE item.usage)

\* AddItem for each item of a list, into an inventory whose slots are all
\* empty: each goes to the first slot the ones before it left empty, and
\* what finds no empty slot is dropped.
AddItems(items) ==
    [s \in Slots |-> IF s < Len(items) THEN ItemToAdd(ItemTable[items[s + 1]])
                                       ELSE EmptySlot]

FindItemOfAnyType(inventory, type) ==
    LET found == {s \in Slots : ~inventory[s].empty}
    IN  IF found = {} THEN InvalidID ELSE CHOOSE s \in found : \A t \in found : s <= t

FindItem(inventory, type) ==
    LET found == {s \in Slots : ~inventory[s].empty /\ inventory[s].type = type}
    IN  IF found = {} THEN InvalidID ELSE CHOOSE s \in found : \A t \in found : s <= t

-----------------------------------------------------------------------------
(* Player and Enemy *)
Player == [HP : Nat, EquipedItemID : {0}, Inventory : Inventory, Coords : Vec,
           MaxTurns : 0 .. 15, CurrentTurns : 0 .. 15]   \* two 4-bit fields

Enemy == [faction : {0, 1}, HP : Nat, MaxActions : {2, 3},
          EquipedItemID : Slots \cup {InvalidID}, Inventory : Inventory, Coords : Vec]

EnemiesTable ==
    [Zombie |-> [faction |-> 0, HP |-> ZombieHP, MaxActions |-> 3,
                 Storage |-> <<Slot("Sword", 3, 1)>>],
     Bandit |-> [faction |-> 1, HP |-> BanditHP, MaxActions |-> 2,
                 Storage |-> <<Slot("Bow", 1, 1), Slot("Arrow", 1, BanditArrows)>>]]

NewEnemy(type, coords) ==
    LET e == EnemiesTable[type] IN
    [faction |-> e.faction, HP |-> e.HP, MaxActions |-> e.MaxActions,
     EquipedItemID |-> 0, Coords |-> coords,
     Inventory |-> [s \in Slots |-> IF s < Len(e.Storage) THEN e.Storage[s + 1]
                                                          ELSE EmptySlot]]

IsWorld(w) ==
    /\ w = [players |-> w.players, enemies |-> w.enemies]
    /\ DOMAIN w.players \subseteq Players /\ w.players \in [DOMAIN w.players -> Player]
    /\ w.enemies \in Seq(Enemy)

\* uint8 : 4, so that 0 - 1 is 15 once past the assertion of line 252.
SetCurrentTurnActions(player, n) == [player EXCEPT !.CurrentTurns = n % 16]

TakeDamageBelowZero(body, damage) == [body EXCEPT !.HP = @ - damage]

TakeDamage(body, damage) ==
    [body EXCEPT !.HP = IF damage >= @ THEN 0 ELSE @ - damage]

(* MakeAttack, written once for Player and once for Enemy in the code.  A   *)
(* bow spends an arrow whether or not anything stands at the target, and   *)
(* without an arrow it hits with damage 0.                                 *)
Weapon(body) == body.Inventory[body.EquipedItemID]
Arrow(body) == FindItem(body.Inventory, "Arrow")

AttackDamage(body) ==
    CASE Weapon(body).type = "Sword" -> Weapon(body).Power
      [] Weapon(body).type = "Bow" ->
            IF Arrow(body) = InvalidID THEN 0 ELSE body.Inventory[Arrow(body)].Power
      [] OTHER -> 1

Shoots(body) == Weapon(body).type = "Bow" /\ Arrow(body) # InvalidID
OneLess(slot) == [slot EXCEPT !.quantity = @ - 1, !.empty = (slot.quantity = 1)]

SpendKeepsSlot(body) ==
    IF Shoots(body) THEN [body EXCEPT !.Inventory[Arrow(body)].quantity = @ - 1] ELSE body
SpendArrow(body) ==
    IF Shoots(body) THEN [body EXCEPT !.Inventory[Arrow(body)] = OneLess(@)] ELSE body

-----------------------------------------------------------------------------
(* GameWorld: targets and attacks.  A target is who stands at a place: the *)
(* dead stand there too.                                                   *)
NoTarget == [playerIDs |-> {}, EnemyIDs |-> {}]

PlayerFindAttackTarget(w, id, direction) ==
    LET place == Plus(w.players[id].Coords, direction) IN
    [playerIDs |-> {p \in DOMAIN w.players : p # id /\ w.players[p].Coords = place},
     EnemyIDs |-> {i \in DOMAIN w.enemies : w.enemies[i].Coords = place}]

EnemyFindAttackTarget(w, id, direction) ==
    LET place == Plus(w.enemies[id].Coords, direction) IN
    [playerIDs |-> {p \in DOMAIN w.players : w.players[p].Coords = place},
     EnemyIDs |-> {i \in DOMAIN w.enemies :
                    /\ w.enemies[i].faction # w.enemies[id].faction
                    /\ w.enemies[i].Coords = place}]

Hurt(w, target, damage) ==
    [players |-> [p \in DOMAIN w.players |->
                    IF p \in target.playerIDs THEN TakeDamage(w.players[p], damage)
                                              ELSE w.players[p]],
     enemies |-> [i \in DOMAIN w.enemies |->
                    IF i \in target.EnemyIDs THEN TakeDamage(w.enemies[i], damage)
                                             ELSE w.enemies[i]]]

PlayerMakeAttack(w, id, target) ==
    LET body == w.players[id] IN
    IF Weapon(body).empty THEN w
    ELSE Hurt([w EXCEPT !.players[id] = SpendArrow(body)], target, AttackDamage(body))

EnemyMakeAttack(w, id, target) ==
    LET body == w.enemies[id] IN
    IF Weapon(body).empty THEN w
    ELSE Hurt([w EXCEPT !.enemies[id] = SpendArrow(body)], target, AttackDamage(body))

-----------------------------------------------------------------------------
(* Actions.  A player's action has an ActionType and an ActionInfo, its    *)
(* elements 1 to 3; a move falls through to the attack, which therefore    *)
(* hits one cell beyond the cell moved to.                                 *)
PlayerActionTypes == {"Move", "Attack"}
EnemyActionTypes == {"EnemyMove", "EnemyBaseAttack"}

Steps == {CoordVec(0, -1, 0), CoordVec(0, 1, 0), CoordVec(-1, 0, 0), CoordVec(1, 0, 0)}

Moved(w, action) ==
    IF action.ActionType = "Move"
    THEN [w EXCEPT !.players[action.PlayerID].Coords = Plus(@, action.ActionInfo)]
    ELSE w

MakeApprovedAction(w, action) ==
    LET moved == Moved(w, action)
        fought == PlayerMakeAttack(moved, action.PlayerID,
                        PlayerFindAttackTarget(moved, action.PlayerID, action.ActionInfo))
    IN  [fought EXCEPT !.players[action.PlayerID] =
            SetCurrentTurnActions(@, @.CurrentTurns - 1)]

\* The server acts on the enemy it has reached, a client on the one EnemyID
\* selects in its own list.
MakeEnemyAction(w, id, action) ==
    IF action.actionType = "EnemyMove"
    THEN [w EXCEPT !.enemies[id].Coords = Plus(@, action.ActionInfo)]
    ELSE EnemyMakeAttack(w, id, EnemyFindAttackTarget(w, id, action.ActionInfo))

-----------------------------------------------------------------------------
(* CustomServer::CheckPlayerAction.  > where >= was meant: the test lets   *)
(* one column and one row too many through.                                *)
OffMap(c) == c.x < 0 \/ c.x > Width \/ c.y < 0 \/ c.y > Height

CheckPlayerActionOnHills(w, action) ==
    /\ w.players[action.PlayerID].HP > 0
    /\ ~OffMap(Plus(w.players[action.PlayerID].Coords, action.ActionInfo))

CheckPlayerActionOfDead(w, action) ==
    LET place == Plus(w.players[action.PlayerID].Coords, action.ActionInfo) IN
    ~OffMap(place) /\ MapTiles[TileIndex(place.x, place.y)] # "Hill"

CheckPlayerAction(w, action) ==
    LET place == Plus(w.players[action.PlayerID].Coords, action.ActionInfo) IN
    /\ w.players[action.PlayerID].HP > 0
    /\ \/ /\ action.ActionType = "Attack"
          /\ PlayerFindAttackTarget(w, action.PlayerID, action.ActionInfo) # NoTarget
       \/ /\ action.ActionType = "Move"
          /\ ~OffMap(place)
          /\ MapTiles[TileIndex(place.x, place.y)] # "Hill"

-----------------------------------------------------------------------------
(* CustomServer::MakeAITurn: what an enemy takes into its hand and whom it *)
(* goes for.                                                               *)
Equip(body) ==
    IF body.EquipedItemID # InvalidID /\ ~Weapon(body).empty THEN body
    ELSE LET sword == FindItem(body.Inventory, "Sword")
             bow == FindItem(body.Inventory, "Bow")
         IN  [body EXCEPT !.EquipedItemID =
                IF sword # InvalidID THEN sword
                ELSE IF bow # InvalidID /\ Arrow(body) # InvalidID THEN bow
                ELSE InvalidID]

\* Any of the nearest players: which one a strict comparison keeps depends
\* on the order of the unordered_map.
NearestPlayers(w, from) ==
    LET far(p) == Lenght(Minus(w.players[p].Coords, from)) IN
    {p \in DOMAIN w.players : \A q \in DOMAIN w.players : far(p) <= far(q)}

\* The first of the nearest enemies of another faction.
NearestEnemies(w, id) ==
    LET far(i) == Lenght(Minus(w.enemies[i].Coords, w.enemies[id].Coords))
        others == {i \in DOMAIN w.enemies : w.enemies[i].faction # w.enemies[id].faction}
    IN  {i \in others : \A j \in others : far(i) < far(j) \/ (far(i) = far(j) /\ i <= j)}

\* The coordinates BestAttackCandidate may give to TargetCoords, none when
\* there is no candidate: the nearest player, unless none is within 5 and an
\* enemy of another faction is nearer still.
Sight == 5

TargetCoords(w, id) ==
    LET here == w.enemies[id].Coords
        players == {w.players[p].Coords : p \in NearestPlayers(w, here)}
        enemies == {w.enemies[i].Coords : i \in NearestEnemies(w, id)}
        far(c) == Lenght(Minus(c, here))
        nearer(e, P) == \A c \in P : far(e) < far(c)
    IN  IF (\E c \in players : far(c) <= Sight) \/ ~\E e \in enemies : nearer(e, players)
        THEN players ELSE enemies

Alive(body) == body.HP # 0
=============================================================================
