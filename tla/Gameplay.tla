------------------------------- MODULE Gameplay -------------------------------
(***************************************************************************)
(* A game: the world CustomServer keeps and changes (GameServer.cpp), and  *)
(* the copy one client, the watcher, keeps by running the same rules on    *)
(* the actions it is told of (GameClient.cpp).                             *)
(*                                                                         *)
(* Turns are GameServer's subject, with connections that close; here they  *)
(* stay open, and what matters is what each handler does to the world.     *)
(* The game thread runs one handler to its end before the next, except     *)
(* that MakeAITurn is taken one pass of its loops at a time, because it    *)
(* may never end.  A player presses keys whenever it likes, so the server  *)
(* may find any move of any player in its queue, and that queue need not   *)
(* be kept.  The watcher's queue is kept: it handles one message per       *)
(* UpdatePlayer and falls behind.                                          *)
(*                                                                         *)
(* PlayersList iterates in the order of the ids; the watcher may be any    *)
(* player and they may register in any order.                              *)
(***************************************************************************)
EXTENDS GameWorld, FiniteSets

CONSTANTS
    BaseTurnActions, PlayerHP,  \* what a player starts with (4 and 45)
    SpawnSites,   \* <<x, y>> where a player may appear
    StartItems,   \* lists of items a player may get
    EnemySites,   \* <<x, y>> where an enemy may appear
    MaxEnemies,   \* enemies at the start (24)
    MaxLag,       \* bound: messages waiting for the watcher
    MaxRounds     \* bound: turns of the enemies

ASSUME TurnsAssumption == BaseTurnActions \in 1 .. 15 /\ PlayerHP \in Nat
\* rand() % Width - 2 + 1, and likewise for the height.
ASSUME SpawnAssumption ==
    SpawnSites \subseteq (-1 .. Width - 2) \X (-1 .. Height - 2)
\* rand() % 25 + 1 on a map of 40 by 40.
ASSUME EnemyAssumption ==
    EnemySites \subseteq (1 .. Width - 2) \X (1 .. Height - 2) /\ MaxEnemies \in Nat
ASSUME ItemsAssumption ==
    \A items \in StartItems : items \in Seq(DOMAIN ItemTable) /\ Len(items) <= 4
ASSUME FiniteAssumption == IsFiniteSet(Players)
ASSUME BoundAssumption == MaxLag \in Nat /\ MaxRounds \in Nat

NoPlayer == 0

VARIABLES
    world,            \* the server's gameWorld
    CurrentPlayerID,
    ai,               \* the locals of MakeAITurn
    watcher,          \* the client whose copy is kept
    connected,        \* is it connected?
    inbox,            \* messages on their way to it and in its queue
    client,           \* its gameWorld, its PlayerID, and how it died
    rounds            \* turns the enemies have had

serverVars == <<world, CurrentPlayerID, ai, rounds>>
clientVars == <<watcher, connected, client>>
vars == <<serverVars, clientVars, inbox>>

-----------------------------------------------------------------------------
(* Messages.  Left out are those that neither change a client's copy nor    *)
(* depend on it: text, the map (never changed) and aborted actions.        *)
PlayerAction == [ActionType : PlayerActionTypes, PlayerID : Players, ActionInfo : Vec]
EnemyAction == [actionType : EnemyActionTypes, EnemyID : Nat, ActionInfo : Vec]

Message ==
    [id : {"ClientRegisterFromServer", "ClientAddPlayer"},
     body : [ID : Players, Player : Player]]
    \cup [id : {"ClientInitEnemy"}, body : Enemy]
    \cup [id : {"GamePlayerTurn"}, body : {NoPlayer}]
    \cup [id : {"GameNextPlayerTurn"}, body : Players]
    \cup [id : {"GamePlayerActionValidated"}, body : PlayerAction]
    \cup [id : {"GameAITurnAction"}, body : EnemyAction]

Msg(id, body) == [id |-> id, body |-> body]
PlayerMsg(id, p, player) == Msg(id, [ID |-> p, Player |-> player])

Told(messages) == IF connected /\ client.fault = "none" THEN inbox \o messages ELSE inbox
ToWatcher(p, messages) == IF p = watcher THEN messages ELSE <<>>

\* When the turn has passed to p, it is told so, and then everybody is.
TurnTold(p) ==
    ToWatcher(p, <<Msg("GamePlayerTurn", NoPlayer)>>) \o <<Msg("GameNextPlayerTurn", p)>>

EmptyWorld == [players |-> [p \in {} |-> p], enemies |-> <<>>]

\* unordered_map::insert_or_assign
Assign(w, p, player) ==
    [w EXCEPT !.players = [q \in DOMAIN @ \cup {p} |-> IF q = p THEN player ELSE @[q]]]

-----------------------------------------------------------------------------
AIOff == [pc |-> "off", i |-> 0, ActiveEnemyID |-> 0, LeftedAction |-> 0,
          TargetCoords |-> CoordVec(0, 0, 0), EnemyListDirt |-> FALSE,
          enemyActions |-> <<>>]
AIStart == [AIOff EXCEPT !.pc = "enemy", !.i = 1]

\* GenerateEnemies
FirstEnemies ==
    UNION {[1 .. n -> {NewEnemy(type, CoordVec(c[1], c[2], 0)) :
                        type \in DOMAIN EnemiesTable, c \in EnemySites}] :
           n \in 0 .. MaxEnemies}

Init ==
    /\ \E enemies \in FirstEnemies : world = [EmptyWorld EXCEPT !.enemies = enemies]
    /\ CurrentPlayerID = NoPlayer
    /\ ai = AIOff
    /\ watcher \in Players /\ connected = FALSE
    /\ inbox = <<>>
    /\ client = [world |-> EmptyWorld, PlayerID |-> NoPlayer, fault |-> "none"]
    /\ rounds = 0

-----------------------------------------------------------------------------
(* ClientRegisterOnServer.                                                 *)

\* ClientOnRegister.  Its loops over enemies and players mean to look for a
\* free place, but their `continue` is their own: the first place is taken.
NewPlayer(site, items) ==
    [HP |-> PlayerHP, EquipedItemID |-> 0, Inventory |-> AddItems(items),
     Coords |-> CoordVec(site[1], site[2], 0),
     MaxTurns |-> BaseTurnActions, CurrentTurns |-> BaseTurnActions]

\* The elements of a finite set of numbers, in their order.
InOrder(S) == {f \in [1 .. Cardinality(S) -> S] :
                 \A i, j \in 1 .. Cardinality(S) : i < j => f[i] < f[j]}

\* What a client is sent when it registers: itself, the enemies, the others.
WelcomeWithoutEnemies(w, p, others) ==
    <<PlayerMsg("ClientRegisterFromServer", p, w.players[p])>>
    \o [i \in DOMAIN others |->
            PlayerMsg("ClientAddPlayer", others[i], w.players[others[i]])]

Welcome(w, p, others) ==
    <<PlayerMsg("ClientRegisterFromServer", p, w.players[p])>>
    \o [i \in DOMAIN w.enemies |-> Msg("ClientInitEnemy", w.enemies[i])]
    \o [i \in DOMAIN others |->
            PlayerMsg("ClientAddPlayer", others[i], w.players[others[i]])]

\* The part of ChooseNextPlayerForTurn that gives p the turn.
FullTurn(w, p) ==
    [w EXCEPT !.players[p] = SetCurrentTurnActions(@, @.MaxTurns)]

Idle == ai.pc = "off" /\ Len(inbox) <= MaxLag

Connect ==
    /\ ~connected
    /\ connected' = TRUE
    /\ UNCHANGED <<serverVars, watcher, client, inbox>>

Register(p, site, items) ==
    LET joined == Assign(world, p, NewPlayer(site, items)) IN
    /\ Idle /\ p \notin DOMAIN world.players
    /\ p = watcher => connected
    /\ world' = IF CurrentPlayerID = NoPlayer THEN FullTurn(joined, p) ELSE joined
    /\ CurrentPlayerID' = IF CurrentPlayerID = NoPlayer THEN p ELSE CurrentPlayerID
    /\ \E others \in InOrder(DOMAIN world.players) :
        inbox' = Told((IF p = watcher THEN Welcome(joined, p, others)
                       ELSE <<PlayerMsg("ClientAddPlayer", p, joined.players[p])>>)
                      \o (IF CurrentPlayerID = NoPlayer
                          THEN ToWatcher(p, <<Msg("GamePlayerTurn", NoPlayer)>>) ELSE <<>>))
    /\ UNCHANGED <<ai, rounds, clientVars>>

-----------------------------------------------------------------------------
(* ServerGamePlayerActionApprove.  A CustomClient only ever asks for moves *)
(* of one step, and only knows its PlayerID once it handled its welcome.   *)
MoveBy(p, d) == [ActionType |-> "Move", PlayerID |-> p, ActionInfo |-> d]

MayAsk(p) == p \in DOMAIN world.players /\ (p = watcher => client.PlayerID = p)

Approved(p, d) ==
    /\ p = CurrentPlayerID
    /\ world.players[p].CurrentTurns > 0
    /\ CheckPlayerAction(world, MoveBy(p, d))

After(p) == {q \in DOMAIN world.players : q > p}
First(S) == CHOOSE p \in S : \A q \in S : p <= q

\* The turn goes on, or to the next player, or to the enemies.
PassTurn(p, acted, messages) ==
    IF acted.players[p].CurrentTurns > 0
    THEN /\ world' = acted /\ inbox' = Told(messages)
         /\ UNCHANGED <<CurrentPlayerID, ai>>
    ELSE IF After(p) # {}
    THEN /\ CurrentPlayerID' = First(After(p))
         /\ world' = FullTurn(acted, CurrentPlayerID')
         /\ inbox' = Told(messages \o TurnTold(CurrentPlayerID'))
         /\ UNCHANGED ai
    ELSE /\ world' = acted /\ inbox' = Told(messages)
         /\ ai' = AIStart
         /\ UNCHANGED CurrentPlayerID

ApproveActionToOthers(p, d) ==
    /\ Idle /\ rounds < MaxRounds /\ MayAsk(p) /\ Approved(p, d)
    /\ PassTurn(p, MakeApprovedAction(world, MoveBy(p, d)),
                IF p = watcher THEN <<>> ELSE <<Msg("GamePlayerActionValidated", MoveBy(p, d))>>)
    /\ UNCHANGED <<rounds, clientVars>>

ApproveAction(p, d) ==
    /\ Idle /\ rounds < MaxRounds /\ MayAsk(p) /\ Approved(p, d)
    /\ PassTurn(p, MakeApprovedAction(world, MoveBy(p, d)),
                <<Msg("GamePlayerActionValidated", MoveBy(p, d))>>)
    /\ UNCHANGED <<rounds, clientVars>>

AbortAction(p, d) ==
    /\ Idle /\ MayAsk(p) /\ ~Approved(p, d)
    /\ UNCHANGED vars

-----------------------------------------------------------------------------
(* MakeAITurn, one pass of a loop at a time.  There is always a player to  *)
(* go for: the enemies' turn begins when a player's ends.                  *)
AIAt(pc) == ai.pc = pc /\ UNCHANGED <<CurrentPlayerID, rounds, clientVars, inbox>>

\* The outer loop passes a dead enemy without counting it in ActiveEnemyID.
SkipDeadEnemyAgain ==
    /\ AIAt("enemy") /\ ai.i \in DOMAIN world.enemies /\ ~Alive(world.enemies[ai.i])
    /\ ai' = [ai EXCEPT !.EnemyListDirt = TRUE]
    /\ UNCHANGED world

SkipDeadEnemy ==
    /\ AIAt("enemy") /\ ai.i \in DOMAIN world.enemies /\ ~Alive(world.enemies[ai.i])
    /\ ai' = [ai EXCEPT !.i = @ + 1, !.EnemyListDirt = TRUE]
    /\ UNCHANGED world

ChooseTarget ==
    /\ AIAt("enemy") /\ ai.i \in DOMAIN world.enemies /\ Alive(world.enemies[ai.i])
    /\ world' = [world EXCEPT !.enemies[ai.i] = Equip(@)]
    /\ \E target \in TargetCoords(world, ai.i) :
        ai' = [ai EXCEPT !.pc = "act", !.TargetCoords = target,
                         !.LeftedAction = world.enemies[ai.i].MaxActions]

\* Make the action, remember it for the clients, count it.
Act(type, info, target) ==
    LET action == [actionType |-> type, EnemyID |-> ai.ActiveEnemyID, ActionInfo |-> info] IN
    /\ world' = MakeEnemyAction(world, ai.i, action)
    /\ ai' = [ai EXCEPT !.TargetCoords = target, !.LeftedAction = @ - 1,
                        !.enemyActions = Append(@, action)]

Displacement == Minus(ai.TargetCoords, world.enemies[ai.i].Coords)
Far == Lenght(Displacement) > 1
Sign(n) == IF n > 0 THEN 1 ELSE -1

\* One step along x, or along y when x agrees.  The step is then taken from
\* all three coordinates of the target: -= with a number is a scalar's.
Move ==
    /\ AIAt("act") /\ ai.LeftedAction # 0 /\ Far
    /\ \/ /\ Displacement.x # 0
          /\ Act("EnemyMove", CoordVec(Sign(Displacement.x), 0, 0),
                 MinusScalar(ai.TargetCoords, Sign(Displacement.x)))
       \/ /\ Displacement.x = 0 /\ Displacement.y # 0
          /\ Act("EnemyMove", CoordVec(0, Sign(Displacement.y), 0),
                 MinusScalar(ai.TargetCoords, Sign(Displacement.y)))

\* Only z is left to go: nothing changes and the loop goes round again.
OnlyZLeft ==
    /\ ai.pc = "act" /\ ai.LeftedAction # 0 /\ Far
    /\ Displacement.x = 0 /\ Displacement.y = 0
GoNowhere == OnlyZLeft /\ UNCHANGED vars

BaseAttack ==
    /\ AIAt("act") /\ ai.LeftedAction # 0 /\ ~Far
    /\ Act("EnemyBaseAttack", CoordVec(Displacement.x, Displacement.y, 0), ai.TargetCoords)

NextEnemy ==
    /\ AIAt("act") /\ ai.LeftedAction = 0
    /\ ai' = [ai EXCEPT !.pc = "enemy", !.i = @ + 1, !.ActiveEnemyID = @ + 1]
    /\ UNCHANGED world

\* All actions go to the clients, dead enemies leave the server's list (the
\* clients keep them) if the loop came across one, and the first player gets
\* the turn.
Kept == {i \in DOMAIN world.enemies : ai.EnemyListDirt => Alive(world.enemies[i])}

FirstPlayerAgain(messages) ==
    /\ CurrentPlayerID' = First(DOMAIN world.players)
    /\ \E kept \in InOrder(Kept) :
        world' = FullTurn([world EXCEPT !.enemies = [k \in DOMAIN kept |-> @[kept[k]]]],
                          CurrentPlayerID')
    /\ inbox' = Told(messages \o TurnTold(CurrentPlayerID'))
    /\ ai' = AIOff
    /\ rounds' = rounds + 1
    /\ UNCHANGED clientVars

EndAITurnUntold ==
    /\ ai.pc = "enemy" /\ ai.i \notin DOMAIN world.enemies
    /\ FirstPlayerAgain(<<>>)

EndAITurn ==
    /\ ai.pc = "enemy" /\ ai.i \notin DOMAIN world.enemies
    /\ FirstPlayerAgain([k \in DOMAIN ai.enemyActions |->
                            Msg("GameAITurnAction", ai.enemyActions[k])])

-----------------------------------------------------------------------------
(* CustomClient: what a message does to its copy.  The assertion of line   *)
(* 252 is in the build (premake5.lua defines no NDEBUG), and unordered_map *)
(* and vector throw at an `at` without an element: either ends the process. *)
Known(c, p) == p \in DOMAIN c.world.players

Handled(c, m) ==
    CASE m.id = "ClientRegisterFromServer" ->
            [c EXCEPT !.PlayerID = m.body.ID, !.world = Assign(@, m.body.ID, m.body.Player)]
      [] m.id = "ClientAddPlayer" ->
            [c EXCEPT !.world = Assign(@, m.body.ID, m.body.Player)]
      [] m.id = "ClientInitEnemy" ->
            [c EXCEPT !.world.enemies = Append(@, m.body)]
      [] m.id = "GamePlayerTurn" ->
            [c EXCEPT !.world = FullTurn(@, c.PlayerID)]
      [] m.id = "GameNextPlayerTurn" ->
            [c EXCEPT !.fault = IF m.body # c.PlayerID /\ ~Known(c, m.body) THEN "at" ELSE @]
      [] m.id = "GamePlayerActionValidated" ->
            IF ~Known(c, m.body.PlayerID) THEN c   \* "Missed Player action!"
            ELSE [c EXCEPT !.world = MakeApprovedAction(@, m.body),
                           !.fault = IF c.world.players[m.body.PlayerID].CurrentTurns = 0
                                     THEN "assert" ELSE @]
      [] m.id = "GameAITurnAction" ->
            IF m.body.EnemyID + 1 \notin DOMAIN c.world.enemies
            THEN [c EXCEPT !.fault = "at"]
            ELSE [c EXCEPT !.world = MakeEnemyAction(@, m.body.EnemyID + 1, m.body)]

Handle ==
    /\ client.fault = "none" /\ inbox # <<>>
    /\ client' = Handled(client, Head(inbox))
    /\ inbox' = IF client'.fault = "none" THEN Tail(inbox) ELSE <<>>
    /\ UNCHANGED <<serverVars, watcher, connected>>

\* The bound is reached: the players have had enough.
Over == rounds = MaxRounds /\ UNCHANGED vars

AITurn ==
    \/ SkipDeadEnemy \/ ChooseTarget \/ Move \/ GoNowhere \/ BaseAttack \/ NextEnemy
    \/ EndAITurn

Next ==
    \/ Connect
    \/ \E p \in Players, site \in SpawnSites, items \in StartItems : Register(p, site, items)
    \/ \E p \in Players, d \in Steps : ApproveAction(p, d)
    \/ \E p \in Players, d \in Steps : AbortAction(p, d)
    \/ AITurn
    \/ Handle
    \/ Over

Spec == Init /\ [][Next]_vars

\* The game thread never stops; nobody has to connect, register or press a
\* key, and no client has to read its messages.
FairSpec == Spec /\ WF_vars(AITurn)

-----------------------------------------------------------------------------
AIState == [pc : {"off", "enemy", "act"}, i : Nat, ActiveEnemyID : Nat, LeftedAction : 0 .. 3,
            TargetCoords : Vec, EnemyListDirt : BOOLEAN, enemyActions : Seq(EnemyAction)]

\* The variables hold what the program's own types allow.
TypeOK ==
    /\ IsWorld(world)
    /\ CurrentPlayerID \in DOMAIN world.players \cup {NoPlayer}
    /\ ai \in AIState
    /\ watcher \in Players /\ connected \in BOOLEAN
    /\ inbox \in Seq(Message)
    /\ client = [world |-> client.world, PlayerID |-> client.PlayerID, fault |-> client.fault]
    /\ IsWorld(client.world) /\ client.PlayerID \in Players \cup {NoPlayer}
    /\ client.fault \in {"none", "assert", "at"}
    /\ rounds \in Nat

-----------------------------------------------------------------------------
\* The tile CheckPlayerAction reads is one of the array's: its range test
\* lets x = Width and y = Height through, and StaticArray::operator[] asserts
\* the index.  Hills all around are what keeps players from getting there.
TileInBounds ==
    \A p \in DOMAIN world.players, d \in Steps :
        LET place == Plus(world.players[p].Coords, d) IN
        ~OffMap(place) => TileIndex(place.x, place.y) \in DOMAIN MapTiles

\* Storage[EquipedItemID] exists for every enemy and holds its weapon: taking
\* something else into the hand, perhaps InvalidID, never comes to pass.
EnemiesStayArmed ==
    \A i \in DOMAIN world.enemies :
        LET e == world.enemies[i] IN e.EquipedItemID \in Slots /\ ~Weapon(e).empty

\* quantity is unsigned: what a slot in use holds can be taken one more of.
AmmunitionLeft ==
    LET inUse(body) == \A s \in Slots : body.Inventory[s].empty \/ body.Inventory[s].quantity > 0
    IN  /\ \A p \in DOMAIN world.players : inUse(world.players[p])
        /\ \A i \in DOMAIN world.enemies : inUse(world.enemies[i])

\* The watcher's copy once it has handled all that is on its way to it, and
\* the actions of a turn the enemies are in the middle of.
Backlog == inbox \o [k \in DOMAIN ai.enemyActions |->
                        Msg("GameAITurnAction", ai.enemyActions[k])]
CaughtUp ==
    LET handled[k \in 0 .. Len(Backlog)] ==
            IF k = 0 THEN client ELSE Handled(handled[k - 1], Backlog[k])
    IN  handled[Len(Backlog)]
InTheGame(c) == c.fault = "none" /\ c.PlayerID # NoPlayer

\* A client that is not told of positions still knows them: it has every
\* player where the server has it, and counts its own actions the same way.
PlayersFollow ==
    LET theirs == CaughtUp IN
    InTheGame(theirs) =>
        /\ \A p \in DOMAIN world.players :
            /\ p \in DOMAIN theirs.world.players
            /\ theirs.world.players[p].Coords = world.players[p].Coords
        /\ theirs.world.players[watcher].CurrentTurns = world.players[watcher].CurrentTurns

\* As long as no enemy has died, it has the rest right too: enemies, health,
\* arrows.  A death ends that, because the server's ids then skip the dead.
WorldFollows ==
    LET theirs == CaughtUp
        uncounted(w) == [p \in DOMAIN w.players |-> [w.players[p] EXCEPT !.CurrentTurns = 0]]
    IN  InTheGame(theirs) /\ (\A i \in DOMAIN theirs.world.enemies :
                                Alive(theirs.world.enemies[i])) =>
            /\ theirs.world.enemies = world.enemies
            /\ uncounted(theirs.world) = uncounted(world)

\* Once the client is welcome, an enemy's action names one of its enemies, dead
\* ones in its list or not, and a turn that passes one of its players.  (Before,
\* while its user types a name, it has neither, and `at` throws.)
IDsKnown == client.fault = "at" => client.PlayerID = NoPlayer

\* The turn of a player that is dead, or that appeared where no move leads
\* onto the map, is for ever its turn: only actions end a turn.
Inside(c) == c.x \in 1 .. Width - 2 /\ c.y \in 1 .. Height - 2
Stuck(p) == \/ ~Alive(world.players[p])
            \/ \A d \in Steps : ~Inside(Plus(world.players[p].Coords, d))
HolderStuck == ai.pc = "off" /\ CurrentPlayerID # NoPlayer /\ Stuck(CurrentPlayerID)
StuckForEver ==
    [][HolderStuck => HolderStuck' /\ CurrentPlayerID' = CurrentPlayerID]_vars

\* The enemies' turn comes to its end, unless an enemy has only z left to go.
AITurnEnds == ai.pc # "off" ~> (ai.pc = "off" \/ OnlyZLeft)

\* "Z component, no actions for now as there are no levels" (GameServer.cpp:
\* 232-233): it is never needed.
ZNeverNeeded == ~OnlyZLeft

\* assert(TurnActions <= 16) holds in a client as well (spNetMETA.h:252).
TurnActionsFit == client.fault # "assert"
=============================================================================
