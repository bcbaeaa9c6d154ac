-------------------------------- MODULE Houses -------------------------------
(****************************************************************************)
(* Houses, their beds, and mail (house.cpp, beds.cpp, mailbox.cpp, the      *)
(* commands that buy and sell houses), on top of the accounts of Market:    *)
(* rent is taken from the same balance, and what is left in a house when it *)
(* changes hands goes to the inbox of the old owner, who may be offline and *)
(* is then loaded, given the things and saved.                              *)
(*                                                                          *)
(* The house to be sold is offered as a document in a trade; what becomes   *)
(* of trades is in Trade, here one is pending, called off or done.  Who     *)
(* edits a list of guests or goes to bed answers a window that was opened   *)
(* in an earlier task.                                                      *)
(*                                                                          *)
(* Left out: subowners and doors, which have lists like that of the guests; *)
(* what a house costs, which is paid in coins; players that may edit every  *)
(* house; how houses are saved with the map, so that nothing crashes where  *)
(* there are houses.                                                        *)
(****************************************************************************)
EXTENDS Market

CONSTANTS
  House,
  Rent,
  MaxWarnings,   \* 7
  Scenes         \* houses: those there are; beds: those of them with a bed; deeds: what is
                 \* done there, among "sell", "give", "rent", "store", "guests" and "mail".
                 \* Without houses there is the market

ASSUME HousesAssumption ==
  /\ {Rent, MaxWarnings} \subseteq Nat
  /\ None \notin House /\ None \notin [seller : Player, buyer : Player]
  /\ \A s \in Scenes : s.houses \subseteq House /\ s.beds \subseteq s.houses

VARIABLES
  scene,     \* one of Scenes
  house,     \* per house: owner, guests, goods on its tiles, warnings, sleeper of its bed
  sale,      \* per house: seller and buyer while transferItem is in a trade, or None
  inside,    \* per player: the house it is in, or None
  editing,   \* per player: editHouse
  bedside,   \* per player: the house of bedItem while the window is open
  tired,     \* the players whose kick after going to bed is scheduled
  due,       \* the houses that payHouses() still has before it
  hasty      \* those who bought a house while another was offered to them

hvars == <<scene, house, sale, inside, editing, bedside, tired, due, hasty>>
allvars == <<vars, hvars>>

Empty == [owner |-> None, guests |-> {}, goods |-> 0, warnings |-> 0, sleeper |-> None]

Nowhere == [p \in Player |-> None]

HousesInit ==
  /\ Init
  /\ scene \in Scenes
  /\ house = [h \in House |-> Empty]
  /\ sale = [h \in House |-> None]
  /\ inside = Nowhere /\ editing = Nowhere /\ bedside = Nowhere
  /\ tired = {} /\ due = {} /\ hasty = {}

----------------------------------------------------------------------------
(* Helpers *)

\* The dispatcher is between two tasks of a scene where this is done.
Done(deed) == Idle /\ deed \in scene.deeds

IsInvited(h, p) == p = house[h].owner \/ p \in house[h].guests

HousesOf(p) == {h \in scene.houses : house[h].owner = p}

\* Those who trade a house.
Sellers == {sale[h].seller : h \in {x \in House : sale[x] # None}}
Trading == Sellers \cup {sale[h].buyer : h \in {x \in House : sale[x] # None}}

SalesWithout(S) ==
  [h \in House |-> IF sale[h] # None /\ {sale[h].seller, sale[h].buyer} \cap S # {} THEN None ELSE sale[h]]

\* What handlers here change, as one record.
World == [mem |-> mem, db |-> db, house |-> house, inside |-> inside]

Becomes(w) ==
  /\ mem' = w.mem /\ db' = w.db /\ house' = w.house /\ inside' = w.inside

\* Who cannot be loaded and who cannot be saved.
Failures == {[load |-> {}, save |-> {}]} \cup {[load |-> {p}, save |-> {}] : p \in Player}
              \cup {[load |-> {}, save |-> {p}] : p \in Player}

\* If any, it counts as a fault.
Fails(f) ==
  CASE f.load # {} -> Fault("load")
    [] f.save # {} -> Fault("save")
    [] OTHER -> UNCHANGED faults

----------------------------------------------------------------------------
(* Owners *)

\* Mutant: the owner is forgotten before its things are sent.
TransferToNobody(w, h, f) == w

\* House::transferToDepot(): to the inbox of the owner.  One that cannot be loaded gets
\* nothing, and the things stay where they are.
TransferToDepot(w, h, f) ==
  LET p == w.house[h].owner
      n == w.house[h].goods
      moved == [w EXCEPT !.house[h].goods = 0]
  IN  CASE w.mem[p] # None -> [moved EXCEPT !.mem = Changed(@, p, 0, n)]
        [] w.mem[p] = None /\ p \in f.load -> w
        [] w.mem[p] = None /\ p \in f.save -> moved
        [] OTHER -> [moved EXCEPT !.db = Changed(@, p, 0, n)]

Everybody(w, h) == {p \in Player : w.inside[p] = h}

Out(w, S) == [w EXCEPT !.inside = [p \in Player |-> IF p \in S THEN None ELSE @[p]]]

\* House::setHouseOwner()
SetHouseOwner(w, h, p, f) ==
  LET cleared == [Out(TransferToDepot(w, h, f), Everybody(w, h)) EXCEPT
                    !.house[h].guests = {}, !.house[h].warnings = 0, !.house[h].sleeper = None]
  IN  IF w.house[h].owner = p THEN w
      ELSE [(IF w.house[h].owner = None THEN w ELSE cleared) EXCEPT !.house[h].owner = p]

BuyHouse(p, h) ==
  /\ Done("sell") /\ h \in scene.houses
  /\ p \in online /\ house[h].owner = None /\ HousesOf(p) = {}
  /\ Becomes(SetHouseOwner(World, h, p, [load |-> {}, save |-> {}]))
  /\ hasty' = IF p \in Trading \ Sellers THEN hasty \cup {p} ELSE hasty
  /\ UNCHANGED <<market, offers, aged, row, sweep, faults, scene, sale, editing, bedside, tired, due>>

\* Commands::sellHouse(): the partner must not own a house, now.
SellHouse(p, q) ==
  /\ Done("sell")
  /\ {p, q} \subseteq online /\ p # q /\ {p, q} \cap Trading = {} /\ HousesOf(q) = {}
  /\ \E h \in HousesOf(p) :
       /\ sale[h] = None
       /\ sale' = [sale EXCEPT ![h] = [seller |-> p, buyer |-> q]]
  /\ UNCHANGED <<vars, scene, house, inside, editing, bedside, tired, due, hasty>>

\* ON_TRADE_CANCEL: resetTransferItem().
SaleCancelled(h) ==
  /\ Idle /\ sale[h] # None
  /\ sale' = [sale EXCEPT ![h] = None]
  /\ UNCHANGED <<vars, scene, house, inside, editing, bedside, tired, due, hasty>>

\* ON_TRADE_TRANSFER: executeTransfer(), whoever owns the house by now.
ExecuteTransfer(h) ==
  /\ Idle /\ sale[h] # None
  /\ \E f \in Failures :
       /\ Fails(f)
       /\ Becomes(SetHouseOwner(World, h, sale[h].buyer, f))
  /\ sale' = [sale EXCEPT ![h] = None]
  /\ UNCHANGED <<market, offers, aged, row, sweep, scene, editing, bedside, tired, due, hasty>>

\* A game master, an administrator or a script gives the house to somebody or to nobody.
GiveHouse(h, p) ==
  /\ Done("give") /\ h \in scene.houses /\ p # house[h].owner
  /\ \E f \in Failures :
       /\ Fails(f)
       /\ Becomes(SetHouseOwner(World, h, p, f))
  /\ UNCHANGED <<market, offers, aged, row, sweep, scene, sale, editing, bedside, tired, due, hasty>>

----------------------------------------------------------------------------
(* Rent *)

\* An owner that is online pays, is warned, or loses the house.
PayOnline(w, h, f) ==
  LET p == w.house[h].owner
  IN  CASE w.mem[p].money >= Rent -> [w EXCEPT !.mem = Changed(@, p, -Rent, 0)]
        [] w.mem[p].money < Rent /\ w.house[h].warnings < MaxWarnings -> [w EXCEPT !.house[h].warnings = @ + 1]
        [] OTHER -> SetHouseOwner(w, h, None, f)

\* One that is offline is loaded, and saved afterwards as it was loaded: what it was sent
\* meanwhile, when it lost the house, is overwritten.
PayOffline(w, h, f) ==
  LET p == w.house[h].owner
      asLoaded == w.db[p]
  IN  CASE asLoaded.money >= Rent -> IF p \in f.save THEN w ELSE [w EXCEPT !.db = Changed(@, p, -Rent, 0)]
        [] asLoaded.money < Rent /\ w.house[h].warnings < MaxWarnings -> [w EXCEPT !.house[h].warnings = @ + 1]
        [] OTHER -> [SetHouseOwner(w, h, None, f) EXCEPT !.db[p] = asLoaded]

Pay(w, h, f) ==
  LET p == w.house[h].owner
  IN  CASE p = None -> w
        [] p # None /\ w.mem[p] # None -> PayOnline(w, h, f)
        [] p # None /\ w.mem[p] = None /\ p \in f.load -> w
        [] OTHER -> PayOffline(w, h, f)

\* Houses::payHouses(), when an administrator asks for it: the rent of every house is due,
\* and nothing else runs until it is paid.
PayHouses ==
  /\ Done("rent")
  /\ due' = scene.houses
  /\ UNCHANGED <<vars, scene, house, sale, inside, editing, bedside, tired, hasty>>

\* One turn of its loop.
PayHouse(h) ==
  /\ \E f \in Failures : Fails(f) /\ Becomes(Pay(World, h, f))
  /\ due' = due \ {h}
  /\ UNCHANGED <<market, offers, aged, row, sweep, scene, sale, editing, bedside, tired, hasty>>

\* Everybody has logged out and is saved.
Kicked(w) ==
  [w EXCEPT !.mem = Nowhere, !.inside = Nowhere,
            !.db = [p \in Player |-> IF w.mem[p] = None THEN w.db[p] ELSE w.mem[p]]]

\* GAME_STATE_CLOSED: all players are kicked, rent is paid, all is saved.
CloseServer ==
  /\ Done("rent")
  /\ Becomes(Kicked(World))
  /\ market' = {} /\ sale' = [h \in House |-> None]
  /\ editing' = Nowhere /\ bedside' = Nowhere /\ tired' = {}
  /\ due' = scene.houses
  /\ UNCHANGED <<offers, aged, row, sweep, faults, scene, hasty>>

----------------------------------------------------------------------------
(* In the house *)

EnterHouse(p, h) ==
  /\ Idle /\ h \in scene.houses
  /\ p \in online \ market /\ inside[p] = None /\ IsInvited(h, p)
  /\ inside' = [inside EXCEPT ![p] = h]
  /\ UNCHANGED <<vars, scene, house, sale, editing, bedside, tired, due, hasty>>

\* It walks out, or the owner throws it out.
LeaveHouse(p) ==
  /\ Idle /\ inside[p] # None
  /\ inside' = [inside EXCEPT ![p] = None]
  /\ UNCHANGED <<vars, scene, house, sale, editing, bedside, tired, due, hasty>>

\* Who is inside puts something down (n = 1) or takes something away (n = -1).
Store(p, n) ==
  LET h == inside[p]
  IN  /\ Done("store") /\ p \in online /\ h # None
      /\ n = 1 => IsInvited(h, p)
      /\ mem[p].goods >= n /\ house[h].goods >= -n
      /\ mem' = Changed(mem, p, 0, -n)
      /\ house' = [house EXCEPT ![h].goods = @ + n]
      /\ UNCHANGED <<db, market, offers, aged, row, sweep, faults, scene, sale, inside, editing,
                     bedside, tired, due, hasty>>

\* InstantSpell::HouseGuestList() opens a window.
HouseGuestList(p) ==
  /\ Done("guests") /\ p \in online /\ inside[p] # None
  /\ house[inside[p]].owner = p
  /\ editing' = [editing EXCEPT ![p] = inside[p]]
  /\ UNCHANGED <<vars, scene, house, sale, inside, bedside, tired, due, hasty>>

\* Mutant: nobody is thrown out.
SetGuestsOnly(w, h, S) == [w EXCEPT !.house[h].guests = S]

\* House::setAccessList(), which throws out who is not invited any more.
SetAccessList(w, h, S) ==
  Out([w EXCEPT !.house[h].guests = S], Everybody(w, h) \ (S \cup {w.house[h].owner}))

\* The answer to that window, wherever the player is and whosever the house is by now.
UpdateHouseWindow(p, S) ==
  /\ Idle /\ p \in online /\ editing[p] # None
  /\ Becomes(SetAccessList(World, editing[p], S))
  /\ editing' = [editing EXCEPT ![p] = None]
  /\ UNCHANGED <<market, offers, aged, row, sweep, faults, scene, sale, bedside, tired, due, hasty>>

----------------------------------------------------------------------------
(* Beds *)

\* Using a bed opens a window; the owner wakes up who sleeps there.
UseBed(p) ==
  LET h == inside[p]
  IN  /\ Idle /\ p \in online /\ h \in scene.beds
      /\ \/ /\ house[h].sleeper = None
            /\ bedside' = [bedside EXCEPT ![p] = h]
            /\ UNCHANGED house
         \/ /\ house[h].sleeper # None /\ p = house[h].owner
            /\ house' = [house EXCEPT ![h].sleeper = None]
            /\ UNCHANGED bedside
      /\ UNCHANGED <<vars, scene, sale, inside, editing, tired, due, hasty>>

\* BedItem::sleep(), once the window is answered, unless somebody else sleeps there: the
\* player is moved onto the bed and will be kicked.
Sleep(p) ==
  LET h == bedside[p]
  IN  /\ Idle /\ p \in online /\ h # None
      /\ \/ /\ house[h].sleeper = None
            /\ house' = [house EXCEPT ![h].sleeper = p]
            /\ inside' = [inside EXCEPT ![p] = h]
            /\ tired' = tired \cup {p}
         \/ UNCHANGED <<house, inside, tired>>
      /\ bedside' = [bedside EXCEPT ![p] = None]
      /\ UNCHANGED <<vars, scene, sale, editing, due, hasty>>

\* Player::onCreatureAppear() wakes the player up.
WokenUp(p) ==
  [h \in House |-> IF house[h].sleeper = p THEN [house[h] EXCEPT !.sleeper = None] ELSE house[h]]

----------------------------------------------------------------------------
(* Mail *)

\* Mailbox::sendItem(): a receiver that cannot be loaded gets nothing, and the sender
\* keeps it.
SendItem(p, q) ==
  LET sent == Changed(mem, p, 0, -1)
  IN  /\ Done("mail") /\ p \in online /\ p # q /\ mem[p].goods > 0
      /\ \/ /\ q \in online
            /\ mem' = Changed(sent, q, 0, 1)
            /\ UNCHANGED <<db, faults>>
         \/ /\ q \notin online
            /\ mem' = sent
            /\ DeliverOffline(q, 1)
      /\ UNCHANGED <<market, offers, aged, row, sweep, hvars>>

----------------------------------------------------------------------------
(* Together with the market *)

\* The player appears where it was, or at the entry of a house it may not be in.
HouseLogin(p) ==
  /\ Login(p)
  /\ house' = WokenUp(p)
  /\ \E h \in {None} \cup {x \in scene.houses : IsInvited(x, p)} : inside' = [inside EXCEPT ![p] = h]
  /\ UNCHANGED <<scene, sale, editing, bedside, tired, due, hasty>>

\* By itself, or kicked after it went to bed.
HouseLogout(p) ==
  /\ Logout(p)
  /\ sale' = SalesWithout({p})
  /\ inside' = [inside EXCEPT ![p] = None] /\ editing' = [editing EXCEPT ![p] = None]
  /\ bedside' = [bedside EXCEPT ![p] = None] /\ tired' = tired \ {p}
  /\ UNCHANGED <<scene, house, due, hasty>>

MarketOnly == scene.houses = {} /\ UNCHANGED hvars

\* The handlers, while no house is due to pay.
HouseTasks ==
  \/ Trades /\ MarketOnly
  \/ Crash /\ MarketOnly
  \/ SaveGameState /\ UNCHANGED hvars
  \/ PayHouses \/ CloseServer
  \/ \E p \in Player :
       \/ HouseLogin(p) \/ HouseLogout(p)
       \/ LeaveHouse(p) \/ HouseGuestList(p) \/ UseBed(p) \/ Sleep(p)
       \/ \E n \in {-1, 1} : Store(p, n)
       \/ \E S \in SUBSET Player : UpdateHouseWindow(p, S)
       \/ \E q \in Player : SellHouse(p, q) \/ SendItem(p, q)
       \/ \E h \in House : BuyHouse(p, h) \/ EnterHouse(p, h)
  \/ \E h \in House :
       \/ SaleCancelled(h) \/ ExecuteTransfer(h)
       \/ \E p \in Player \cup {None} : GiveHouse(h, p)

HousesNext ==
  \/ due = {} /\ HouseTasks
  \/ \E h \in due : PayHouse(h)

HousesSpec == HousesInit /\ [][HousesNext]_allvars

----------------------------------------------------------------------------
(* Properties *)

HousesTypeOK ==
  /\ scene \in Scenes /\ tired \cup hasty \subseteq Player /\ due \subseteq scene.houses
  /\ house \in [House -> [owner : Player \cup {None}, guests : SUBSET Player, goods : Nat,
                          warnings : 0..MaxWarnings, sleeper : Player \cup {None}]]
  /\ sale \in [House -> [seller : Player, buyer : Player] \cup {None}]
  /\ {inside, editing, bedside} \subseteq [Player -> House \cup {None}]

\* Nobody who is offline trades, edits, or is about to be kicked.
OnlyWhoIsOnline ==
  /\ Trading \cup tired \subseteq online
  /\ \A p \in Player \ online : {inside[p], editing[p], bedside[p]} = {None}

\* Who is in a house is invited, but who went to bed by a window that was opened when it
\* still was, until it is kicked.
InsideIsInvited ==
  \A p \in Player : inside[p] # None => IsInvited(inside[p], p) \/ p \in tired

\* Who sleeps has left the game, or will in a moment.
SleepersAreAway ==
  \A h \in House : house[h].sleeper \notin online \ tired

\* Nobody owns two houses but who bought one while another was offered to it, or was given
\* one.
OneHouseEach ==
  "give" \notin scene.deeds =>
    \A p \in Player \ hasty : Cardinality(HousesOf(p)) <= 1

\* Players, houses and beds agree (house.cpp:63, house.cpp:191, beds.cpp:155), and so do
\* the accounts and offers of the market.
HousesInv ==
  /\ Inv
  /\ HousesTypeOK
  /\ OnlyWhoIsOnline
  /\ InsideIsInvited
  /\ SleepersAreAway
  /\ OneHouseEach

\* What is in a house stays there, and is not left to a new owner.
GoodsStay ==
  \A h \in House :
    /\ house'[h].goods = house[h].goods
    /\ house[h].owner \notin {None, house'[h].owner} => house[h].goods = 0

\* Who is in a house puts something there or takes it.
StoredSomething ==
  \E p \in online : \E h \in {inside[p]} \ {None}, n \in {-1, 1} :
    /\ \A x \in House : house'[x].goods = house[x].goods + (IF x = h THEN n ELSE 0)
    /\ \A q \in Player : Worth(q)' = Gets(Worth(q), 0, IF q = p THEN -n ELSE 0)

Sent ==
  \E p \in online : \E q \in Player \ {p} :
    \A r \in Player : Worth(r)' = Gets(Worth(r), 0, CASE r = p -> -1 [] r = q -> 1 [] OTHER -> 0)

\* Whose owner is put out for the rent while offline (house.cpp:951).
Evicted(h) ==
  /\ h \in due /\ house[h].owner \notin online'
  /\ Has(house[h].owner).money < Rent /\ house[h].warnings = MaxWarnings

\* The owner of a house pays its rent when that is due and it can, or loses the house and
\* gets what was in it; but one that is evicted may lose that too.
Settled ==
  \E h \in scene.houses :
    LET p == house[h].owner
        lost == p # None /\ house'[h].owner # p
        pays == p # None /\ h \in due /\ Has(p).money >= Rent
        sent == {IF lost THEN house[h].goods ELSE 0} \cup (IF lost /\ Evicted(h) THEN {0} ELSE {})
    IN  /\ \E n \in sent : \A q \in Player : Worth(q)' =
             IF q = p THEN Gets(Worth(q), IF pays THEN -Rent ELSE 0, n) ELSE Worth(q)
        /\ \A x \in House : house'[x].goods = IF x = h /\ lost THEN 0 ELSE house[x].goods

\* As long as nothing crashes and the database loads and saves, money and goods only
\* change hands at the price of an offer, by mail, or through a house: counting what is in
\* memory, in the database, in offers and in houses, nobody else gains or loses anything
\* (game.cpp 5588-6114, house.cpp:63, house.cpp:840, mailbox.cpp:103).
FairDealing ==
  [][faults' = {} =>
      \/ GoodsStay /\ (NobodyGains \/ FeeIsTaken \/ Exchanged \/ Sent)
      \/ StoredSomething
      \/ Settled]_allvars

\* The rent of p's house, in the step that takes it.
RentDue(p) == IF \E h \in due \ due' : house[h].owner = p THEN Rent ELSE 0

\* A player that is offline loses nothing, wherever the server crashes and whomever it
\* cannot load: its money and goods, in the database and in its offers, only fall by what
\* an offer of its own exchanges them for, and by the rent.  (A save that fails unnoticed
\* does lose goods: DeliverOffline.)
OfflineKeepsItsWorth ==
  [][\A p \in Player \ (online \cup online') : "save" \notin faults' =>
      \/ /\ Worth(p)'.goods >= Worth(p).goods
         /\ Worth(p)'.money >= Worth(p).money - RentDue(p)
      \/ ItsOffers(p)]_allvars
=============================================================================
