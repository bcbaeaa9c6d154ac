-------------------------------- MODULE Trade --------------------------------
(****************************************************************************)
(* Safe trade between two players (game.cpp playerRequestTrade() and so on, *)
(* the notifications of player.cpp that call a trade off).  A player offers *)
(* an item by asking another player for a trade; the other answers with an  *)
(* item of its own; both accept, and the items change hands.  An offered    *)
(* item stays where it is, perhaps on the ground or in a container on the   *)
(* ground where others can reach it: whatever happens to it, to what holds  *)
(* it or to what it holds calls the trade off, but for a new text.          *)
(*                                                                          *)
(* Every handler is one task and so one step.  The players are near each    *)
(* other and near the items; leaving is Move, which may call a trade off.   *)
(****************************************************************************)
EXTENDS Integers, FiniteSets

CONSTANTS
  Player, Item,
  Container,    \* the items that hold others
  Stackable,    \* the items that come in stacks
  Readable,     \* the items that have a text
  None          \* the NULL pointer

ASSUME TradeAssumption ==
  /\ IsFiniteSet(Container)
  /\ Container \subseteq Item /\ Stackable \subseteq Item /\ Readable \subseteq Item
  /\ Container \cap Stackable = {}
  /\ None \notin Player \cup Item

VARIABLES
  online,
  trade,        \* per player: tradeState, tradePartner, tradeItem
  tradeItems,   \* Game::tradeItems: whose offer an item is (None: not in the map)
  place,        \* per item: where it is
  version,      \* per item: changes with its count or its kind
  text,         \* per item: its text, with the writer and the date
  writeItem     \* per player: the item in whose text window it may write

writing == <<text, writeItem>>

vars == <<online, trade, tradeItems, place, version, writing>>

NoTrade == [state |-> "NONE", partner |-> None, item |-> None]

Ground == <<"ground", None>>
Gone == <<"gone", None>>

Init ==
  /\ online = Player
  /\ trade = [p \in Player |-> NoTrade]
  /\ tradeItems = [i \in Item |-> None]
  /\ place = [i \in Item |-> Ground]
  /\ version = [i \in Item |-> 0]
  /\ text = [i \in Item |-> 0]
  /\ writeItem = [p \in Player |-> None]

----------------------------------------------------------------------------
(* Where things are: <<"in", c>>, in an equipment slot or in the backpack of a *)
(* player, on the ground *)

\* The containers that hold i, directly or not: the least set that has with a thing
\* also what it is in.
Holders(i) ==
  {c \in Container :
     \A S \in SUBSET Container :
       (\A d \in Container : (\E j \in {i} \cup S : place[j] = <<"in", d>>) => d \in S)
         => c \in S}

Contents(i) == {j \in Item : i \in Holders(j)}

\* Where the outermost of them is.
Root(i) ==
  IF place[i][1] # "in" THEN place[i]
  ELSE place[CHOOSE c \in Holders(i) : place[c][1] # "in"]

OwnedBy(i, p) == Root(i) \in {<<"slot", p>>, <<"pack", p>>}

Reaches(p, i) == Root(i) = Ground \/ OwnedBy(i, p)

----------------------------------------------------------------------------
(* Calling trades off *)

\* internalCloseTrade() for each player of S.
TradesClosed(S) ==
  [q \in Player |-> IF q \in S \/ trade[q].partner \in S THEN NoTrade ELSE trade[q]]

OffersClosed(S) ==
  [i \in Item |->
    IF \E q \in Player : trade[q].item = i /\ (q \in S \/ trade[q].partner \in S)
    THEN None ELSE tradeItems[i]]

CloseTrades(S) ==
  /\ trade' = TradesClosed(S)
  /\ tradeItems' = OffersClosed(S)

Offer(p) == trade[p].item

\* checkTradeState(): i is the offer, or is in it.
ChecksTrade(p, i) == Offer(p) = i \/ Offer(p) \in Holders(i)

\* What onRemoveTileItem(), onRemoveInventoryItem() and onRemoveContainerItem() look at
\* when i is taken from where it is.
RemovalCloses(p, i) ==
  /\ Offer(p) # None
  /\ \/ ChecksTrade(p, i)
     \/ /\ place[i][1] \in {"ground", "slot"}
        /\ i \in Holders(Offer(p))
     \/ /\ place[i][1] = "in"
        /\ place[i][2] \in Holders(Offer(p)) /\ place[Offer(p)] # place[i]
     \/ /\ place[i][1] = "pack"
        /\ OwnedBy(Offer(p), place[i][2]) /\ Root(Offer(p))[1] = "pack"
        /\ place[Offer(p)] # place[i]

\* Mutant: things may be put into an offered container.
AdditionIgnored(p, dest) == FALSE

\* What onAddContainerItem() looks at when something was put into dest.
AdditionCloses(p, dest) ==
  /\ Offer(p) # None
  /\ dest[1] = "in" /\ Offer(p) \in {dest[2]} \cup Holders(dest[2])

----------------------------------------------------------------------------
(* What players ask for *)

\* Mutant: only the same item cannot be offered twice.
SameOffered(i) == tradeItems[i] # None

\* "This item is already being traded": itself, something in it, something it is in.
AlreadyTraded(i) ==
  \E j \in Item : tradeItems[j] # None /\ (j = i \/ i \in Holders(j) \/ j \in Holders(i))

\* internalStartTrade(): the first offer, or the answer to one.
StartTrade(p, q, i) ==
  /\ trade[p].state = "NONE" \/ (trade[p].state = "ACKNOWLEDGE" /\ trade[p].partner = q)
  /\ trade[q].state = "NONE" \/ trade[q].partner = p
  /\ tradeItems' = [tradeItems EXCEPT ![i] = p]
  /\ trade' = [trade EXCEPT
       ![p] = [state |-> "INITIATED", partner |-> q, item |-> i],
       ![q] = IF @.state = "NONE" THEN [@ EXCEPT !.state = "ACKNOWLEDGE", !.partner = p] ELSE @]

RequestTrade(p, q, i) ==
  /\ {p, q} \subseteq online /\ p # q
  /\ Reaches(p, i) /\ ~AlreadyTraded(i)
  /\ StartTrade(p, q, i)
  /\ UNCHANGED <<online, place, version, writing>>

CloseTrade(p) ==
  /\ p \in online
  /\ CloseTrades({p})
  /\ UNCHANGED <<online, place, version, writing>>

CanAccept(p) ==
  /\ p \in online
  /\ trade[p].state \in {"ACKNOWLEDGE", "INITIATED"}
  /\ trade[p].partner # None

\* The first to accept waits for the other.
AcceptFirst(p) ==
  /\ CanAccept(p) /\ trade[trade[p].partner].state # "ACCEPT"
  /\ trade' = [trade EXCEPT ![p].state = "ACCEPT"]
  /\ UNCHANGED <<online, tradeItems, place, version, writing>>

\* What room a player has: none, on a stack that is there, in the container it offers
\* (if that is in another one), or a free place.
Rooms(p) == {"none", "stack", "slot"} \cup
  (IF Offer(p) \in Container /\ OwnedBy(Offer(p), p) /\ place[Offer(p)][1] # "slot"
   THEN {"offer"} ELSE {})

\* internalAddItem() with `test'.
WouldFit(room, i) ==
  /\ i # None
  /\ room = "slot" \/ (IF i \in Stackable THEN room = "stack" ELSE room = "offer")

\* internalMoveTradeItem() does not put an item on a stack, nor into the other offer.
FirstMoves(room) == room = "slot"

\* internalMoveItem() does not put it on a stack either; the place that the other
\* item left may do.
SecondMoves(room, p) ==
  CASE room \in {"slot", "offer"} -> {TRUE}
    [] room = "stack" /\ OwnedBy(Offer(p), p) ->
         IF place[Offer(p)][1] = "slot" THEN BOOLEAN ELSE {TRUE}
    [] OTHER -> {FALSE}

Destinations(p) == {<<"slot", p>>, <<"pack", p>>}

\* The trades of others that end when i changes hands.
Disturbed(i, p, q) == {r \in Player \ {p, q} : RemovalCloses(r, i)}

\* The end of playerAcceptTrade(): both trades are over.
Over(p, q, disturbed) == CloseTrades({p, q} \cup disturbed)

\* Mutant: one test for both.
TransferTestingOne(p, q) ==
  /\ CanAccept(p) /\ q = trade[p].partner /\ trade[q].state = "ACCEPT"
  /\ \E roomP \in Rooms(p), roomQ \in Rooms(q) :
       /\ WouldFit(roomQ, Offer(p)) /\ Offer(q) # None
       /\ FirstMoves(roomQ)
       /\ \E dest1 \in Destinations(q), dest2 \in Destinations(p),
             second \in SecondMoves(roomP, p) :
            place' = [place EXCEPT ![Offer(p)] = dest1,
                                   ![Offer(q)] = IF second THEN dest2 ELSE @]
       /\ Over(p, q, Disturbed(Offer(p), p, q) \cup Disturbed(Offer(q), p, q))
  /\ UNCHANGED <<online, version, writing>>

\* Both accepted, and both items would fit.
Transfer(p, q) ==
  /\ CanAccept(p) /\ q = trade[p].partner /\ trade[q].state = "ACCEPT"
  /\ \E roomP \in Rooms(p), roomQ \in Rooms(q) :
       /\ WouldFit(roomQ, Offer(p)) /\ WouldFit(roomP, Offer(q))
       /\ FirstMoves(roomQ)
       /\ \E dest1 \in Destinations(q), dest2 \in Destinations(p),
             second \in SecondMoves(roomP, p) :
            place' = [place EXCEPT ![Offer(p)] = dest1,
                                   ![Offer(q)] = IF second THEN dest2 ELSE @]
       /\ Over(p, q, Disturbed(Offer(p), p, q) \cup Disturbed(Offer(q), p, q))
  /\ UNCHANGED <<online, version, writing>>

\* "Trade could not be completed."
TransferFails(p, q) ==
  /\ CanAccept(p) /\ q = trade[p].partner /\ trade[q].state = "ACCEPT"
  /\ Over(p, q, {})
  /\ UNCHANGED <<online, place, version, writing>>

----------------------------------------------------------------------------
(* What happens to items and players meanwhile *)

MoveItem(p, i) ==
  /\ p \in online /\ Reaches(p, i)
  /\ \E dest \in {Ground} \cup Destinations(p) \cup {<<"in", c>> : c \in Container} :
       /\ dest # place[i]
       /\ dest[1] = "in" =>
            dest[2] # i /\ i \notin Holders(dest[2]) /\ Reaches(p, dest[2])
       /\ place' = [place EXCEPT ![i] = dest]
       /\ CloseTrades({r \in Player : RemovalCloses(r, i) \/ AdditionCloses(r, dest)})
  /\ UNCHANGED <<online, version, writing>>

\* The changes of i that onUpdateTileItem() and the like are told of.
Changed(i) ==
  /\ version' = [version EXCEPT ![i] = 1 - @]
  /\ CloseTrades({r \in Player : Offer(r) # None /\ ChecksTrade(r, i)})

\* Split, decayed, transformed.
ChangeItem(i) ==
  /\ Root(i) # Gone
  /\ Changed(i)
  /\ UNCHANGED <<online, place, writing>>

\* internalUseItem() of something to read opens a window, where p may write if the kind of
\* i lets it (canWriteText); what it was to write on before is given up.
UseItem(p, i) ==
  /\ p \in online /\ i \in Readable /\ Reaches(p, i)
  /\ \E canWriteText \in BOOLEAN :
       writeItem' = [writeItem EXCEPT ![p] = IF canWriteText THEN i ELSE None]
  /\ UNCHANGED <<online, trade, tradeItems, place, version, text>>

\* p answers its window.  Nobody is told of a new text, but an item that can be written on
\* once becomes another kind.
Written(p) ==
  /\ \E new \in {0, 1} : text' = [text EXCEPT ![writeItem[p]] = new]
  /\ writeItem' = [writeItem EXCEPT ![p] = None]
  /\ Changed(writeItem[p]) \/ UNCHANGED <<trade, tradeItems, version>>
  /\ UNCHANGED <<online, place>>

\* Mutant: the answer is not checked again.
WrittenUnchecked(p) == p \in online /\ writeItem[p] # None /\ Written(p)

\* The item may have gone elsewhere since the window was opened.
PlayerWriteItem(p) ==
  /\ p \in online /\ writeItem[p] # None /\ Reaches(p, writeItem[p])
  /\ Written(p)

DestroyItem(i) ==
  /\ Root(i) # Gone
  /\ place' = [place EXCEPT ![i] = Gone]
  /\ CloseTrades({r \in Player : RemovalCloses(r, i)})
  /\ UNCHANGED <<online, version, writing>>

\* onCreatureMove(): too far from the item or from the partner.
Move(p) ==
  /\ p \in online /\ trade[p].partner # None
  /\ CloseTrades({p})
  /\ UNCHANGED <<online, place, version, writing>>

Logout(p) ==
  /\ p \in online
  /\ online' = online \ {p}
  /\ CloseTrades(IF trade[p].partner # None THEN {p} ELSE {})
  /\ writeItem' = [writeItem EXCEPT ![p] = None]
  /\ UNCHANGED <<place, version, text>>

Login(p) ==
  /\ p \notin online
  /\ online' = online \cup {p}
  /\ UNCHANGED <<trade, tradeItems, place, version, writing>>

Next ==
  \/ \E p \in Player :
       \/ \E q \in Player :
            (\E i \in Item : RequestTrade(p, q, i)) \/ Transfer(p, q) \/ TransferFails(p, q)
       \/ AcceptFirst(p) \/ CloseTrade(p) \/ Move(p) \/ Logout(p) \/ Login(p)
       \/ (\E i \in Item : MoveItem(p, i) \/ UseItem(p, i)) \/ PlayerWriteItem(p)
  \/ \E i \in Item : ChangeItem(i) \/ DestroyItem(i)

Spec == Init /\ [][Next]_vars

----------------------------------------------------------------------------
Places ==
  {Ground, Gone} \cup {<<"in", c>> : c \in Container}
  \cup {<<s, p>> : s \in {"slot", "pack"}, p \in Player}

\* The type invariant.
TypeOK ==
  /\ online \subseteq Player
  /\ trade \in [Player ->
       [state : {"NONE", "ACKNOWLEDGE", "INITIATED", "ACCEPT"},
        partner : Player \cup {None}, item : Item \cup {None}]]
  /\ tradeItems \in [Item -> Player \cup {None}]
  /\ place \in [Item -> Places]
  /\ version \in [Item -> {0, 1}]
  /\ text \in [Item -> {0, 1}]
  /\ writeItem \in [Player -> Item \cup {None}]

\* Whoever trades is online, and its partner trades with it and with nobody else.
PartnersAreMutual ==
  \A p \in Player :
    /\ trade[p].state # "NONE" <=> trade[p].partner # None
    /\ trade[p].partner # None =>
         p \in online /\ trade[p].partner # p /\ trade[trade[p].partner].partner = p

\* The map holds exactly the items on offer, each for its owner: it decides what is
\* "already being traded", and each entry is one use of the item.
MapHoldsTheOffers ==
  \A i \in Item, p \in Player : tradeItems[i] = p <=> trade[p].item = i

\* What is on offer is within reach of the player who offers it.
OfferIsReachable == \A p \in Player : Offer(p) # None => Reaches(p, Offer(p))

\* Nothing is on offer twice, not as part of something else either.
OffersAreDisjoint ==
  \A p, q \in Player :
    (p # q /\ Offer(p) # None /\ Offer(q) # None) =>
      Offer(p) # Offer(q) /\ Offer(p) \notin Holders(Offer(q))

\* Who trades what with whom.
Inv ==
  /\ TypeOK
  /\ PartnersAreMutual
  /\ MapHoldsTheOffers
  /\ OfferIsReachable
  /\ OffersAreDisjoint

\* Did p answer the window of j?
Writes(p, j) == writeItem[p] = j /\ writeItem'[p] = None

\* While a trade goes on, its item stays where it is, in the same count and of the same
\* kind, and so does everything in it.  A new text calls no trade off (game.cpp:2883): the
\* owner may write on what it offers, and on the ground anybody may, but nobody else on
\* what its owner has, whenever the window was opened.
OfferStaysAsItIs ==
  [][\A p \in Player :
       \A i \in Item, j \in Item :
         (Offer(p) = i /\ trade'[p].item = i /\ (j = i \/ j \in Contents(i) \/ j \in Contents(i)')) =>
           /\ place'[j] = place[j] /\ version'[j] = version[j]
           /\ text'[j] # text[j] => Root(i) = Ground \/ Writes(p, j)]_vars

\* Either both items change hands or none does, unless the second is to go on a stack.
SwapOrNothing ==
  [][\A p, q \in Player :
       (Transfer(p, q) /\ place' # place /\ Offer(q) \notin Stackable) =>
         place'[Offer(p)] \in Destinations(q) /\ place'[Offer(q)] \in Destinations(p)]_vars
=============================================================================
