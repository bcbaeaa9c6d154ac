-------------------------------- MODULE Market -------------------------------
(****************************************************************************)
(* The market (game.cpp playerCreateMarketOffer() to                        *)
(* checkExpiredMarketOffers(), iomarket.cpp).  Offers are rows of the       *)
(* database and change at once; the money and the goods of a player that is *)
(* online are in memory and reach the database when the player is saved.    *)
(* The owner of an offer may be offline when somebody accepts it: money     *)
(* then goes to its row of the database, for goods the player is loaded,    *)
(* given the items and saved.                                               *)
(*                                                                          *)
(* Handlers are tasks and do not interleave, but the server may crash       *)
(* between two writes to the database.  A handler that writes twice is two  *)
(* steps: what remains to be done to the offers is in row and sweep, and    *)
(* nothing else runs until it is done.                                      *)
(*                                                                          *)
(* One kind of goods, in the inbox or in the depot chest of the market the  *)
(* player entered; what players do with money and items elsewhere, and      *)
(* the history of offers, are left out.                                     *)
(****************************************************************************)
EXTENDS Integers, FiniteSets, Functions

CONSTANTS
  Player,
  Id,               \* ids of market_offers, never used twice; bound: how many there are
  MaxOffers,        \* maxMarketOffersAtATimePerPlayer; 0: no limit
  Price, Amount,    \* what players ask for and offer
  FeeDivisor, MinFee, MaxFee,   \* 100, 20 and 1000
  Money, Goods,     \* what each player has at first
  MaxFaults,        \* bound: how many kinds of fault happen in a run
  None, Gone

Account == [money : Nat, goods : Nat]
Offer == [owner : Player, type : {"BUY", "SELL"}, price : Price, amount : Nat \ {0}]

ASSUME MarketAssumption ==
  /\ Price \subseteq Nat \ {0} /\ Amount \subseteq Nat \ {0}
  /\ FeeDivisor \in Nat \ {0} /\ MinFee \in Nat /\ MaxFee \in Nat /\ MinFee <= MaxFee
  /\ {Money, Goods, MaxOffers, MaxFaults} \subseteq Nat
  /\ IsFiniteSet(Id)
  /\ {None, Gone} \cap (Player \cup Id) = {} /\ None # Gone
  /\ None \notin Account /\ None \notin [offer : Id, amount : Nat]
  /\ None \notin Offer /\ Gone \notin Offer

VARIABLES
  mem,      \* bankBalance and goods of the players in the game (None: not in it)
  db,       \* the same in the database
  market,   \* the players with a marketDepotId
  offers,   \* market_offers: per id a row, None if not used yet, or Gone
  aged,     \* the offers older than marketOfferDuration
  row,      \* the row that the running task is still going to change, or None
  sweep,    \* the offers that checkExpiredMarketOffers() still has before it
  faults    \* what went wrong so far: "crash", "load", "save"

vars == <<mem, db, market, offers, aged, row, sweep, faults>>

Init ==
  /\ mem = [p \in Player |-> None]
  /\ db = [p \in Player |-> [money |-> Money, goods |-> Goods]]
  /\ market = {}
  /\ offers = [o \in Id |-> None]
  /\ aged = {} /\ row = None /\ sweep = {}
  /\ faults = {}

----------------------------------------------------------------------------
(* Helpers *)

online == {p \in Player : mem[p] # None}

Rows == {o \in Id : offers[o] \notin {None, Gone}}
OwnOffers(p) == {o \in Rows : offers[o].owner = p}

\* The dispatcher is between two tasks.
Idle == row = None /\ sweep = {}

AtMarket(p) == Idle /\ p \in market

\* The fee for an offer.
Fee(price, amount) ==
  LET fee == (price * amount) \div FeeDivisor
  IN  IF fee < MinFee THEN MinFee ELSE IF fee > MaxFee THEN MaxFee ELSE fee

\* The accounts a with p's money and goods changed.
Changed(a, p, money, goods) ==
  [a EXCEPT ![p] = [money |-> @.money + money, goods |-> @.goods + goods]]

\* Something fails, for the first time in this way.
Fault(kind) ==
  /\ kind \notin faults /\ Cardinality(faults) < MaxFaults
  /\ faults' = faults \cup {kind}

OfferIsGone(o) ==
  /\ offers' = [offers EXCEPT ![o] = Gone]
  /\ aged' = aged \ {o}

----------------------------------------------------------------------------
(* Players come and go *)

Login(p) ==
  /\ Idle /\ p \notin online
  /\ mem' = [mem EXCEPT ![p] = db[p]]
  /\ UNCHANGED <<market, db, offers, aged, row, sweep, faults>>

\* onCreatureDisappear(): the player is saved, or cannot be in three tries.
Logout(p) ==
  /\ Idle /\ p \in online
  /\ mem' = [mem EXCEPT ![p] = None] /\ market' = market \ {p}
  /\ \/ db' = [db EXCEPT ![p] = mem[p]] /\ UNCHANGED faults
     \/ Fault("save") /\ UNCHANGED db
  /\ UNCHANGED <<offers, aged, row, sweep>>

\* saveGameState(): savePlayer() may fail for some, which nobody looks at.
SaveGameState ==
  /\ Idle
  /\ \E S \in SUBSET online : db' = [p \in Player |-> IF p \in S THEN mem[p] ELSE db[p]]
  /\ UNCHANGED <<market, mem, offers, aged, row, sweep, faults>>

\* The power goes off, between or within tasks; the server starts again.
Crash ==
  /\ Fault("crash")
  /\ mem' = [p \in Player |-> None] /\ market' = {} /\ row' = None /\ sweep' = {}
  /\ UNCHANGED <<db, offers, aged>>

EnterMarket(p) ==
  /\ Idle /\ p \in online \ market
  /\ market' = market \cup {p}
  /\ UNCHANGED <<mem, db, offers, aged, row, sweep, faults>>

\* playerLeaveMarket(), or a step away from the depot.
LeaveMarket(p) ==
  /\ AtMarket(p)
  /\ market' = market \ {p}
  /\ UNCHANGED <<mem, db, offers, aged, row, sweep, faults>>

----------------------------------------------------------------------------
(* Offers *)

\* What an offer takes from the account of its owner.
SellStake(price, amount) == [money |-> Fee(price, amount), goods |-> amount]
BuyStake(price, amount) == [money |-> price * amount + Fee(price, amount), goods |-> 0]

CreateOffer(p, type, price, amount) ==
  LET stake == IF type = "SELL" THEN SellStake(price, amount) ELSE BuyStake(price, amount)
  IN  /\ AtMarket(p)
      /\ MaxOffers = 0 \/ Cardinality(OwnOffers(p)) < MaxOffers
      /\ stake.money <= mem[p].money /\ stake.goods <= mem[p].goods
      /\ mem' = Changed(mem, p, -stake.money, -stake.goods)
      /\ \E o \in {i \in Id : offers[i] = None} :
           offers' = [offers EXCEPT ![o] =
             [owner |-> p, type |-> type, price |-> price, amount |-> amount]]
      /\ UNCHANGED <<market, db, aged, row, sweep, faults>>

\* What the owner of an offer that ends gets back for what is left of it.
Refund(f) ==
  IF f.type = "BUY" THEN [money |-> f.price * f.amount, goods |-> 0]
  ELSE [money |-> 0, goods |-> f.amount]

CancelOffer(p, o) ==
  /\ AtMarket(p) /\ o \in OwnOffers(p)
  /\ mem' = Changed(mem, p, Refund(offers[o]).money, Refund(offers[o]).goods)
  /\ OfferIsGone(o)
  /\ UNCHANGED <<market, db, row, sweep, faults>>

MayAccept(o, n) == n <= offers[o].amount

\* p accepts an offer to sell: it pays, gets the goods, and the seller is paid,
\* in memory or with increaseBankBalance().
AcceptSell(p, o, n) ==
  LET f == offers[o]
      total == f.price * n
      bought == Changed(mem, p, -total, n)
  IN  /\ AtMarket(p) /\ o \in Rows /\ f.type = "SELL"
      /\ MayAccept(o, n)
      /\ total <= mem[p].money
      /\ IF f.owner \in online
         THEN mem' = Changed(bought, f.owner, total, 0) /\ UNCHANGED db
         ELSE mem' = bought /\ db' = Changed(db, f.owner, total, 0)
      /\ row' = [offer |-> o, amount |-> n]
      /\ UNCHANGED <<market, offers, aged, sweep, faults>>

\* Goods for a player that is offline: loadPlayer(), the inbox, savePlayer(),
\* whose failure goes unnoticed.
DeliverOffline(q, n) ==
  \/ db' = Changed(db, q, 0, n) /\ UNCHANGED faults
  \/ Fault("save") /\ UNCHANGED db

\* p accepts an offer to buy: it gives the goods, is paid, and the buyer gets them.
AcceptBuy(p, o, n) ==
  LET f == offers[o]
      sold == Changed(mem, p, f.price * n, -n)
  IN  /\ AtMarket(p) /\ o \in Rows /\ f.type = "BUY"
      /\ MayAccept(o, n)
      /\ n <= mem[p].goods
      /\ \/ /\ f.owner \in online
            /\ mem' = Changed(sold, f.owner, 0, n)
            /\ UNCHANGED <<db, faults>>
         \/ /\ f.owner \notin online
            /\ mem' = sold
            /\ DeliverOffline(f.owner, n)
      /\ row' = [offer |-> o, amount |-> n]
      /\ UNCHANGED <<market, offers, aged, sweep>>

\* The same when the buyer cannot be loaded: the handler returns, half done.
AcceptBuyLoadFails(p, o, n) ==
  /\ AtMarket(p) /\ o \in Rows /\ offers[o].type = "BUY" /\ offers[o].owner \notin online
  /\ MayAccept(o, n)
  /\ n <= mem[p].goods
  /\ mem' = Changed(mem, p, offers[o].price * n, -n)
  /\ Fault("load")
  /\ UNCHANGED <<market, db, offers, aged, row, sweep>>

\* Mutant: an offer ends with the first sale.
SoldOutAtOnce(o, n) == n > 0

SoldOut(o, n) == offers[o].amount = n

\* acceptOffer(), deleteOffer() and moveOfferToHistory(): the row of the offer.
UpdateRow ==
  /\ row # None
  /\ IF SoldOut(row.offer, row.amount)
     THEN OfferIsGone(row.offer)
     ELSE offers' = [offers EXCEPT ![row.offer].amount = @ - row.amount] /\ UNCHANGED aged
  /\ row' = None
  /\ UNCHANGED <<market, mem, db, sweep, faults>>

----------------------------------------------------------------------------
(* Offers that expire *)

Age(o) ==
  /\ Idle /\ o \in Rows \ aged
  /\ aged' = aged \cup {o}
  /\ UNCHANGED <<market, mem, db, offers, row, sweep, faults>>

CheckExpired ==
  /\ Idle /\ aged # {}
  /\ sweep' = aged
  /\ UNCHANGED <<market, mem, db, offers, aged, row, faults>>

\* The next offer of the sweep: those to buy come first.
NextExpired(o) ==
  /\ row = None /\ o \in sweep
  /\ offers[o].type = "SELL" => \A r \in sweep : offers[r].type = "SELL"

Expire(o) ==
  LET f == offers[o]
      refund == Refund(f)
  IN  /\ NextExpired(o)
      /\ \/ /\ f.owner \in online
            /\ mem' = Changed(mem, f.owner, refund.money, refund.goods)
            /\ UNCHANGED <<db, faults>>
         \/ /\ f.owner \notin online /\ f.type = "BUY"
            /\ db' = Changed(db, f.owner, refund.money, 0)
            /\ UNCHANGED <<mem, faults>>
         \/ /\ f.owner \notin online /\ f.type = "SELL"
            /\ DeliverOffline(f.owner, refund.goods)
            /\ UNCHANGED mem
      /\ row' = [offer |-> o, amount |-> f.amount]
      /\ sweep' = sweep \ {o}
      /\ UNCHANGED <<market, offers, aged>>

\* A seller that cannot be loaded is left for the next time.
ExpireSkips(o) ==
  /\ NextExpired(o)
  /\ offers[o].type = "SELL" /\ offers[o].owner \notin online
  /\ sweep' = sweep \ {o}
  /\ UNCHANGED <<market, mem, db, offers, aged, row, faults>>

----------------------------------------------------------------------------

PlayerTrades(p) ==
  \/ EnterMarket(p) \/ LeaveMarket(p)
  \/ \E type \in {"BUY", "SELL"}, price \in Price, amount \in Amount :
       CreateOffer(p, type, price, amount)
  \/ \E o \in Id :
       \/ CancelOffer(p, o)
       \/ \E n \in Amount :
            AcceptSell(p, o, n) \/ AcceptBuy(p, o, n) \/ AcceptBuyLoadFails(p, o, n)

Trades ==
  \/ \E p \in Player : PlayerTrades(p)
  \/ UpdateRow \/ CheckExpired
  \/ \E o \in Id : Age(o) \/ Expire(o) \/ ExpireSkips(o)

----------------------------------------------------------------------------
(* Properties *)

\* What p has, wherever it counts.
Has(p) == IF p \in online THEN mem[p] ELSE db[p]

\* What an offer still stands for: what its row says without what the running
\* task has already paid out for.
Left(o) ==
  offers[o].amount - (IF row # None THEN IF row.offer = o THEN row.amount ELSE 0 ELSE 0)

MoneyIn(p) ==
  [o \in Id |-> IF o \in OwnOffers(p) /\ offers[o].type = "BUY" THEN offers[o].price * Left(o) ELSE 0]
GoodsIn(p) ==
  [o \in Id |-> IF o \in OwnOffers(p) /\ offers[o].type = "SELL" THEN Left(o) ELSE 0]

\* The type of every variable.  Balances are unsigned in the code: a balance or
\* an offer below zero would be a huge one.
TypeOK ==
  /\ market \subseteq online
  /\ mem \in [Player -> Account \cup {None}] /\ db \in [Player -> Account]
  /\ offers \in [Id -> Offer \cup {None, Gone}]
  /\ aged \subseteq Rows /\ sweep \subseteq aged
  /\ row = None \/ row \in [offer : Rows, amount : Nat \ {0}]
  /\ faults \subseteq {"crash", "load", "save"}

\* What the running task has paid out for is covered by the row it is going to
\* change, and the sweep does not come to an offer twice (the amount of
\* acceptOffer(), after any partial sales, refunds and crashes).
OffersAreCovered ==
  /\ \A o \in Rows : Left(o) >= 0
  /\ row # None => row.offer \notin sweep

Inv == TypeOK /\ OffersAreCovered

Worth(p) == [money |-> Has(p).money + SumFunction(MoneyIn(p)),
             goods |-> Has(p).goods + SumFunction(GoodsIn(p))]

Gets(w, money, goods) == [money |-> w.money + money, goods |-> w.goods + goods]

\* Nobody gains or loses anything: by cancelling, expiring, saving, logging in or out.
NobodyGains == \A p \in Player : Worth(p)' = Worth(p)

\* A new offer costs its fee.
FeeIsTaken ==
  \E p \in Player, o \in Rows' \ Rows :
    /\ offers'[o].owner = p
    /\ \A q \in Player : Worth(q)' =
         IF q # p THEN Worth(q)
         ELSE Gets(Worth(q), -Fee(offers'[o].price, offers'[o].amount), 0)

\* Money and goods change hands at the price of an offer, between its owner and who
\* accepts it.
Exchanged ==
  \E p \in market, o \in Rows, n \in Amount :
    LET give == IF offers[o].type = "BUY" THEN -n ELSE n
        pay == -give * offers[o].price
    IN  /\ p # offers[o].owner /\ n <= Left(o)
        /\ \A q \in Player : Worth(q)' =
             CASE q = p -> Gets(Worth(q), pay, give)
               [] q = offers[o].owner -> Gets(Worth(q), -pay, -give)
               [] OTHER -> Worth(q)

\* What p's own offers exchange its money and goods for.
ItsOffers(p) ==
  \E o \in OwnOffers(p), n \in Amount :
    LET give == IF offers[o].type = "BUY" THEN n ELSE -n
    IN  /\ n <= Left(o)
        /\ Worth(p)' = Gets(Worth(p), -give * offers[o].price, give)

=============================================================================
