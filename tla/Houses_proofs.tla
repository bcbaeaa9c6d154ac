---------------------------- MODULE Houses_proofs ----------------------------
(****************************************************************************)
(* Houses and the market, for any number of players, offers, prices and     *)
(* houses: that they agree with each other whatever fails, and that nobody  *)
(* gains or loses anything but by what it asked for.                        *)
(*                                                                          *)
(* What a player is worth is a sum over its offers.  A step changes one of  *)
(* them at most, so that the sums follow from one lemma on sums, and the    *)
(* rest is arithmetic: what leaves the account is what comes into the offer *)
(* or goes to the partner.  Houses are handled as the record of everything  *)
(* their handlers change, before and after.                                 *)
(****************************************************************************)
EXTENDS Houses, Lists_proofs, FiniteSetTheorems, TLAPS

USE MarketAssumption

----------------------------------------------------------------------------
(* Sums over functions on a finite set *)

\* F holds the sums of the values of v over the subsets of S with up to n elements.
Upto(S, n) == {T \in SUBSET S : Cardinality(T) <= n}

Sums(v, D, F) ==
  F = [T \in D |-> IF T = {} THEN 0
                   ELSE LET x == CHOOSE x \in T : TRUE IN v[x] + F[T \ {x}]]

\* Sums exist over a finite set: by the least number of elements that has none.
LEMMA SumsExist ==
  ASSUME NEW S, IsFiniteSet(S), NEW v
  PROVE  \E F : Sums(v, SUBSET S, F)
<1> DEFINE bad == {k \in Nat : ~\E F : Sums(v, Upto(S, k), F)}
<1>1. \A T \in SUBSET S : IsFiniteSet(T) /\ Cardinality(T) \in Nat
  BY FS_Subset, FS_CardinalityType
<1>2. bad = {}
  <2>1. SUFFICES ASSUME bad # {} PROVE FALSE
    OBVIOUS
  <2>2. bad \subseteq Nat
    OBVIOUS
  <2> HIDE DEF bad
  <2>3. PICK k \in bad : \A m \in bad : k <= m
    BY <2>1, <2>2, LeastNumber
  <2> USE DEF bad
  <2>4. CASE k = 0
    <3> DEFINE G == [T \in Upto(S, 0) |-> 0]
    <3>1. \A T \in Upto(S, 0) : T = {}
      BY <1>1, FS_EmptySet DEF Upto
    <3>2. Sums(v, Upto(S, 0), G)
      BY <3>1 DEF Sums
    <3>3. QED
      BY <2>3, <2>4, <3>2
  <2>5. CASE k # 0
    <3>1. k \in Nat /\ k - 1 \in Nat /\ k - 1 \notin bad
      BY <2>3, <2>5
    <3>2. PICK F : Sums(v, Upto(S, k - 1), F)
      BY <3>1
    <3> DEFINE one(T) == CHOOSE x \in T : TRUE
               G == [T \in Upto(S, k) |-> IF T = {} THEN 0 ELSE v[one(T)] + F[T \ {one(T)}]]
    <3>3. \A T \in Upto(S, k - 1) :
            F[T] = IF T = {} THEN 0 ELSE v[one(T)] + F[T \ {one(T)}]
      BY <3>2 DEF Sums
    <3>4. ASSUME NEW T \in Upto(S, k), T # {}
          PROVE  G[T \ {one(T)}] = F[T \ {one(T)}]
      <4> DEFINE U == T \ {one(T)}
      <4>1. one(T) \in T
        BY <3>4
      <4> HIDE DEF one
      <4>2. IsFiniteSet(T) /\ Cardinality(T) \in Nat /\ T \in SUBSET S /\ Cardinality(T) <= k
        BY <1>1 DEF Upto
      <4>3. Cardinality(U) = Cardinality(T) - 1
        BY <4>1, <4>2, FS_RemoveElement
      <4>4. U \in Upto(S, k - 1) /\ U \in Upto(S, k)
        BY <3>1, <4>2, <4>3 DEF Upto
      <4> USE DEF one
      <4> HIDE DEF U
      <4>5. QED
        BY <3>3, <4>4 DEF U
    <3>5. \A T \in Upto(S, k) : G[T] = IF T = {} THEN 0 ELSE v[one(T)] + G[T \ {one(T)}]
      <4>1. \A T \in Upto(S, k) : G[T] = IF T = {} THEN 0 ELSE v[one(T)] + F[T \ {one(T)}]
        OBVIOUS
      <4> HIDE DEF G, one
      <4>2. QED
        BY <3>4, <4>1
    <3>6. G = [T \in Upto(S, k) |-> G[T]]
      OBVIOUS
    <3> HIDE DEF G
    <3>7. Sums(v, Upto(S, k), G)
      BY <3>5, <3>6 DEF Sums
    <3>8. QED
      BY <2>3, <3>7
  <2>6. QED
    BY <2>4, <2>5
<1>3. Upto(S, Cardinality(S)) = SUBSET S
  BY <1>1, FS_Subset DEF Upto
<1>4. Cardinality(S) \in Nat
  BY FS_CardinalityType
<1>5. \E F : Sums(v, Upto(S, Cardinality(S)), F)
  BY <1>2, <1>4
<1>6. QED
  BY <1>3, <1>5

\* The sum of the community modules is such a sum.
LEMMA SumFunctionIs ==
  ASSUME NEW S, IsFiniteSet(S), NEW v, DOMAIN v = S
  PROVE  \E F : Sums(v, SUBSET S, F) /\ SumFunction(v) = F[S]
<1> DEFINE H == CHOOSE F : Sums(v, SUBSET S, F)
<1>1. Sums(v, SUBSET S, H)
  BY SumsExist
<1>2. SumFunction(v) = H[S]
  BY DEF SumFunction, SumFunctionOnSet, FoldFunctionOnSet, MapThenFoldSet, Sums
<1>3. QED
  BY <1>1, <1>2

\* A set of subsets of a finite set has one that holds no other.
LEMMA LeastSet ==
  ASSUME NEW S, IsFiniteSet(S), NEW B, B \subseteq SUBSET S, B # {}
  PROVE  \E T \in B : \A U \in B : U \subseteq T => U = T
<1> DEFINE Size == {Cardinality(T) : T \in B}
<1>1. \A T \in B : IsFiniteSet(T) /\ Cardinality(T) \in Nat
  BY FS_Subset, FS_CardinalityType
<1>2. PICK n \in Size : \A m \in Size : n <= m
  <2>1. Size \subseteq Nat /\ Size # {}
    BY <1>1
  <2> HIDE DEF Size
  <2>2. QED
    BY <2>1, LeastNumber
<1>3. PICK T \in B : n = Cardinality(T)
  OBVIOUS
<1>4. ASSUME NEW U \in B, U \subseteq T PROVE U = T
  <2>1. Cardinality(T) <= Cardinality(U)
    BY <1>2, <1>3
  <2>2. Cardinality(U) <= Cardinality(T) /\ (Cardinality(T) = Cardinality(U) => T = U)
    BY <1>1, <1>4, FS_Subset
  <2>3. QED
    BY <1>1, <2>1, <2>2
<1>5. QED
  BY <1>4

\* F adds up v, whichever element comes first.
Adds(v, S, F) ==
  /\ F[{}] = 0
  /\ \A T \in SUBSET S : F[T] \in Int /\ \A x \in T : F[T] = v[x] + F[T \ {x}]

\* A sum does not depend on which element comes first: by the least set where it would.
LEMMA SumAnyFirst ==
  ASSUME NEW S, IsFiniteSet(S), NEW v \in [S -> Int], NEW F, Sums(v, SUBSET S, F)
  PROVE  Adds(v, S, F)
<1> DEFINE Good(T) == F[T] \in Int /\ \A x \in T : F[T] = v[x] + F[T \ {x}]
           bad == {T \in SUBSET S : ~Good(T)}
           one(T) == CHOOSE x \in T : TRUE
<1>1. \A T \in SUBSET S : F[T] = IF T = {} THEN 0 ELSE v[one(T)] + F[T \ {one(T)}]
  BY DEF Sums
<1>2. \A T \in SUBSET S : T # {} => one(T) \in T
  OBVIOUS
<1> HIDE DEF one
<1>3. bad = {}
  <2>1. SUFFICES ASSUME bad # {} PROVE FALSE
    OBVIOUS
  <2>2. bad \subseteq SUBSET S
    OBVIOUS
  <2> HIDE DEF bad
  <2>3. PICK T \in bad : \A U \in bad : U \subseteq T => U = T
    BY <2>1, <2>2, LeastSet
  <2>4. \A U \in SUBSET S : U \subseteq T /\ U # T => Good(U)
    BY <2>3 DEF bad
  <2>5. T \in SUBSET S /\ ~Good(T)
    BY <2>3 DEF bad
  <2> DEFINE c == one(T)
  <2>6. CASE T = {}
    <3>1. F[T] = 0 /\ \A x \in T : FALSE
      BY <1>1, <2>5, <2>6
    <3>2. Good(T)
      BY <3>1
    <3>3. QED
      BY <2>5, <3>2
  <2>7. CASE T # {}
    <3>1. c \in T /\ F[T] = v[c] + F[T \ {c}] /\ v[c] \in Int
      BY <1>1, <1>2, <2>5, <2>7
    <3> HIDE DEF c
    <3>2. Good(T \ {c})
      BY <2>4, <2>5, <3>1
    <3>3. ASSUME NEW x \in T PROVE F[T] = v[x] + F[T \ {x}]
      <4>1. CASE x = c
        BY <3>1, <4>1
      <4>2. CASE x # c
        <5>1. Good(T \ {x}) /\ c \in T \ {x} /\ x \in T \ {c}
          BY <2>4, <2>5, <3>1, <4>2
        <5>2. (T \ {x}) \ {c} = (T \ {c}) \ {x}
          OBVIOUS
        <5>3. F[T \ {x}] = v[c] + F[(T \ {c}) \ {x}] /\ F[T \ {c}] = v[x] + F[(T \ {c}) \ {x}]
          BY <3>2, <5>1, <5>2
        <5>4. Good((T \ {c}) \ {x})
          BY <2>4, <2>5, <3>1
        <5>5. F[(T \ {c}) \ {x}] \in Int /\ v[x] \in Int
          BY <2>5, <5>4
        <5>6. QED
          BY <3>1, <5>3, <5>5
      <4>3. QED
        BY <4>1, <4>2
    <3>4. QED
      BY <2>5, <3>1, <3>2, <3>3
  <2>8. QED
    BY <2>6, <2>7
<1>4. F[{}] = 0
  BY <1>1
<1>5. QED
  BY <1>3, <1>4 DEF Adds

\* A sum of integers is one.
LEMMA SumIsInt ==
  ASSUME NEW S, IsFiniteSet(S), NEW v \in [S -> Int]
  PROVE  SumFunction(v) \in Int
<1>1. PICK F : Sums(v, SUBSET S, F) /\ SumFunction(v) = F[S]
  BY SumFunctionIs
<1>2. F[S] \in Int
  BY <1>1, SumAnyFirst DEF Adds
<1>3. QED
  BY <1>1, <1>2

\* A sum changes as one of its terms does.
LEMMA SumChanges ==
  ASSUME NEW S, IsFiniteSet(S), NEW v \in [S -> Int], NEW u \in [S -> Int],
         NEW o \in S, \A x \in S \ {o} : u[x] = v[x]
  PROVE  SumFunction(u) = SumFunction(v) + u[o] - v[o]
<1>1. PICK F : Sums(v, SUBSET S, F) /\ SumFunction(v) = F[S]
  BY SumFunctionIs
<1>2. PICK G : Sums(u, SUBSET S, G) /\ SumFunction(u) = G[S]
  BY SumFunctionIs
<1> DEFINE bad == {T \in SUBSET (S \ {o}) : F[T] # G[T]}
<1>3. Adds(v, S, F) /\ Adds(u, S, G)
  BY <1>1, <1>2, SumAnyFirst
<1>4. bad = {}
  <2>1. SUFFICES ASSUME bad # {} PROVE FALSE
    OBVIOUS
  <2>2. bad \subseteq SUBSET S
    OBVIOUS
  <2> HIDE DEF bad
  <2>3. PICK T \in bad : \A U \in bad : U \subseteq T => U = T
    BY <2>1, <2>2, LeastSet
  <2>4. T \in SUBSET (S \ {o}) /\ F[T] # G[T]
    BY <2>3 DEF bad
  <2>5. CASE T = {}
    <3>1. F[{}] = 0 /\ G[{}] = 0
      BY <1>3 DEF Adds
    <3>2. QED
      BY <2>4, <2>5, <3>1
  <2>6. CASE T # {}
    <3>1. PICK c : c \in T
      BY <2>6
    <3>2. T \ {c} \notin bad /\ T \ {c} \in SUBSET (S \ {o})
      BY <2>3, <2>4, <3>1
    <3>3. F[T \ {c}] = G[T \ {c}]
      BY <3>2 DEF bad
    <3>4. F[T] = v[c] + F[T \ {c}] /\ G[T] = u[c] + G[T \ {c}] /\ v[c] = u[c]
      BY <1>3, <2>4, <3>1 DEF Adds
    <3>5. QED
      BY <2>4, <3>3, <3>4
  <2>7. QED
    BY <2>5, <2>6
<1>5. F[S \ {o}] = G[S \ {o}]
  BY <1>4
<1>6. F[S] = v[o] + F[S \ {o}] /\ G[S] = u[o] + G[S \ {o}] /\ F[S \ {o}] \in Int
  <2>1. S \in SUBSET S /\ S \ {o} \in SUBSET S
    OBVIOUS
  <2>2. QED
    BY <1>3, <2>1 DEF Adds
<1>7. v[o] \in Int /\ u[o] \in Int
  OBVIOUS
<1>8. QED
  BY <1>1, <1>2, <1>5, <1>6, <1>7

----------------------------------------------------------------------------
(* Accounts and offers *)

Players == [Player -> Account \cup {None}]
Saved == [Player -> Account]

\* What an account holds.
LEMMA NoneIsNoAccount ==
  None \notin Account /\ \A a \in Account : a # None /\ a.money \in Nat /\ a.goods \in Nat
<1>1. None \notin Account
  BY DEF MarketAssumption
<1>2. \A a \in Account : a # None
  BY <1>1
<1>3. \A a \in Account : a.money \in Nat /\ a.goods \in Nat
  BY DEF Account
<1>4. QED
  BY <1>1, <1>2, <1>3

\* Products of numbers are numbers.
LEMMA ProductType == \A m, n \in Nat : m * n \in Nat
OBVIOUS

\* The fee of an offer is a number, whatever is asked for.
LEMMA FeeType ==
  ASSUME NEW price \in Nat, NEW amount \in Nat
  PROVE  Fee(price, amount) \in Nat
<1> DEFINE fee == (price * amount) \div FeeDivisor
<1>1. price * amount \in Nat
  BY ProductType
<1>2. fee \in Int /\ MinFee \in Nat /\ MaxFee \in Nat
  <2>1. FeeDivisor \in Nat /\ FeeDivisor > 0
    BY DEF MarketAssumption
  <2>2. QED
    BY <1>1, <2>1 DEF MarketAssumption
<1> HIDE DEF fee
<1>3. (IF fee < MinFee THEN MinFee ELSE IF fee > MaxFee THEN MaxFee ELSE fee) \in Nat
  BY <1>2
<1>4. QED
  BY <1>3 DEF Fee, fee

\* p's account in a after it gets money and goods.
LEMMA ChangedIs ==
  ASSUME NEW a, NEW p \in Player, DOMAIN a = Player, a[p] \in Account,
         NEW money \in Int, NEW goods \in Int,
         a[p].money + money \in Nat, a[p].goods + goods \in Nat
  PROVE  /\ DOMAIN Changed(a, p, money, goods) = Player
         /\ Changed(a, p, money, goods)[p] \in Account
         /\ Changed(a, p, money, goods)[p].money = a[p].money + money
         /\ Changed(a, p, money, goods)[p].goods = a[p].goods + goods
         /\ \A q \in Player \ {p} : Changed(a, p, money, goods)[q] = a[q]
         /\ a \in Players => Changed(a, p, money, goods) \in Players
         /\ a \in Saved => Changed(a, p, money, goods) \in Saved
<1> DEFINE e == [money |-> a[p].money + money, goods |-> a[p].goods + goods]
           c == Changed(a, p, money, goods)
<1>1. e \in Account /\ e.money = a[p].money + money /\ e.goods = a[p].goods + goods
  BY DEF Account
<1>2. c = [a EXCEPT ![p] = e]
  BY DEF Changed
<1> HIDE DEF e, c
<1>3. DOMAIN c = Player /\ c[p] = e /\ \A q \in Player \ {p} : c[q] = a[q]
  BY <1>2
<1>4. a \in Players => c \in Players
  BY <1>1, <1>2 DEF Players
<1>5. a \in Saved => c \in Saved
  BY <1>1, <1>2 DEF Saved
<1>6. QED
  BY <1>1, <1>3, <1>4, <1>5 DEF c

Kinds == {"crash", "load", "save"}

\* Faults are of the three kinds.
LEMMA FaultKind ==
  ASSUME NEW kind \in Kinds, faults \subseteq Kinds, Fault(kind)
  PROVE  faults' \subseteq Kinds
BY DEF Fault, Kinds

\* What Inv says of the accounts, of the offers, and of those that are there.
AccountsOK == mem \in Players /\ db \in Saved /\ market \subseteq online
OffersOK ==
  /\ offers \in [Id -> Offer \cup {None, Gone}]
  /\ aged \subseteq Rows /\ sweep \subseteq aged
  /\ row = None \/ row \in [offer : Rows, amount : Nat \ {0}]
  /\ OffersAreCovered

\* The parts of Inv.
LEMMA InvIs == Inv <=> AccountsOK /\ OffersOK /\ faults \subseteq Kinds
BY DEF Inv, TypeOK, AccountsOK, OffersOK, Players, Saved, Kinds

\* Who is online has an account in memory, everybody has one in the database.
LEMMA OnlineIs ==
  ASSUME AccountsOK
  PROVE  /\ \A p \in Player : p \in online <=> mem[p] \in Account
         /\ \A p \in Player : p \notin online <=> mem[p] = None
         /\ \A p \in Player : db[p] \in Account
         /\ DOMAIN mem = Player /\ DOMAIN db = Player
         /\ online \subseteq Player
<1>1. \A p \in Player : mem[p] \in Account \cup {None} /\ db[p] \in Account
  BY DEF AccountsOK, Players, Saved
<1>2. DOMAIN mem = Player /\ DOMAIN db = Player
  BY DEF AccountsOK, Players, Saved
<1>3. \A p \in Player : p \in online <=> mem[p] # None
  BY DEF online
<1>4. online \subseteq Player
  BY DEF online
<1>5. \A p \in Player : mem[p] # None <=> mem[p] \in Account
  BY <1>1, NoneIsNoAccount
<1>6. QED
  BY <1>1, <1>2, <1>3, <1>4, <1>5

\* What the row of an offer says.
LEMMA OfferIs ==
  ASSUME OffersOK, NEW o \in Rows
  PROVE  /\ o \in Id /\ offers[o] \in Offer
         /\ offers[o].owner \in Player /\ offers[o].type \in {"BUY", "SELL"}
         /\ offers[o].price \in Price /\ offers[o].price \in Nat
         /\ offers[o].amount \in Nat /\ offers[o].amount > 0
<1>1. o \in Id /\ offers[o] \in Offer
  BY DEF OffersOK, Rows
<1>2. Price \subseteq Nat
  BY DEF MarketAssumption
<1>3. /\ offers[o].owner \in Player /\ offers[o].type \in {"BUY", "SELL"}
      /\ offers[o].price \in Price /\ offers[o].amount \in Nat \ {0}
  BY <1>1 DEF Offer
<1>4. offers[o].amount \in Nat /\ offers[o].amount > 0
  BY <1>3
<1>5. offers[o].price \in Nat
  BY <1>2, <1>3
<1>6. QED
  BY <1>1, <1>3, <1>4, <1>5, Zenon

\* The row of the running task.
LEMMA RowIs ==
  ASSUME OffersOK, row # None
  PROVE  /\ row.offer \in Rows /\ row.amount \in Nat /\ row.amount > 0
         /\ row.amount <= offers[row.offer].amount
         /\ row.offer \notin sweep
<1>1. row.offer \in Rows /\ row.amount \in Nat /\ row.amount > 0 /\ row.offer \notin sweep
  BY DEF OffersOK, OffersAreCovered
<1>2. Left(row.offer) >= 0 /\ offers[row.offer].amount \in Nat
  BY <1>1, OfferIs DEF OffersOK, OffersAreCovered
<1>3. Left(row.offer) = offers[row.offer].amount - row.amount
  BY DEF Left
<1>4. QED
  BY <1>1, <1>2, <1>3

\* What an offer stands for is what its row says, or less while a task pays it out.
LEMMA LeftIs ==
  ASSUME OffersOK, NEW o \in Rows
  PROVE  /\ Left(o) \in Nat
         /\ (row = None \/ row.offer # o) => Left(o) = offers[o].amount
         /\ (row # None /\ row.offer = o) => Left(o) = offers[o].amount - row.amount
<1>1. /\ (row = None \/ row.offer # o) => Left(o) = offers[o].amount - 0
      /\ (row # None /\ row.offer = o) => Left(o) = offers[o].amount - row.amount
  BY DEF Left
<1>2. offers[o].amount \in Nat
  BY OfferIs
<1>3. row # None => row.amount \in Nat
  BY RowIs
<1>4. Left(o) >= 0
  BY DEF OffersOK, OffersAreCovered
<1>5. QED
  BY <1>1, <1>2, <1>3, <1>4

\* A task pays out for n of what offer o stands for.
LEMMA PaidOutKeeps ==
  ASSUME OffersOK, row = None, NEW o \in Rows, NEW n \in Nat \ {0}, n <= offers[o].amount,
         row' = [offer |-> o, amount |-> n], sweep' = sweep \ {o}, UNCHANGED <<offers, aged>>
  PROVE  OffersOK'
<1>1. row' \in [offer : Rows, amount : Nat \ {0}] /\ row'.offer = o /\ row'.amount = n
  OBVIOUS
<1>2. row' # None
  <2>1. row' \in [offer : Id, amount : Nat]
    BY <1>1 DEF Rows
  <2>2. None \notin [offer : Id, amount : Nat]
    BY DEF MarketAssumption
  <2>3. QED
    BY <2>1, <2>2
<1>3. Rows' = Rows /\ sweep' \subseteq sweep /\ o \notin sweep'
  BY DEF Rows
<1>4. ASSUME NEW x \in Rows PROVE Left(x)' >= 0
  <2>1. offers[x].amount \in Nat
    BY OfferIs
  <2>2. Left(x)' = offers[x].amount - (IF o = x THEN n ELSE 0)
    BY <1>1, <1>2 DEF Left
  <2>3. QED
    BY <2>1, <2>2
<1>5. QED
  BY <1>1, <1>2, <1>3, <1>4 DEF OffersOK, OffersAreCovered

\* Nothing happens to offers that the running task has paid out for.
LEMMA OffersStay ==
  ASSUME OffersOK, UNCHANGED <<offers, row>>, aged' \subseteq Rows, sweep' \subseteq aged',
         row # None => row.offer \notin sweep'
  PROVE  OffersOK'
<1>1. Rows' = Rows /\ \A o \in Rows : Left(o)' = Left(o)
  BY DEF Rows, Left
<1>2. QED
  BY <1>1 DEF OffersOK, OffersAreCovered

\* An offer ends; the others stay as they are.
LEMMA GoneKeeps ==
  ASSUME OffersOK, NEW o \in Rows, OfferIsGone(o), row' = None, sweep' = sweep, o \notin sweep,
         row = None \/ row.offer = o
  PROVE  /\ OffersOK' /\ Rows' = Rows \ {o}
         /\ \A x \in Rows' : offers'[x] = offers[x] /\ Left(x)' = Left(x)
<1>1. /\ o \in Id /\ offers' = [offers EXCEPT ![o] = Gone] /\ aged' = aged \ {o}
      /\ offers \in [Id -> Offer \cup {None, Gone}]
  BY DEF OfferIsGone, OffersOK, Rows
<1>2. /\ offers' \in [Id -> Offer \cup {None, Gone}]
      /\ offers'[o] = Gone /\ \A x \in Id \ {o} : offers'[x] = offers[x]
  BY <1>1
<1>3. Rows' = Rows \ {o}
  BY <1>2 DEF Rows
<1>4. ASSUME NEW x \in Rows' PROVE offers'[x] = offers[x] /\ Left(x)' = Left(x) /\ Left(x)' >= 0
  <2>1. x \in Rows /\ offers'[x] = offers[x] /\ offers[x].amount \in Nat
    BY <1>2, <1>3, <1>4, OfferIs DEF Rows
  <2>2. Left(x) = offers[x].amount - 0 /\ Left(x)' = offers[x].amount - 0
    BY <1>3, <2>1 DEF Left
  <2>3. QED
    BY <2>1, <2>2
<1>5. aged' \subseteq Rows' /\ sweep' \subseteq aged'
  BY <1>1, <1>3 DEF OffersOK
<1>6. QED
  BY <1>2, <1>3, <1>4, <1>5 DEF OffersOK, OffersAreCovered

\* What is not sold yet of an offer that the running task has paid out for.
LEMMA LessKeeps ==
  ASSUME OffersOK, row # None, row.amount # offers[row.offer].amount,
         offers' = [offers EXCEPT ![row.offer].amount = @ - row.amount],
         row' = None, UNCHANGED <<aged, sweep>>
  PROVE  /\ OffersOK' /\ Rows' = Rows
         /\ \A x \in Rows : /\ Left(x)' = Left(x) /\ offers'[x].owner = offers[x].owner
                           /\ offers'[x].type = offers[x].type
                           /\ offers'[x].price = offers[x].price
<1> DEFINE o == row.offer
           e == [offers[o] EXCEPT !.amount = offers[o].amount - row.amount]
<1>1. /\ o \in Rows /\ row.amount \in Nat /\ row.amount > 0
      /\ row.amount < offers[o].amount /\ offers[o].amount \in Nat
  BY RowIs, OfferIs
<1>2. o \in Id /\ offers[o] \in Offer /\ offers \in [Id -> Offer \cup {None, Gone}]
  BY <1>1, OfferIs DEF OffersOK
<1>3. /\ e \in Offer /\ e.amount = offers[o].amount - row.amount
      /\ e.owner = offers[o].owner /\ e.type = offers[o].type /\ e.price = offers[o].price
  <2>1. offers[o].amount - row.amount \in Nat \ {0}
    BY <1>1
  <2> DEFINE n == offers[o].amount - row.amount
  <2> HIDE DEF n
  <2>2. /\ [offers[o] EXCEPT !.amount = n] \in Offer
        /\ [offers[o] EXCEPT !.amount = n].amount = n
        /\ [offers[o] EXCEPT !.amount = n].owner = offers[o].owner
        /\ [offers[o] EXCEPT !.amount = n].type = offers[o].type
        /\ [offers[o] EXCEPT !.amount = n].price = offers[o].price
    BY <1>2, <2>1 DEF Offer, n
  <2>3. QED
    BY <2>2 DEF n
<1>4. offers' = [offers EXCEPT ![o] = e]
  OBVIOUS
<1> HIDE DEF e
<1>5. /\ offers' \in [Id -> Offer \cup {None, Gone}]
      /\ offers'[o] = e /\ \A x \in Id \ {o} : offers'[x] = offers[x]
  BY <1>2, <1>3, <1>4
<1>6. Rows' = Rows
  <2>1. offers'[o] \notin {None, Gone}
    BY <1>3, <1>5 DEF MarketAssumption
  <2>2. QED
    BY <1>1, <1>5, <2>1 DEF Rows
<1>7. ASSUME NEW x \in Rows
      PROVE  /\ Left(x)' = Left(x) /\ Left(x)' >= 0 /\ offers'[x].owner = offers[x].owner
             /\ offers'[x].type = offers[x].type /\ offers'[x].price = offers[x].price
  <2>1. x \in Id /\ offers[x].amount \in Nat
    BY OfferIs
  <2>2. Left(x)' = offers'[x].amount - 0 /\ Left(x) \in Nat
    BY LeftIs DEF Left
  <2>3. CASE x = o
    <3>1. Left(x) = offers[x].amount - row.amount
      BY <2>3, LeftIs
    <3>2. QED
      BY <1>1, <1>3, <1>5, <2>1, <2>2, <2>3, <3>1
  <2>4. CASE x # o
    <3>1. row.offer # x /\ offers'[x] = offers[x]
      BY <1>5, <2>1, <2>4
    <3>2. Left(x) = offers[x].amount
      BY <3>1, LeftIs
    <3>3. QED
      BY <2>1, <2>2, <3>1, <3>2
  <2>5. QED
    BY <2>3, <2>4
<1>8. QED
  BY <1>5, <1>6, <1>7 DEF OffersOK, OffersAreCovered

----------------------------------------------------------------------------
(* What players have, and what counts in their offers *)

HasIn(me, d, p) == IF me[p] # None THEN me[p] ELSE d[p]

\* What somebody has, now and after the step.
LEMMA HasIs ==
  ASSUME NEW p \in Player
  PROVE  Has(p) = HasIn(mem, db, p) /\ Has(p)' = HasIn(mem', db', p)
BY DEF Has, HasIn, online

\* Whatever somebody has is an account.
LEMMA HasType ==
  ASSUME NEW me \in Players, NEW d \in Saved, NEW p \in Player
  PROVE  /\ HasIn(me, d, p) \in Account
         /\ HasIn(me, d, p).money \in Nat /\ HasIn(me, d, p).goods \in Nat
<1>1. HasIn(me, d, p) \in Account
  BY DEF HasIn, Players, Saved
<1>2. QED
  BY <1>1, NoneIsNoAccount

\* p, who is online, is given money and goods.
LEMMA GiveOnline ==
  ASSUME NEW me \in Players, NEW d \in Saved, NEW p \in Player, me[p] # None,
         NEW money \in Int, NEW goods \in Int,
         me[p].money + money \in Nat, me[p].goods + goods \in Nat
  PROVE  LET c == Changed(me, p, money, goods)
         IN  /\ c \in Players /\ \A q \in Player : c[q] # None <=> me[q] # None
             /\ HasIn(c, d, p).money = HasIn(me, d, p).money + money
             /\ HasIn(c, d, p).goods = HasIn(me, d, p).goods + goods
             /\ \A q \in Player \ {p} : HasIn(c, d, q) = HasIn(me, d, q) /\ c[q] = me[q]
             /\ c[p].money = me[p].money + money /\ c[p].goods = me[p].goods + goods
<1> DEFINE c == Changed(me, p, money, goods)
<1>1. DOMAIN me = Player /\ me[p] \in Account
  BY DEF Players
<1>2. /\ c[p] \in Account /\ c[p].money = me[p].money + money /\ c[p].goods = me[p].goods + goods
      /\ \A q \in Player \ {p} : c[q] = me[q]
      /\ c \in Players
  BY <1>1, ChangedIs
<1> HIDE DEF c
<1>3. c[p] # None
  BY <1>2, NoneIsNoAccount
<1>4. HasIn(c, d, p) = c[p] /\ HasIn(me, d, p) = me[p]
  BY <1>3 DEF HasIn
<1>5. \A q \in Player \ {p} : HasIn(c, d, q) = HasIn(me, d, q)
  BY <1>2 DEF HasIn
<1>6. \A q \in Player : c[q] # None <=> me[q] # None
  BY <1>2, <1>3
<1>7. QED
  BY <1>2, <1>4, <1>5, <1>6 DEF c

\* p, who is offline, is given money and goods.
LEMMA GiveOffline ==
  ASSUME NEW me, NEW d \in Saved, NEW p \in Player, me[p] = None,
         NEW money \in Int, NEW goods \in Int,
         d[p].money + money \in Nat, d[p].goods + goods \in Nat
  PROVE  LET c == Changed(d, p, money, goods)
         IN  /\ c \in Saved
             /\ HasIn(me, c, p).money = HasIn(me, d, p).money + money
             /\ HasIn(me, c, p).goods = HasIn(me, d, p).goods + goods
             /\ \A q \in Player \ {p} : HasIn(me, c, q) = HasIn(me, d, q) /\ c[q] = d[q]
<1> DEFINE c == Changed(d, p, money, goods)
<1>1. DOMAIN d = Player /\ d[p] \in Account
  BY DEF Saved
<1>2. /\ c[p].money = d[p].money + money /\ c[p].goods = d[p].goods + goods
      /\ \A q \in Player \ {p} : c[q] = d[q]
      /\ c \in Saved
  BY <1>1, ChangedIs
<1> HIDE DEF c
<1>3. HasIn(me, c, p) = c[p] /\ HasIn(me, d, p) = d[p]
  BY DEF HasIn
<1>4. \A q \in Player \ {p} : HasIn(me, c, q) = HasIn(me, d, q)
  BY <1>2 DEF HasIn
<1>5. QED
  BY <1>2, <1>3, <1>4 DEF c

InOffersOK ==
  \A p \in Player :
    /\ MoneyIn(p) \in [Id -> Int] /\ GoodsIn(p) \in [Id -> Int]
    /\ SumFunction(MoneyIn(p)) \in Int /\ SumFunction(GoodsIn(p)) \in Int

\* What is in offers are integers, so that it can be summed up.
LEMMA InOffersType == OffersOK => InOffersOK
<1> SUFFICES ASSUME OffersOK, NEW p \in Player
             PROVE  /\ MoneyIn(p) \in [Id -> Int] /\ GoodsIn(p) \in [Id -> Int]
                    /\ SumFunction(MoneyIn(p)) \in Int /\ SumFunction(GoodsIn(p)) \in Int
  BY DEF InOffersOK
<1>1. \A o \in OwnOffers(p) : Left(o) \in Nat /\ offers[o].price * Left(o) \in Nat
  <2> SUFFICES ASSUME NEW o \in OwnOffers(p)
               PROVE  Left(o) \in Nat /\ offers[o].price * Left(o) \in Nat
    OBVIOUS
  <2>1. o \in Rows
    BY DEF OwnOffers
  <2>2. Left(o) \in Nat /\ offers[o].price \in Nat
    BY <2>1, LeftIs, OfferIs
  <2>3. QED
    BY <2>2, ProductType
<1>2. MoneyIn(p) \in [Id -> Int] /\ GoodsIn(p) \in [Id -> Int]
  BY <1>1 DEF MoneyIn, GoodsIn
<1>3. IsFiniteSet(Id)
  BY DEF MarketAssumption
<1>4. QED
  BY <1>2, <1>3, SumIsInt

\* Nothing that counts in offers changes.
SameInOffers ==
  \A p \in Player : MoneyIn(p)' = MoneyIn(p) /\ GoodsIn(p)' = GoodsIn(p)

\* The same offers, with what is left of them, count the same.
LEMMA OffersAlike ==
  ASSUME Rows' = Rows,
         \A x \in Rows : /\ Left(x)' = Left(x) /\ offers'[x].owner = offers[x].owner
                         /\ offers'[x].type = offers[x].type /\ offers'[x].price = offers[x].price
  PROVE  SameInOffers
<1> SUFFICES ASSUME NEW p \in Player
             PROVE  MoneyIn(p)' = MoneyIn(p) /\ GoodsIn(p)' = GoodsIn(p)
  BY DEF SameInOffers
<1>1. OwnOffers(p)' = OwnOffers(p) /\ OwnOffers(p) \subseteq Rows
  BY DEF OwnOffers
<1>2. \A o \in OwnOffers(p) : /\ Left(o)' = Left(o) /\ offers'[o].type = offers[o].type
                              /\ offers'[o].price = offers[o].price
  BY <1>1
<1>3. MoneyIn(p)' = MoneyIn(p)
  BY <1>1, <1>2 DEF MoneyIn
<1>4. GoodsIn(p)' = GoodsIn(p)
  BY <1>1, <1>2 DEF GoodsIn
<1>5. QED
  BY <1>3, <1>4

\* Offers that do not change count the same.
LEMMA OffersSame ==
  ASSUME UNCHANGED <<offers, row>>
  PROVE  SameInOffers
<1>1. Rows' = Rows /\ \A x : Left(x)' = Left(x)
  BY DEF Rows, Left
<1>2. QED
  BY <1>1, OffersAlike

\* What counts in offer o for p.
MoneyOf(p, o) == MoneyIn(p)[o]
GoodsOf(p, o) == GoodsIn(p)[o]

\* Only offer o changes.
LEMMA OneOfferChanges ==
  ASSUME OffersOK, OffersOK', NEW o \in Id, Rows' \ {o} = Rows \ {o},
         \A x \in Rows \ {o} : offers'[x] = offers[x] /\ Left(x)' = Left(x),
         NEW p \in Player
  PROVE  /\ SumFunction(MoneyIn(p))' = SumFunction(MoneyIn(p)) + MoneyOf(p, o)' - MoneyOf(p, o)
         /\ SumFunction(GoodsIn(p))' = SumFunction(GoodsIn(p)) + GoodsOf(p, o)' - GoodsOf(p, o)
<1>1. /\ MoneyIn(p) \in [Id -> Int] /\ GoodsIn(p) \in [Id -> Int]
      /\ MoneyIn(p)' \in [Id -> Int] /\ GoodsIn(p)' \in [Id -> Int]
  <2>1. InOffersOK
    BY InOffersType
  <2>2. (OffersOK => InOffersOK)'
    BY InOffersType, PTL
  <2>3. QED
    BY <2>1, <2>2 DEF InOffersOK
<1>2. ASSUME NEW x \in Id \ {o}
      PROVE  MoneyIn(p)'[x] = MoneyIn(p)[x] /\ GoodsIn(p)'[x] = GoodsIn(p)[x]
  <2>1. /\ x \in Rows' <=> x \in Rows
        /\ x \in Rows => offers'[x] = offers[x] /\ Left(x)' = Left(x)
    OBVIOUS
  <2>2. /\ x \in OwnOffers(p)' <=> x \in OwnOffers(p)
        /\ x \in OwnOffers(p) => offers'[x] = offers[x] /\ Left(x)' = Left(x)
    BY <2>1 DEF OwnOffers
  <2>3. QED
    BY <2>2 DEF MoneyIn, GoodsIn
<1>3. IsFiniteSet(Id)
  BY DEF MarketAssumption
<1>4. /\ SumFunction(MoneyIn(p)') = SumFunction(MoneyIn(p)) + MoneyIn(p)'[o] - MoneyIn(p)[o]
      /\ SumFunction(GoodsIn(p)') = SumFunction(GoodsIn(p)) + GoodsIn(p)'[o] - GoodsIn(p)[o]
  BY <1>1, <1>2, <1>3, SumChanges
<1>5. QED
  BY <1>4 DEF MoneyOf, GoodsOf

\* What one offer counts for one player.
LEMMA InOfferIs ==
  ASSUME NEW o \in Id, NEW p \in Player
  PROVE  /\ MoneyOf(p, o) = IF o \in Rows /\ offers[o].owner = p /\ offers[o].type = "BUY"
                            THEN offers[o].price * Left(o) ELSE 0
         /\ GoodsOf(p, o) = IF o \in Rows /\ offers[o].owner = p /\ offers[o].type = "SELL"
                            THEN Left(o) ELSE 0
BY DEF MoneyOf, GoodsOf, MoneyIn, GoodsIn, OwnOffers

\* What it means that p's worth changes by so much.
LEMMA WorthBy ==
  ASSUME NEW p \in Player, NEW money, NEW goods,
         Has(p)'.money + SumFunction(MoneyIn(p))' = (Has(p).money + SumFunction(MoneyIn(p))) + money,
         Has(p)'.goods + SumFunction(GoodsIn(p))' = (Has(p).goods + SumFunction(GoodsIn(p))) + goods
  PROVE  Worth(p)' = Gets(Worth(p), money, goods)
BY DEF Worth, Gets

\* Worth is made of integers.
LEMMA WorthType ==
  ASSUME AccountsOK, OffersOK, NEW p \in Player
  PROVE  /\ Has(p).money \in Nat /\ Has(p).goods \in Nat
         /\ SumFunction(MoneyIn(p)) \in Int /\ SumFunction(GoodsIn(p)) \in Int
         /\ Worth(p) \in [money : Int, goods : Int]
         /\ Gets(Worth(p), 0, 0) = Worth(p)
<1>1. Has(p).money \in Nat /\ Has(p).goods \in Nat
  BY HasIs, HasType DEF AccountsOK
<1>2. SumFunction(MoneyIn(p)) \in Int /\ SumFunction(GoodsIn(p)) \in Int
  BY InOffersType DEF InOffersOK
<1>3. Worth(p) \in [money : Int, goods : Int]
  BY <1>1, <1>2 DEF Worth
<1>4. Gets(Worth(p), 0, 0) = Worth(p)
  <2>1. \A i \in Int : i + 0 = i
    OBVIOUS
  <2>2. QED
    BY <1>3, <2>1 DEF Gets
<1>5. QED
  BY <1>1, <1>2, <1>3, <1>4

\* Who keeps what it has, and what is in its offers, keeps its worth.
LEMMA WorthStays ==
  ASSUME NEW p \in Player, Has(p)' = Has(p), SameInOffers
  PROVE  Worth(p)' = Worth(p)
BY DEF Worth, SameInOffers

----------------------------------------------------------------------------
(* Who gets what *)

\* p gets money and goods, wherever it is; nobody else does.
Gives(p, money, goods) ==
  /\ mem' \in Players /\ db' \in Saved
  /\ \A x \in Player : mem'[x] # None <=> mem[x] # None
  /\ \A x \in Player :
       /\ Has(x)'.money = Has(x).money + IF x = p THEN money ELSE 0
       /\ Has(x)'.goods = Has(x).goods + IF x = p THEN goods ELSE 0

\* One player gets or gives, in memory or in the database, and nobody else notices.
LEMMA OneGets ==
  ASSUME AccountsOK, NEW p \in Player, NEW money \in Int, NEW goods \in Int,
         Has(p).money + money \in Nat, Has(p).goods + goods \in Nat,
         \/ mem[p] # None /\ mem' = Changed(mem, p, money, goods) /\ db' = db
         \/ mem[p] = None /\ mem' = mem /\ db' = Changed(db, p, money, goods)
  PROVE  /\ Gives(p, money, goods)
         /\ \A x \in Player \ {p} : mem'[x] = mem[x] /\ db'[x] = db[x]
<1>1. mem \in Players /\ db \in Saved
  BY DEF AccountsOK
<1>2. \A x \in Player : /\ Has(x) = HasIn(mem, db, x) /\ Has(x)' = HasIn(mem', db', x)
                        /\ Has(x).money \in Nat /\ Has(x).goods \in Nat
  BY <1>1, HasIs, HasType
<1>3. CASE mem[p] # None /\ mem' = Changed(mem, p, money, goods) /\ db' = db
  <2>1. Has(p) = mem[p]
    BY <1>2, <1>3 DEF HasIn
  <2>2. /\ mem' \in Players /\ \A q \in Player : mem'[q] # None <=> mem[q] # None
        /\ HasIn(mem', db, p).money = HasIn(mem, db, p).money + money
        /\ HasIn(mem', db, p).goods = HasIn(mem, db, p).goods + goods
        /\ \A q \in Player \ {p} : HasIn(mem', db, q) = HasIn(mem, db, q) /\ mem'[q] = mem[q]
    BY <1>1, <1>3, <2>1, GiveOnline
  <2>3. QED
    BY <1>1, <1>2, <1>3, <2>2 DEF Gives
<1>4. CASE mem[p] = None /\ mem' = mem /\ db' = Changed(db, p, money, goods)
  <2>1. Has(p) = db[p]
    BY <1>2, <1>4 DEF HasIn
  <2>2. /\ db' \in Saved
        /\ HasIn(mem, db', p).money = HasIn(mem, db, p).money + money
        /\ HasIn(mem, db', p).goods = HasIn(mem, db, p).goods + goods
        /\ \A q \in Player \ {p} : HasIn(mem, db', q) = HasIn(mem, db, q) /\ db'[q] = db[q]
    BY <1>1, <1>4, <2>1, GiveOffline
  <2>3. QED
    BY <1>1, <1>2, <1>4, <2>2 DEF Gives
<1>5. QED
  BY <1>3, <1>4

\* p, who is online, gives and takes, and then q gets something, wherever it is.
Moved(p, q, m1, g1, m2, g2) ==
  /\ mem' \in Players /\ db' \in Saved
  /\ \A x \in Player : mem'[x] # None <=> mem[x] # None
  /\ \A x \in Player :
       /\ Has(x)'.money = Has(x).money + (IF x = p THEN m1 ELSE 0) + (IF x = q THEN m2 ELSE 0)
       /\ Has(x)'.goods = Has(x).goods + (IF x = p THEN g1 ELSE 0) + (IF x = q THEN g2 ELSE 0)

\* Two players do, one of them online; they may be the same.
LEMMA TwoGet ==
  ASSUME AccountsOK, NEW p \in Player, NEW q \in Player, mem[p] # None,
         NEW m1 \in Int, NEW g1 \in Int, NEW m2 \in Nat, NEW g2 \in Nat,
         mem[p].money + m1 \in Nat, mem[p].goods + g1 \in Nat,
         \/ mem[q] # None /\ mem' = Changed(Changed(mem, p, m1, g1), q, m2, g2) /\ db' = db
         \/ mem[q] = None /\ mem' = Changed(mem, p, m1, g1) /\ db' = Changed(db, q, m2, g2)
  PROVE  Moved(p, q, m1, g1, m2, g2)
<1> DEFINE c == Changed(mem, p, m1, g1)
<1>1. mem \in Players /\ db \in Saved
  BY DEF AccountsOK
<1>2. \A x \in Player : /\ Has(x) = HasIn(mem, db, x) /\ Has(x)' = HasIn(mem', db', x)
                        /\ Has(x).money \in Nat /\ Has(x).goods \in Nat
  BY <1>1, HasIs, HasType
<1>3. /\ c \in Players /\ \A x \in Player : c[x] # None <=> mem[x] # None
      /\ HasIn(c, db, p).money = HasIn(mem, db, p).money + m1
      /\ HasIn(c, db, p).goods = HasIn(mem, db, p).goods + g1
      /\ \A x \in Player \ {p} : HasIn(c, db, x) = HasIn(mem, db, x)
  BY <1>1, GiveOnline
<1>4. \/ mem[q] # None /\ mem' = Changed(c, q, m2, g2) /\ db' = db
      \/ mem[q] = None /\ mem' = c /\ db' = Changed(db, q, m2, g2)
  OBVIOUS
<1> HIDE DEF c
<1>5. \A x \in Player : HasIn(c, db, x).money \in Nat /\ HasIn(c, db, x).goods \in Nat
  BY <1>1, <1>3, HasType
<1>6. /\ mem' \in Players /\ db' \in Saved
      /\ \A x \in Player : mem'[x] # None <=> c[x] # None
      /\ HasIn(mem', db', q).money = HasIn(c, db, q).money + m2
      /\ HasIn(mem', db', q).goods = HasIn(c, db, q).goods + g2
      /\ \A x \in Player \ {q} : HasIn(mem', db', x) = HasIn(c, db, x)
  <2>1. HasIn(c, db, q).money + m2 \in Nat /\ HasIn(c, db, q).goods + g2 \in Nat
    BY <1>5
  <2>2. CASE mem[q] # None /\ mem' = Changed(c, q, m2, g2) /\ db' = db
    <3>1. HasIn(c, db, q) = c[q] /\ c[q] # None
      BY <1>3, <2>2 DEF HasIn
    <3>2. c[q].money + m2 \in Nat /\ c[q].goods + g2 \in Nat
      BY <2>1, <3>1
    <3>3. QED
      BY <1>1, <1>3, <2>2, <3>1, <3>2, GiveOnline
  <2>3. CASE mem[q] = None /\ mem' = c /\ db' = Changed(db, q, m2, g2)
    <3>1. HasIn(c, db, q) = db[q] /\ c[q] = None
      BY <1>3, <2>3 DEF HasIn
    <3>2. db[q].money + m2 \in Nat /\ db[q].goods + g2 \in Nat
      BY <2>1, <3>1
    <3>3. QED
      BY <1>1, <1>3, <2>3, <3>1, <3>2, GiveOffline
  <2>4. QED
    BY <1>4, <2>2, <2>3
<1>7. ASSUME NEW x \in Player
      PROVE  /\ Has(x)'.money = Has(x).money + (IF x = p THEN m1 ELSE 0) + (IF x = q THEN m2 ELSE 0)
             /\ Has(x)'.goods = Has(x).goods + (IF x = p THEN g1 ELSE 0) + (IF x = q THEN g2 ELSE 0)
  <2>1. /\ Has(x)'.money = HasIn(c, db, x).money + IF x = q THEN m2 ELSE 0
        /\ Has(x)'.goods = HasIn(c, db, x).goods + IF x = q THEN g2 ELSE 0
    BY <1>2, <1>5, <1>6
  <2>2. /\ HasIn(c, db, x).money = Has(x).money + IF x = p THEN m1 ELSE 0
        /\ HasIn(c, db, x).goods = Has(x).goods + IF x = p THEN g1 ELSE 0
    BY <1>2, <1>3
  <2>3. QED
    BY <1>2, <2>1, <2>2
<1>8. QED
  BY <1>3, <1>6, <1>7 DEF Moved

\* Accounts change, and nobody comes or goes.
LEMMA NobodyMoves ==
  ASSUME AccountsOK, mem' \in Players, db' \in Saved,
         \A x \in Player : mem'[x] # None <=> mem[x] # None,
         market' \subseteq online
  PROVE  AccountsOK' /\ online' = online
<1>1. online' = online
  BY DEF online
<1>2. QED
  BY <1>1 DEF AccountsOK
----------------------------------------------------------------------------

\* What was loaded is what was saved.
LEMMA LoginKeeps ==
  ASSUME Inv, NEW p \in Player, Login(p)
  PROVE  /\ Inv' /\ online' = online \cup {p} /\ p \notin online
         /\ SameInOffers /\ \A q \in Player : Has(q)' = Has(q)
<1>1. AccountsOK /\ OffersOK /\ faults \subseteq Kinds
  BY InvIs
<1>2. mem \in Players /\ db \in Saved /\ db[p] \in Account /\ p \notin online
  BY <1>1, OnlineIs DEF AccountsOK, Login
<1>3. mem' = [mem EXCEPT ![p] = db[p]] /\ UNCHANGED <<market, db, offers, aged, row, sweep, faults>>
  BY DEF Login
<1>4. /\ mem' \in Players /\ mem'[p] = db[p] /\ \A q \in Player \ {p} : mem'[q] = mem[q]
  BY <1>2, <1>3 DEF Players
<1>5. online' = online \cup {p}
  BY <1>2, <1>4, NoneIsNoAccount DEF online
<1>6. AccountsOK'
  BY <1>1, <1>3, <1>4, <1>5 DEF AccountsOK
<1>7. OffersOK' /\ SameInOffers
  BY <1>1, <1>3, OffersStay, OffersSame DEF OffersOK, OffersAreCovered
<1>8. \A q \in Player : Has(q)' = Has(q)
  BY <1>2, <1>3, <1>4, <1>5 DEF Has
<1>9. Inv'
  BY <1>1, <1>3, <1>6, <1>7 DEF Inv, TypeOK, AccountsOK, OffersOK, Players, Saved, Kinds
<1>10. QED
  BY <1>2, <1>5, <1>7, <1>8, <1>9

\* What is saved is what there was, but for a save that fails.
LEMMA LogoutKeeps ==
  ASSUME Inv, NEW p \in Player, Logout(p)
  PROVE  /\ Inv' /\ online' = online \ {p} /\ p \in online
         /\ SameInOffers /\ \A q \in Player \ {p} : Has(q)' = Has(q)
         /\ "save" \notin faults' => Has(p)' = Has(p)
<1>1. AccountsOK /\ OffersOK /\ faults \subseteq Kinds
  BY InvIs
<1>2. mem \in Players /\ db \in Saved /\ mem[p] \in Account /\ p \in online
  BY <1>1, OnlineIs DEF AccountsOK, Logout
<1>3. /\ mem' = [mem EXCEPT ![p] = None] /\ market' = market \ {p}
      /\ UNCHANGED <<offers, aged, row, sweep>>
  BY DEF Logout
<1>4. /\ mem' \in Players /\ mem'[p] = None /\ \A q \in Player \ {p} : mem'[q] = mem[q]
  BY <1>2, <1>3 DEF Players
<1>5. online' = online \ {p}
  BY <1>2, <1>4 DEF online
<1>6. /\ db' \in Saved /\ \A q \in Player \ {p} : db'[q] = db[q]
      /\ faults' \subseteq Kinds
      /\ "save" \notin faults' => db'[p] = mem[p]
  <2>1. CASE db' = [db EXCEPT ![p] = mem[p]] /\ UNCHANGED faults
    BY <1>1, <1>2, <2>1 DEF Saved
  <2>2. CASE Fault("save") /\ UNCHANGED db
    <3>1. "save" \in faults' /\ faults' \subseteq Kinds
      BY <1>1, <2>2 DEF Fault, Kinds
    <3>2. QED
      BY <1>2, <2>2, <3>1
  <2>3. QED
    BY <2>1, <2>2 DEF Logout
<1>7. AccountsOK'
  BY <1>1, <1>3, <1>4, <1>5, <1>6 DEF AccountsOK
<1>8. OffersOK' /\ SameInOffers
  BY <1>1, <1>3, OffersStay, OffersSame DEF OffersOK, OffersAreCovered
<1>9. /\ \A q \in Player \ {p} : Has(q)' = Has(q)
      /\ "save" \notin faults' => Has(p)' = Has(p)
  BY <1>2, <1>4, <1>5, <1>6 DEF Has
<1>10. Inv'
  BY <1>6, <1>7, <1>8 DEF Inv, TypeOK, AccountsOK, OffersOK, Players, Saved, Kinds
<1>11. QED
  BY <1>2, <1>5, <1>8, <1>9, <1>10

\* What neither moves anything nor lets anybody come or go.
LEMMA QuietKeeps ==
  ASSUME Inv, \/ SaveGameState
              \/ \E p \in Player : EnterMarket(p) \/ LeaveMarket(p)
              \/ CheckExpired
              \/ \E o \in Id : Age(o) \/ ExpireSkips(o)
  PROVE  /\ Inv' /\ online' = online
         /\ SameInOffers /\ \A q \in Player : Has(q)' = Has(q)
<1>1. AccountsOK /\ OffersOK /\ faults \subseteq Kinds
  BY InvIs
<1>2. mem \in Players /\ db \in Saved /\ UNCHANGED <<mem, offers, row, faults>>
  BY <1>1 DEF AccountsOK, SaveGameState, EnterMarket, LeaveMarket, CheckExpired, Age, ExpireSkips
<1>3. online' = online
  BY <1>2 DEF online
<1>4. db' \in Saved /\ \A q \in Player \ online : db'[q] = db[q]
  <2>1. CASE SaveGameState
    <3>1. PICK S \in SUBSET online : db' = [p \in Player |-> IF p \in S THEN mem[p] ELSE db[p]]
      BY <2>1 DEF SaveGameState
    <3>2. \A p \in S : mem[p] \in Account
      BY <1>1, OnlineIs
    <3>3. QED
      BY <1>2, <3>1, <3>2 DEF Saved
  <2>2. CASE ~SaveGameState
    <3>1. db' = db
      BY <2>2 DEF EnterMarket, LeaveMarket, CheckExpired, Age, ExpireSkips
    <3>2. QED
      BY <1>2, <3>1
  <2>3. QED
    BY <2>1, <2>2
<1>5. market' \subseteq online
  BY <1>1 DEF AccountsOK, SaveGameState, EnterMarket, LeaveMarket, CheckExpired, Age, ExpireSkips
<1>6. AccountsOK'
  BY <1>2, <1>3, <1>4, <1>5 DEF AccountsOK
<1>7. /\ aged' \subseteq Rows /\ sweep' \subseteq aged'
      /\ row # None => row.offer \notin sweep'
  BY <1>1 DEF SaveGameState, EnterMarket, LeaveMarket, CheckExpired, Age, ExpireSkips,
              OffersOK, OffersAreCovered, Idle
<1>8. OffersOK' /\ SameInOffers
  <2>1. OffersOK /\ UNCHANGED <<offers, row>>
    BY <1>1, <1>2
  <2>2. OffersOK'
    BY <1>7, <2>1, OffersStay
  <2>3. SameInOffers
    BY <1>2, OffersSame
  <2>4. QED
    BY <2>2, <2>3
<1>9. \A q \in Player : Has(q)' = Has(q)
  BY <1>2, <1>3, <1>4 DEF Has
<1>10. Inv'
  BY <1>1, <1>2, <1>6, <1>8 DEF Inv, TypeOK, AccountsOK, OffersOK, Players, Saved, Kinds
<1>11. QED
  BY <1>3, <1>8, <1>9, <1>10

----------------------------------------------------------------------------
(* The handlers of the market *)

\* Inv from its parts, after the step.
LEMMA InvNext ==
  ASSUME AccountsOK', OffersOK', faults' \subseteq Kinds
  PROVE  Inv'
BY DEF Inv, TypeOK, AccountsOK, OffersOK, Players, Saved, Kinds

\* A new offer takes its stake from the account, which counts in the offer again, and its fee.
LEMMA CreateKeeps ==
  ASSUME Inv, NEW p \in Player, NEW type \in {"BUY", "SELL"}, NEW price \in Price,
         NEW amount \in Amount, CreateOffer(p, type, price, amount)
  PROVE  /\ Inv' /\ online' = online /\ p \in online
         /\ \A q \in Player \ {p} : Worth(q)' = Worth(q)
         /\ FeeIsTaken
<1> DEFINE stake == IF type = "SELL" THEN SellStake(price, amount) ELSE BuyStake(price, amount)
           fee == Fee(price, amount)
           m == stake.money
           g == stake.goods
           money == IF type = "BUY" THEN price * amount ELSE 0
           goods == IF type = "SELL" THEN amount ELSE 0
<1>1. AccountsOK /\ OffersOK /\ faults \subseteq Kinds
  BY InvIs
<1>2. /\ p \in online /\ mem[p] \in Account /\ mem[p] # None
      /\ mem[p].money \in Nat /\ mem[p].goods \in Nat
  BY <1>1, OnlineIs, NoneIsNoAccount DEF AccountsOK, CreateOffer, AtMarket
<1>3. price \in Nat /\ amount \in Nat /\ amount > 0 /\ fee \in Nat /\ price * amount \in Nat
  <2>1. price \in Nat /\ amount \in Nat \ {0}
    BY DEF MarketAssumption
  <2>2. QED
    BY <2>1, FeeType, ProductType
<1>4. /\ m = money + fee /\ g = goods /\ money \in Nat /\ goods \in Nat
  <2>1. CASE type = "SELL"
    BY <1>3, <2>1 DEF SellStake
  <2>2. CASE type = "BUY"
    BY <1>3, <2>2 DEF BuyStake
  <2>3. QED
    BY <2>1, <2>2
<1>5. /\ m <= mem[p].money /\ g <= mem[p].goods
      /\ mem' = Changed(mem, p, -m, -g) /\ db' = db
      /\ UNCHANGED <<market, db, aged, row, sweep, faults>> /\ row = None /\ sweep = {}
  BY DEF CreateOffer, AtMarket, Idle
<1>6. PICK o \in Id : /\ offers[o] = None
                      /\ offers' = [offers EXCEPT ![o] =
                           [owner |-> p, type |-> type, price |-> price, amount |-> amount]]
  BY DEF CreateOffer
<1> HIDE DEF stake, m, g, fee
<1>7. Gives(p, -m, -g)
  <2>1. Has(p) = mem[p]
    BY <1>2 DEF Has
  <2>2. -m \in Int /\ -g \in Int /\ Has(p).money + (-m) \in Nat /\ Has(p).goods + (-g) \in Nat
    BY <1>2, <1>3, <1>4, <1>5, <2>1
  <2>3. QED
    BY <1>1, <1>2, <1>5, <2>2, OneGets
<1>8. AccountsOK' /\ online' = online
  BY <1>1, <1>5, <1>7, NobodyMoves DEF Gives, AccountsOK
<1> DEFINE e == [owner |-> p, type |-> type, price |-> price, amount |-> amount]
<1>9. /\ e \in Offer /\ e.owner = p /\ e.type = type /\ e.price = price /\ e.amount = amount
      /\ e \notin {None, Gone}
  <2>1. /\ e \in Offer /\ e.owner = p /\ e.type = type /\ e.price = price /\ e.amount = amount
    BY <1>3 DEF Offer
  <2>2. QED
    BY <2>1 DEF MarketAssumption
<1>10. offers' = [offers EXCEPT ![o] = e]
  BY <1>6
<1> HIDE DEF e
<1>11. /\ offers' \in [Id -> Offer \cup {None, Gone}] /\ offers'[o] = e
       /\ \A x \in Id \ {o} : offers'[x] = offers[x]
  BY <1>1, <1>9, <1>10 DEF OffersOK
<1>12. Rows' = Rows \cup {o} /\ o \notin Rows
  BY <1>6, <1>9, <1>11 DEF Rows
<1>13. \A x \in Rows : offers'[x] = offers[x] /\ Left(x)' = Left(x)
  BY <1>5, <1>11, <1>12 DEF Left, Rows
<1>14. Left(o)' = amount
  BY <1>3, <1>5, <1>9, <1>11 DEF Left
<1>15. OffersOK'
  <2>1. \A x \in Rows' : Left(x)' >= 0
    BY <1>1, <1>3, <1>12, <1>13, <1>14, LeftIs
  <2>2. QED
    BY <1>1, <1>5, <1>11, <1>12, <2>1 DEF OffersOK, OffersAreCovered
<1>16. ASSUME NEW q \in Player
       PROVE  /\ SumFunction(MoneyIn(q))' = SumFunction(MoneyIn(q)) + IF q = p THEN money ELSE 0
              /\ SumFunction(GoodsIn(q))' = SumFunction(GoodsIn(q)) + IF q = p THEN goods ELSE 0
  <2>1. /\ SumFunction(MoneyIn(q))' = SumFunction(MoneyIn(q)) + MoneyOf(q, o)' - MoneyOf(q, o)
        /\ SumFunction(GoodsIn(q))' = SumFunction(GoodsIn(q)) + GoodsOf(q, o)' - GoodsOf(q, o)
    BY <1>1, <1>12, <1>13, <1>15, OneOfferChanges
  <2>2. MoneyOf(q, o) = 0 /\ GoodsOf(q, o) = 0
    BY <1>12, InOfferIs
  <2>3. /\ MoneyOf(q, o)' = IF q = p THEN money ELSE 0
        /\ GoodsOf(q, o)' = IF q = p THEN goods ELSE 0
    BY <1>9, <1>11, <1>12, <1>14 DEF MoneyOf, GoodsOf, MoneyIn, GoodsIn, OwnOffers
  <2>4. SumFunction(MoneyIn(q)) \in Int /\ SumFunction(GoodsIn(q)) \in Int
    BY <1>1, WorthType
  <2> HIDE DEF money, goods
  <2>5. QED
    BY <1>4, <2>1, <2>2, <2>3, <2>4
<1> HIDE DEF money, goods
<1>17. \A q \in Player : Worth(q)' = IF q # p THEN Worth(q) ELSE Gets(Worth(q), -fee, 0)
  <2> SUFFICES ASSUME NEW q \in Player
               PROVE  Worth(q)' = IF q # p THEN Worth(q) ELSE Gets(Worth(q), -fee, 0)
    OBVIOUS
  <2>1. /\ Has(q).money \in Nat /\ Has(q).goods \in Nat
        /\ SumFunction(MoneyIn(q)) \in Int /\ SumFunction(GoodsIn(q)) \in Int
        /\ Gets(Worth(q), 0, 0) = Worth(q)
    BY <1>1, WorthType
  <2>2. /\ Has(q)'.money = Has(q).money + IF q = p THEN -m ELSE 0
        /\ Has(q)'.goods = Has(q).goods + IF q = p THEN -g ELSE 0
    BY <1>7 DEF Gives
  <2>3. CASE q = p
    <3>1. /\ Has(q)'.money + SumFunction(MoneyIn(q))' = (Has(q).money + SumFunction(MoneyIn(q))) + (-fee)
          /\ Has(q)'.goods + SumFunction(GoodsIn(q))' = (Has(q).goods + SumFunction(GoodsIn(q))) + 0
      BY <1>3, <1>4, <1>16, <2>1, <2>2, <2>3
    <3>2. QED
      BY <2>3, <3>1, WorthBy
  <2>4. CASE q # p
    <3>1. /\ Has(q)'.money + SumFunction(MoneyIn(q))' = (Has(q).money + SumFunction(MoneyIn(q))) + 0
          /\ Has(q)'.goods + SumFunction(GoodsIn(q))' = (Has(q).goods + SumFunction(GoodsIn(q))) + 0
      BY <1>16, <2>1, <2>2, <2>4
    <3>2. QED
      BY <2>1, <2>4, <3>1, WorthBy
  <2>5. QED
    BY <2>3, <2>4
<1>18. FeeIsTaken
  <2>1. /\ o \in Rows' \ Rows /\ offers'[o].owner = p
        /\ fee = Fee(offers'[o].price, offers'[o].amount)
    BY <1>9, <1>11, <1>12 DEF fee
  <2>2. QED
    BY <1>17, <2>1 DEF FeeIsTaken
<1>19. Inv'
  BY <1>1, <1>5, <1>8, <1>15, InvNext
<1>20. QED
  BY <1>2, <1>8, <1>17, <1>18, <1>19

\* Products distribute over differences.
LEMMA Distributes ==
  ASSUME NEW a \in Int, NEW b \in Int, NEW c \in Int
  PROVE  a * (b - c) = a * b - a * c /\ a * b \in Int /\ a * c \in Int
OBVIOUS

\* Worth follows what accounts and offers do.
LEMMA WorthMoves ==
  ASSUME AccountsOK, OffersOK, NEW q \in Player,
         NEW m \in Int, NEW g \in Int, NEW i \in Int, NEW j \in Int,
         Has(q)'.money = Has(q).money + m, Has(q)'.goods = Has(q).goods + g,
         SumFunction(MoneyIn(q))' = SumFunction(MoneyIn(q)) + i,
         SumFunction(GoodsIn(q))' = SumFunction(GoodsIn(q)) + j
  PROVE  Worth(q)' = Gets(Worth(q), m + i, g + j)
<1>1. /\ Has(q).money \in Nat /\ Has(q).goods \in Nat
      /\ SumFunction(MoneyIn(q)) \in Int /\ SumFunction(GoodsIn(q)) \in Int
  BY WorthType
<1>2. /\ Has(q)'.money + SumFunction(MoneyIn(q))' = (Has(q).money + SumFunction(MoneyIn(q))) + (m + i)
      /\ Has(q)'.goods + SumFunction(GoodsIn(q))' = (Has(q).goods + SumFunction(GoodsIn(q))) + (g + j)
  BY <1>1
<1>3. QED
  BY <1>2, WorthBy

\* While the row of an offer waits, what was paid out no longer counts in the offer.
LEMMA RowPays ==
  ASSUME OffersOK, row = None, NEW o \in Rows, NEW n \in Nat \ {0}, n <= offers[o].amount,
         row' = [offer |-> o, amount |-> n], sweep' = sweep \ {o}, UNCHANGED <<offers, aged>>
  PROVE  /\ OffersOK'
         /\ \A q \in Player :
              /\ SumFunction(MoneyIn(q))' = SumFunction(MoneyIn(q)) -
                   IF q = offers[o].owner /\ offers[o].type = "BUY" THEN offers[o].price * n ELSE 0
              /\ SumFunction(GoodsIn(q))' = SumFunction(GoodsIn(q)) -
                   IF q = offers[o].owner /\ offers[o].type = "SELL" THEN n ELSE 0
<1>1. OffersOK'
  BY PaidOutKeeps
<1>2. row' # None /\ row'.offer = o /\ row'.amount = n
  <2>1. [offer |-> o, amount |-> n] \in [offer : Id, amount : Nat]
    BY DEF Rows
  <2>2. None \notin [offer : Id, amount : Nat]
    BY DEF MarketAssumption
  <2>3. QED
    BY <2>1, <2>2
<1>3. /\ Rows' = Rows /\ \A x \in Rows \ {o} : Left(x)' = Left(x) /\ offers'[x] = offers[x]
      /\ Left(o)' = offers[o].amount - n /\ Left(o) = offers[o].amount
      /\ offers[o].amount \in Nat /\ offers[o].price \in Nat
  <2>1. Rows' = Rows
    BY DEF Rows
  <2>2. \A x \in Rows \ {o} : Left(x)' = Left(x) /\ offers'[x] = offers[x]
    BY <1>2 DEF Left
  <2>3. Left(o)' = offers[o].amount - n
    BY <1>2 DEF Left
  <2>4. QED
    BY <2>1, <2>2, <2>3, LeftIs, OfferIs
<1>4. ASSUME NEW q \in Player
      PROVE  /\ SumFunction(MoneyIn(q))' = SumFunction(MoneyIn(q)) -
                   IF q = offers[o].owner /\ offers[o].type = "BUY" THEN offers[o].price * n ELSE 0
             /\ SumFunction(GoodsIn(q))' = SumFunction(GoodsIn(q)) -
                   IF q = offers[o].owner /\ offers[o].type = "SELL" THEN n ELSE 0
  <2> DEFINE a == offers[o].amount
             c == offers[o].price
  <2>1. /\ SumFunction(MoneyIn(q))' = SumFunction(MoneyIn(q)) + MoneyOf(q, o)' - MoneyOf(q, o)
        /\ SumFunction(GoodsIn(q))' = SumFunction(GoodsIn(q)) + GoodsOf(q, o)' - GoodsOf(q, o)
    BY <1>1, <1>3, OneOfferChanges DEF Rows
  <2>2. /\ MoneyOf(q, o) = IF q = offers[o].owner /\ offers[o].type = "BUY" THEN c * a ELSE 0
        /\ GoodsOf(q, o) = IF q = offers[o].owner /\ offers[o].type = "SELL" THEN a ELSE 0
    BY <1>3, InOfferIs DEF Rows
  <2>3. /\ MoneyOf(q, o)' = IF q = offers[o].owner /\ offers[o].type = "BUY" THEN c * (a - n) ELSE 0
        /\ GoodsOf(q, o)' = IF q = offers[o].owner /\ offers[o].type = "SELL" THEN a - n ELSE 0
    BY <1>3 DEF MoneyOf, GoodsOf, MoneyIn, GoodsIn, OwnOffers, Rows
  <2>4. SumFunction(MoneyIn(q)) \in Int /\ SumFunction(GoodsIn(q)) \in Int
    BY InOffersType DEF InOffersOK
  <2>5. c * (a - n) = c * a - c * n /\ c * a \in Int /\ c * n \in Int /\ a \in Int /\ n \in Int
    BY <1>3, Distributes
  <2> HIDE DEF a, c
  <2>6. /\ SumFunction(MoneyIn(q))' = SumFunction(MoneyIn(q)) -
             IF q = offers[o].owner /\ offers[o].type = "BUY" THEN c * n ELSE 0
        /\ SumFunction(GoodsIn(q))' = SumFunction(GoodsIn(q)) -
             IF q = offers[o].owner /\ offers[o].type = "SELL" THEN n ELSE 0
    BY <2>1, <2>2, <2>3, <2>4, <2>5
  <2>7. QED
    BY <2>6 DEF c
<1>5. QED
  BY <1>1, <1>4

\* What p and q, the owner of an offer, exchange: m of money from p, n of goods from q.
Swapped(p, q, m, n) ==
  \A x \in Player : Worth(x)' =
    Gets(Worth(x), (IF x = q THEN m ELSE 0) - (IF x = p THEN m ELSE 0),
                   (IF x = p THEN n ELSE 0) - (IF x = q THEN n ELSE 0))

\* An offer to sell is accepted: its price for its goods.
LEMMA AcceptSellKeeps ==
  ASSUME Inv, NEW p \in Player, NEW o \in Id, NEW n \in Amount, AcceptSell(p, o, n)
  PROVE  /\ Inv' /\ online' = online /\ p \in online /\ o \in Rows /\ n <= Left(o)
         /\ offers[o].type = "SELL"
         /\ Swapped(p, offers[o].owner, offers[o].price * n, n)
<1> DEFINE q == offers[o].owner
           m == offers[o].price * n
<1>1. AccountsOK /\ OffersOK /\ faults \subseteq Kinds
  BY InvIs
<1>2. /\ o \in Rows /\ offers[o].type = "SELL" /\ n <= offers[o].amount /\ m <= mem[p].money
      /\ row = None /\ sweep = {} /\ p \in market
      /\ row' = [offer |-> o, amount |-> n] /\ UNCHANGED <<market, offers, aged, sweep, faults>>
  BY DEF AcceptSell, MayAccept, AtMarket, Idle
<1>3. \/ mem[q] # None /\ mem' = Changed(Changed(mem, p, -m, n), q, m, 0) /\ db' = db
      \/ mem[q] = None /\ mem' = Changed(mem, p, -m, n) /\ db' = Changed(db, q, m, 0)
  <2>1. q \in Player
    BY <1>1, <1>2, OfferIs
  <2>2. q \in online <=> mem[q] # None
    BY <2>1 DEF online
  <2>3. QED
    BY <2>2 DEF AcceptSell
<1>4. /\ p \in online /\ mem[p] # None /\ mem[p].money \in Nat /\ mem[p].goods \in Nat
  BY <1>1, <1>2, OnlineIs, NoneIsNoAccount DEF AccountsOK
<1>5. q \in Player /\ m \in Nat /\ n \in Nat \ {0} /\ Left(o) = offers[o].amount
  <2>1. n \in Nat \ {0}
    BY DEF MarketAssumption
  <2>2. q \in Player /\ offers[o].price \in Nat
    BY <1>1, <1>2, OfferIs
  <2>3. QED
    BY <1>1, <1>2, <2>1, <2>2, ProductType, LeftIs
<1>6. /\ OffersOK'
      /\ \A x \in Player :
           /\ SumFunction(MoneyIn(x))' = SumFunction(MoneyIn(x)) -
                IF x = q /\ offers[o].type = "BUY" THEN m ELSE 0
           /\ SumFunction(GoodsIn(x))' = SumFunction(GoodsIn(x)) -
                IF x = q /\ offers[o].type = "SELL" THEN n ELSE 0
  <2>1. sweep' = sweep \ {o}
    BY <1>2
  <2>2. QED
    BY <1>1, <1>2, <1>5, <2>1, RowPays
<1> HIDE DEF q, m
<1>7. Moved(p, q, -m, n, m, 0)
  <2>1. -m \in Int /\ n \in Int /\ mem[p].money + (-m) \in Nat /\ mem[p].goods + n \in Nat
    BY <1>2, <1>4, <1>5
  <2>2. QED
    BY <1>1, <1>3, <1>4, <1>5, <2>1, TwoGet
<1>8. AccountsOK' /\ online' = online
  BY <1>1, <1>2, <1>7, NobodyMoves DEF Moved, AccountsOK
<1>9. ASSUME NEW x \in Player
      PROVE  Worth(x)' = Gets(Worth(x), (IF x = q THEN m ELSE 0) - (IF x = p THEN m ELSE 0),
                                        (IF x = p THEN n ELSE 0) - (IF x = q THEN n ELSE 0))
  <2> DEFINE hm == (IF x = q THEN m ELSE 0) - (IF x = p THEN m ELSE 0)
             hg == IF x = p THEN n ELSE 0
             j == - (IF x = q THEN n ELSE 0)
  <2>1. /\ Has(x).money \in Nat /\ Has(x).goods \in Nat
        /\ SumFunction(MoneyIn(x)) \in Int /\ SumFunction(GoodsIn(x)) \in Int
    BY <1>1, WorthType
  <2>2. /\ Has(x)'.money = Has(x).money + hm /\ Has(x)'.goods = Has(x).goods + hg
    BY <1>5, <1>7, <2>1 DEF Moved
  <2>3. /\ SumFunction(MoneyIn(x))' = SumFunction(MoneyIn(x)) + 0
        /\ SumFunction(GoodsIn(x))' = SumFunction(GoodsIn(x)) + j
    BY <1>2, <1>5, <1>6, <2>1
  <2>4. hm \in Int /\ hg \in Int /\ j \in Int
    BY <1>5
  <2>5. hm + 0 = hm /\ hg + j = (IF x = p THEN n ELSE 0) - (IF x = q THEN n ELSE 0)
    BY <1>5
  <2> HIDE DEF hg, j
  <2>6. Worth(x)' = Gets(Worth(x), hm + 0, hg + j)
    <3> HIDE DEF hm
    <3>1. QED
      BY <1>1, <2>2, <2>3, <2>4, WorthMoves
  <2>7. QED
    BY <2>5, <2>6
<1>10. Swapped(p, q, m, n)
  BY <1>9 DEF Swapped
<1>11. Inv'
  BY <1>1, <1>2, <1>6, <1>8, InvNext
<1>12. QED
  BY <1>2, <1>4, <1>5, <1>8, <1>10, <1>11 DEF q, m

\* p gives n of its goods to the offer o and is paid: what any of the two ways to do so needs.
LEMMA SellingIs ==
  ASSUME Inv, NEW p \in Player, NEW o \in Id, NEW n \in Amount,
         AtMarket(p), o \in Rows, MayAccept(o, n), n <= mem[p].goods
  PROVE  /\ p \in Player /\ p \in online /\ mem[p] # None
         /\ offers[o].owner \in Player /\ offers[o].price * n \in Nat /\ n \in Nat \ {0}
         /\ Left(o) = offers[o].amount /\ n <= offers[o].amount /\ row = None /\ sweep = {}
         /\ mem[p].money \in Nat /\ mem[p].goods \in Nat
         /\ mem[p].money + offers[o].price * n \in Nat /\ mem[p].goods + (-n) \in Nat
         /\ -n \in Int /\ offers[o].price * n \in Int
         /\ Has(p) = mem[p]
<1>1. AccountsOK /\ OffersOK
  BY InvIs
<1>2. p \in market /\ row = None /\ sweep = {} /\ n <= offers[o].amount
  BY DEF AtMarket, Idle, MayAccept
<1>3. p \in online /\ mem[p] # None /\ mem[p].money \in Nat /\ mem[p].goods \in Nat
  BY <1>1, <1>2, OnlineIs, NoneIsNoAccount DEF AccountsOK
<1>4. n \in Nat \ {0}
  BY DEF MarketAssumption
<1>5. offers[o].owner \in Player /\ offers[o].price \in Nat /\ Left(o) = offers[o].amount
  BY <1>1, <1>2, OfferIs, LeftIs
<1>6. offers[o].price * n \in Nat
  BY <1>4, <1>5, ProductType
<1>7. Has(p) = mem[p]
  BY <1>3 DEF Has
<1> DEFINE m == offers[o].price * n
<1>8. m \in Nat
  BY <1>6
<1> HIDE DEF m
<1>9. mem[p].money + m \in Nat /\ mem[p].goods + (-n) \in Nat /\ -n \in Int /\ m \in Int
  BY <1>3, <1>4, <1>8
<1>10. QED
  BY <1>2, <1>3, <1>4, <1>5, <1>6, <1>7, <1>9 DEF m

\* An offer to buy is accepted: goods for the price, if they arrive.
LEMMA AcceptBuyKeeps ==
  ASSUME Inv, NEW p \in Player, NEW o \in Id, NEW n \in Amount, AcceptBuy(p, o, n)
  PROVE  /\ Inv' /\ online' = online /\ p \in online /\ o \in Rows /\ n <= Left(o)
         /\ offers[o].type = "BUY"
         /\ "save" \notin faults' => Swapped(p, offers[o].owner, -(offers[o].price * n), -n)
<1> DEFINE q == offers[o].owner
           m == offers[o].price * n
<1>1. AccountsOK /\ OffersOK /\ faults \subseteq Kinds
  BY InvIs
<1>2. /\ AtMarket(p) /\ o \in Rows /\ offers[o].type = "BUY" /\ MayAccept(o, n)
      /\ n <= mem[p].goods
      /\ row' = [offer |-> o, amount |-> n] /\ UNCHANGED <<market, offers, aged, sweep>>
  BY DEF AcceptBuy
<1>3. /\ p \in online /\ mem[p] # None
      /\ q \in Player /\ m \in Nat /\ n \in Nat \ {0}
      /\ Left(o) = offers[o].amount /\ n <= offers[o].amount /\ row = None /\ sweep = {}
      /\ mem[p].money + m \in Nat /\ mem[p].goods + (-n) \in Nat
      /\ -n \in Int /\ m \in Int /\ Has(p) = mem[p]
  BY <1>2, SellingIs
<1>4. \/ /\ mem[q] # None /\ mem' = Changed(Changed(mem, p, m, -n), q, 0, n) /\ db' = db
         /\ faults' = faults
      \/ /\ mem[q] = None /\ mem' = Changed(mem, p, m, -n) /\ db' = Changed(db, q, 0, n)
         /\ faults' = faults
      \/ mem[q] = None /\ mem' = Changed(mem, p, m, -n) /\ db' = db /\ Fault("save")
  <2>1. q \in online <=> mem[q] # None
    BY <1>3 DEF online
  <2>2. QED
    BY <2>1 DEF AcceptBuy, DeliverOffline
<1>5. /\ OffersOK'
      /\ \A x \in Player :
           /\ SumFunction(MoneyIn(x))' = SumFunction(MoneyIn(x)) -
                IF x = q /\ offers[o].type = "BUY" THEN m ELSE 0
           /\ SumFunction(GoodsIn(x))' = SumFunction(GoodsIn(x)) -
                IF x = q /\ offers[o].type = "SELL" THEN n ELSE 0
  <2>1. sweep' = sweep \ {o}
    BY <1>2, <1>3
  <2>2. QED
    BY <1>1, <1>2, <1>3, <2>1, RowPays
<1> HIDE DEF q, m
<1>6. CASE mem[q] = None /\ mem' = Changed(mem, p, m, -n) /\ db' = db /\ Fault("save")
  <2>1. Gives(p, m, -n)
    BY <1>1, <1>3, <1>6, OneGets
  <2>2. AccountsOK' /\ online' = online
    BY <1>1, <1>2, <2>1, NobodyMoves DEF Gives, AccountsOK
  <2>3. "save" \in faults' /\ faults' \subseteq Kinds
    BY <1>1, <1>6 DEF Fault, Kinds
  <2>4. Inv'
    BY <1>5, <2>2, <2>3, InvNext
  <2>5. QED
    BY <1>2, <1>3, <2>2, <2>3, <2>4
<1>7. CASE /\ faults' = faults
           /\ \/ /\ mem[q] # None /\ mem' = Changed(Changed(mem, p, m, -n), q, 0, n) /\ db' = db
              \/ /\ mem[q] = None /\ mem' = Changed(mem, p, m, -n) /\ db' = Changed(db, q, 0, n)
  <2>1. Moved(p, q, m, -n, 0, n)
    BY <1>1, <1>3, <1>7, TwoGet
  <2>2. AccountsOK' /\ online' = online
    BY <1>1, <1>2, <2>1, NobodyMoves DEF Moved, AccountsOK
  <2>3. ASSUME NEW x \in Player
        PROVE  Worth(x)' = Gets(Worth(x), (IF x = q THEN -m ELSE 0) - (IF x = p THEN -m ELSE 0),
                                          (IF x = p THEN -n ELSE 0) - (IF x = q THEN -n ELSE 0))
    <3> DEFINE hm == IF x = p THEN m ELSE 0
               hg == (IF x = p THEN -n ELSE 0) + (IF x = q THEN n ELSE 0)
               i == - (IF x = q THEN m ELSE 0)
    <3>1. /\ Has(x).money \in Nat /\ Has(x).goods \in Nat
          /\ SumFunction(MoneyIn(x)) \in Int /\ SumFunction(GoodsIn(x)) \in Int
      BY <1>1, WorthType
    <3>2. /\ Has(x)'.money = Has(x).money + hm /\ Has(x)'.goods = Has(x).goods + hg
      BY <1>3, <2>1, <3>1 DEF Moved
    <3>3. /\ SumFunction(MoneyIn(x))' = SumFunction(MoneyIn(x)) + i
          /\ SumFunction(GoodsIn(x))' = SumFunction(GoodsIn(x)) + 0
      BY <1>2, <1>3, <1>5, <3>1
    <3>4. hm \in Int /\ hg \in Int /\ i \in Int
      BY <1>3
    <3>5. /\ hm + i = (IF x = q THEN -m ELSE 0) - (IF x = p THEN -m ELSE 0)
          /\ hg + 0 = (IF x = p THEN -n ELSE 0) - (IF x = q THEN -n ELSE 0)
      BY <1>3
    <3> HIDE DEF hm, hg, i
    <3>6. Worth(x)' = Gets(Worth(x), hm + i, hg + 0)
      BY <1>1, <3>2, <3>3, <3>4, WorthMoves
    <3>7. QED
      BY <3>5, <3>6
  <2>4. Swapped(p, q, -m, -n)
    BY <2>3 DEF Swapped
  <2>5. Inv'
    BY <1>1, <1>5, <1>7, <2>2, InvNext
  <2>6. QED
    BY <1>2, <1>3, <2>2, <2>4, <2>5 DEF q, m
<1>8. QED
  BY <1>4, <1>6, <1>7

\* An offer to buy is accepted in vain; its owner, who is offline, loses nothing.
LEMMA LoadFailsKeeps ==
  ASSUME Inv, NEW p \in Player, NEW o \in Id, NEW n \in Amount, AcceptBuyLoadFails(p, o, n)
  PROVE  /\ Inv' /\ online' = online /\ p \in online /\ faults' # {}
         /\ \A q \in Player \ online : Worth(q)' = Worth(q)
<1> DEFINE m == offers[o].price * n
<1>1. AccountsOK /\ OffersOK /\ faults \subseteq Kinds
  BY InvIs
<1>2. /\ AtMarket(p) /\ o \in Rows /\ MayAccept(o, n) /\ n <= mem[p].goods
      /\ mem' = Changed(mem, p, m, -n) /\ Fault("load")
      /\ UNCHANGED <<market, db, offers, aged, row, sweep>>
  BY DEF AcceptBuyLoadFails
<1>3. /\ p \in online /\ mem[p] # None /\ row = None /\ sweep = {}
      /\ mem[p].money + m \in Nat /\ mem[p].goods + (-n) \in Nat
      /\ -n \in Int /\ m \in Int /\ Has(p) = mem[p]
  BY <1>2, SellingIs
<1> HIDE DEF m
<1>4. Gives(p, m, -n) /\ \A x \in Player \ {p} : mem'[x] = mem[x] /\ db'[x] = db[x]
  BY <1>1, <1>2, <1>3, OneGets
<1>5. AccountsOK' /\ online' = online
  BY <1>1, <1>2, <1>4, NobodyMoves DEF Gives, AccountsOK
<1>6. SameInOffers
  BY <1>2, OffersSame
<1>7. OffersOK'
  BY <1>1, <1>2, OffersStay DEF OffersOK, OffersAreCovered
<1>8. faults' \subseteq Kinds /\ faults' # {}
  BY <1>1, <1>2 DEF Fault, Kinds
<1>9. \A q \in Player \ online : Has(q)' = Has(q)
  BY <1>3, <1>4, <1>5 DEF Has
<1>10. \A q \in Player \ online : Worth(q)' = Worth(q)
  BY <1>6, <1>9, WorthStays
<1>11. Inv'
  BY <1>5, <1>7, <1>8, InvNext
<1>12. QED
  BY <1>3, <1>5, <1>8, <1>10, <1>11

\* The row of the running task is written: nobody gains or loses anything by it.
LEMMA UpdateRowKeeps ==
  ASSUME Inv, UpdateRow
  PROVE  /\ Inv' /\ online' = online /\ \A q \in Player : Worth(q)' = Worth(q)
<1>1. AccountsOK /\ OffersOK /\ faults \subseteq Kinds
  BY InvIs
<1>2. row # None /\ row' = None /\ UNCHANGED <<market, mem, db, sweep, faults>>
  BY DEF UpdateRow
<1>3. row.offer \in Rows
  BY <1>1, <1>2, RowIs
<1>4. PICK o \in Rows : o = row.offer
  BY <1>3
<1>5. /\ o \in Rows /\ o \in Id /\ row.amount <= offers[o].amount /\ o \notin sweep
      /\ offers[o].amount \in Nat /\ row.amount \in Nat /\ offers[o].price \in Nat
  BY <1>1, <1>2, <1>4, RowIs, OfferIs
<1>6. AccountsOK' /\ online' = online
  BY <1>1, <1>2 DEF AccountsOK, online
<1>7. \A q \in Player : Has(q)' = Has(q)
  BY <1>2, <1>6 DEF Has
<1>8. CASE SoldOut(o, row.amount)
  <2>1. OfferIsGone(o) /\ row.amount = offers[o].amount
    BY <1>2, <1>4, <1>8 DEF UpdateRow, SoldOut
  <2>2. /\ OffersOK' /\ Rows' = Rows \ {o}
        /\ \A x \in Rows' : offers'[x] = offers[x] /\ Left(x)' = Left(x)
    BY <1>1, <1>2, <1>4, <1>5, <2>1, GoneKeeps
  <2>3. Left(o) = 0
    <3>1. Left(o) = offers[o].amount - row.amount
      BY <1>1, <1>2, <1>4, <1>5, LeftIs
    <3>2. QED
      BY <1>5, <2>1, <3>1
  <2>4. offers[o].price * Left(o) = 0
    BY <1>5, <2>3
  <2>5. ASSUME NEW q \in Player
        PROVE  /\ SumFunction(MoneyIn(q))' = SumFunction(MoneyIn(q))
               /\ SumFunction(GoodsIn(q))' = SumFunction(GoodsIn(q))
    <3>1. /\ SumFunction(MoneyIn(q))' = SumFunction(MoneyIn(q)) + MoneyOf(q, o)' - MoneyOf(q, o)
          /\ SumFunction(GoodsIn(q))' = SumFunction(GoodsIn(q)) + GoodsOf(q, o)' - GoodsOf(q, o)
      BY <1>1, <1>5, <2>2, OneOfferChanges
    <3>2. MoneyOf(q, o) = 0 /\ GoodsOf(q, o) = 0
      BY <1>5, <2>3, <2>4, InOfferIs
    <3>3. MoneyOf(q, o)' = 0 /\ GoodsOf(q, o)' = 0
      BY <1>5, <2>2 DEF MoneyOf, GoodsOf, MoneyIn, GoodsIn, OwnOffers
    <3>4. SumFunction(MoneyIn(q)) \in Int /\ SumFunction(GoodsIn(q)) \in Int
      BY <1>1, WorthType
    <3>5. QED
      BY <3>1, <3>2, <3>3, <3>4
  <2>6. \A q \in Player : Worth(q)' = Worth(q)
    BY <1>7, <2>5 DEF Worth
  <2>7. Inv'
    BY <1>1, <1>2, <1>6, <2>2, InvNext
  <2>8. QED
    BY <1>6, <2>6, <2>7
<1>9. CASE ~SoldOut(o, row.amount)
  <2>1. /\ offers' = [offers EXCEPT ![row.offer].amount = @ - row.amount]
        /\ aged' = aged /\ row.amount # offers[row.offer].amount
    BY <1>2, <1>4, <1>9 DEF UpdateRow, SoldOut
  <2>2. /\ OffersOK' /\ Rows' = Rows
        /\ \A x \in Rows : /\ Left(x)' = Left(x) /\ offers'[x].owner = offers[x].owner
                           /\ offers'[x].type = offers[x].type
                           /\ offers'[x].price = offers[x].price
    BY <1>1, <1>2, <2>1, LessKeeps
  <2>3. SameInOffers
    BY <2>2, OffersAlike
  <2>4. \A q \in Player : Worth(q)' = Worth(q)
    BY <1>7, <2>3, WorthStays
  <2>5. Inv'
    BY <1>1, <1>2, <1>6, <2>2, InvNext
  <2>6. QED
    BY <1>6, <2>4, <2>5
<1>10. QED
  BY <1>8, <1>9

\* The refund of an offer is what it stands for.
LEMMA RefundIs ==
  ASSUME OffersOK, NEW o \in Rows
  PROVE  /\ Refund(offers[o]).money =
              IF offers[o].type = "BUY" THEN offers[o].price * offers[o].amount ELSE 0
         /\ Refund(offers[o]).goods = IF offers[o].type = "SELL" THEN offers[o].amount ELSE 0
         /\ Refund(offers[o]).money \in Nat /\ Refund(offers[o]).goods \in Nat
<1>1. /\ offers[o].type \in {"BUY", "SELL"} /\ offers[o].amount \in Nat
      /\ offers[o].price * offers[o].amount \in Nat
  BY OfferIs, ProductType
<1>2. CASE offers[o].type = "BUY"
  BY <1>1, <1>2 DEF Refund
<1>3. CASE offers[o].type = "SELL"
  BY <1>1, <1>3 DEF Refund
<1>4. QED
  BY <1>1, <1>2, <1>3

\* Its owner gets back what was in the offer.
LEMMA CancelKeeps ==
  ASSUME Inv, NEW p \in Player, NEW o \in Id, CancelOffer(p, o)
  PROVE  /\ Inv' /\ online' = online /\ \A q \in Player : Worth(q)' = Worth(q)
<1> DEFINE m == Refund(offers[o]).money
           g == Refund(offers[o]).goods
<1>1. AccountsOK /\ OffersOK /\ faults \subseteq Kinds
  BY InvIs
<1>2. /\ p \in market /\ o \in Rows /\ offers[o].owner = p /\ row = None /\ sweep = {}
      /\ mem' = Changed(mem, p, m, g) /\ OfferIsGone(o)
      /\ UNCHANGED <<market, db, row, sweep, faults>>
  BY DEF CancelOffer, AtMarket, Idle, OwnOffers
<1>3. /\ p \in online /\ mem[p] # None /\ Has(p) = mem[p]
      /\ mem[p].money \in Nat /\ mem[p].goods \in Nat
  BY <1>1, <1>2, OnlineIs, NoneIsNoAccount DEF AccountsOK, Has
<1>4. /\ m = IF offers[o].type = "BUY" THEN offers[o].price * Left(o) ELSE 0
      /\ g = IF offers[o].type = "SELL" THEN Left(o) ELSE 0
      /\ m \in Nat /\ g \in Nat
  BY <1>1, <1>2, RefundIs, LeftIs
<1> HIDE DEF m, g
<1>5. Gives(p, m, g)
  <2>1. mem[p].money + m \in Nat /\ mem[p].goods + g \in Nat /\ m \in Int /\ g \in Int
    BY <1>3, <1>4
  <2>2. QED
    BY <1>1, <1>2, <1>3, <2>1, OneGets
<1>6. AccountsOK' /\ online' = online
  BY <1>1, <1>2, <1>5, NobodyMoves DEF Gives, AccountsOK
<1>7. /\ OffersOK' /\ Rows' = Rows \ {o}
      /\ \A x \in Rows' : offers'[x] = offers[x] /\ Left(x)' = Left(x)
  BY <1>1, <1>2, GoneKeeps
<1>8. ASSUME NEW q \in Player PROVE Worth(q)' = Worth(q)
  <2> DEFINE hm == IF q = p THEN m ELSE 0
             hg == IF q = p THEN g ELSE 0
  <2>1. /\ SumFunction(MoneyIn(q)) \in Int /\ SumFunction(GoodsIn(q)) \in Int
        /\ Gets(Worth(q), 0, 0) = Worth(q)
    BY <1>1, WorthType
  <2>2. /\ SumFunction(MoneyIn(q))' = SumFunction(MoneyIn(q)) + MoneyOf(q, o)' - MoneyOf(q, o)
        /\ SumFunction(GoodsIn(q))' = SumFunction(GoodsIn(q)) + GoodsOf(q, o)' - GoodsOf(q, o)
    BY <1>1, <1>7, OneOfferChanges
  <2>3. MoneyOf(q, o)' = 0 /\ GoodsOf(q, o)' = 0
    BY <1>7 DEF MoneyOf, GoodsOf, MoneyIn, GoodsIn, OwnOffers
  <2>4. MoneyOf(q, o) = hm /\ GoodsOf(q, o) = hg
    BY <1>2, <1>4, InOfferIs
  <2>5. Has(q)'.money = Has(q).money + hm /\ Has(q)'.goods = Has(q).goods + hg
    BY <1>5 DEF Gives
  <2>6. hm \in Int /\ hg \in Int
    BY <1>4
  <2> HIDE DEF hm, hg
  <2>7. /\ SumFunction(MoneyIn(q))' = SumFunction(MoneyIn(q)) + (-hm)
        /\ SumFunction(GoodsIn(q))' = SumFunction(GoodsIn(q)) + (-hg)
        /\ -hm \in Int /\ -hg \in Int /\ hm + (-hm) = 0 /\ hg + (-hg) = 0
    BY <2>1, <2>2, <2>3, <2>4, <2>6
  <2>8. Worth(q)' = Gets(Worth(q), hm + (-hm), hg + (-hg))
    BY <1>1, <2>5, <2>6, <2>7, WorthMoves
  <2>9. QED
    BY <2>1, <2>7, <2>8
<1>9. Inv'
  BY <1>1, <1>2, <1>6, <1>7, InvNext
<1>10. QED
  BY <1>6, <1>8, <1>9

\* The same when the offer expires, online or offline, but for a save that fails.
LEMMA ExpireKeeps ==
  ASSUME Inv, NEW o \in Id, Expire(o)
  PROVE  /\ Inv' /\ online' = online
         /\ "save" \notin faults' => \A q \in Player : Worth(q)' = Worth(q)
<1> DEFINE p == offers[o].owner
           m == Refund(offers[o]).money
           g == Refund(offers[o]).goods
           a == offers[o].amount
<1>1. AccountsOK /\ OffersOK /\ faults \subseteq Kinds
  BY InvIs
<1>2. /\ o \in Rows /\ row = None
      /\ row' = [offer |-> o, amount |-> a] /\ sweep' = sweep \ {o}
      /\ UNCHANGED <<market, offers, aged>>
  BY <1>1 DEF Expire, NextExpired, OffersOK
<1>3. /\ p \in Player /\ a \in Nat \ {0} /\ a <= offers[o].amount
      /\ m = IF offers[o].type = "BUY" THEN offers[o].price * a ELSE 0
      /\ g = IF offers[o].type = "SELL" THEN a ELSE 0
      /\ m \in Nat /\ g \in Nat /\ offers[o].type \in {"BUY", "SELL"}
  BY <1>1, <1>2, RefundIs, OfferIs
<1>4. \/ mem[p] # None /\ mem' = Changed(mem, p, m, g) /\ db' = db /\ faults' = faults
      \/ mem[p] = None /\ mem' = mem /\ db' = Changed(db, p, m, g) /\ faults' = faults
      \/ mem' = mem /\ db' = db /\ Fault("save")
  <2>1. p \in online <=> mem[p] # None
    BY <1>3 DEF online
  <2>2. CASE p \in online
    BY <2>1, <2>2 DEF Expire
  <2>3. CASE p \notin online /\ offers[o].type = "BUY"
    <3>1. g = 0
      BY <1>3, <2>3
    <3> HIDE DEF g
    <3>2. mem' = mem /\ faults' = faults /\ db' = Changed(db, p, m, 0)
      BY <2>3 DEF Expire
    <3>3. QED
      BY <2>1, <2>3, <3>1, <3>2
  <2>4. CASE p \notin online /\ offers[o].type = "SELL"
    <3>1. m = 0
      BY <1>3, <2>4
    <3> HIDE DEF m
    <3>2. mem' = mem /\ DeliverOffline(p, g)
      BY <2>4 DEF Expire
    <3>3. QED
      BY <2>1, <2>4, <3>1, <3>2 DEF DeliverOffline
  <2>5. QED
    BY <1>3, <2>2, <2>3, <2>4
<1>5. /\ OffersOK'
      /\ \A x \in Player :
           /\ SumFunction(MoneyIn(x))' = SumFunction(MoneyIn(x)) -
                IF x = p /\ offers[o].type = "BUY" THEN offers[o].price * a ELSE 0
           /\ SumFunction(GoodsIn(x))' = SumFunction(GoodsIn(x)) -
                IF x = p /\ offers[o].type = "SELL" THEN a ELSE 0
  BY <1>1, <1>2, <1>3, RowPays
<1>6. \A x \in Player :
        /\ SumFunction(MoneyIn(x))' = SumFunction(MoneyIn(x)) - IF x = p THEN m ELSE 0
        /\ SumFunction(GoodsIn(x))' = SumFunction(GoodsIn(x)) - IF x = p THEN g ELSE 0
  <2> HIDE DEF p, m, g, a
  <2>1. QED
    BY <1>3, <1>5
<1> HIDE DEF p, m, g, a
<1>7. CASE mem' = mem /\ db' = db /\ Fault("save")
  <2>1. AccountsOK' /\ online' = online
    BY <1>1, <1>2, <1>7 DEF AccountsOK, online
  <2>2. "save" \in faults' /\ faults' \subseteq Kinds
    BY <1>1, <1>7 DEF Fault, Kinds
  <2>3. QED
    BY <1>5, <2>1, <2>2, InvNext
<1>8. CASE /\ faults' = faults
           /\ \/ mem[p] # None /\ mem' = Changed(mem, p, m, g) /\ db' = db
              \/ mem[p] = None /\ mem' = mem /\ db' = Changed(db, p, m, g)
  <2>1. Gives(p, m, g)
    <3>1. Has(p).money \in Nat /\ Has(p).goods \in Nat
      BY <1>1, <1>3, WorthType
    <3>2. Has(p).money + m \in Nat /\ Has(p).goods + g \in Nat /\ m \in Int /\ g \in Int
      BY <1>3, <3>1
    <3>3. QED
      BY <1>1, <1>3, <1>8, <3>2, OneGets
  <2>2. AccountsOK' /\ online' = online
    BY <1>1, <1>2, <2>1, NobodyMoves DEF Gives, AccountsOK
  <2>3. ASSUME NEW q \in Player PROVE Worth(q)' = Worth(q)
    <3> DEFINE hm == IF q = p THEN m ELSE 0
               hg == IF q = p THEN g ELSE 0
    <3>1. /\ SumFunction(MoneyIn(q)) \in Int /\ SumFunction(GoodsIn(q)) \in Int
          /\ Gets(Worth(q), 0, 0) = Worth(q)
      BY <1>1, WorthType
    <3>2. /\ SumFunction(MoneyIn(q))' = SumFunction(MoneyIn(q)) - hm
          /\ SumFunction(GoodsIn(q))' = SumFunction(GoodsIn(q)) - hg
      BY <1>6
    <3>3. Has(q)'.money = Has(q).money + hm /\ Has(q)'.goods = Has(q).goods + hg
      BY <2>1 DEF Gives
    <3>4. hm \in Int /\ hg \in Int
      BY <1>3
    <3> HIDE DEF hm, hg
    <3>5. /\ SumFunction(MoneyIn(q))' = SumFunction(MoneyIn(q)) + (-hm)
          /\ SumFunction(GoodsIn(q))' = SumFunction(GoodsIn(q)) + (-hg)
          /\ -hm \in Int /\ -hg \in Int /\ hm + (-hm) = 0 /\ hg + (-hg) = 0
      BY <3>1, <3>2, <3>4
    <3>6. Worth(q)' = Gets(Worth(q), hm + (-hm), hg + (-hg))
      BY <1>1, <3>3, <3>4, <3>5, WorthMoves
    <3>7. QED
      BY <3>1, <3>5, <3>6
  <2>4. Inv'
    BY <1>1, <1>5, <1>8, <2>2, InvNext
  <2>5. QED
    BY <2>2, <2>3, <2>4
<1>9. QED
  BY <1>4, <1>7, <1>8

\* After a crash what the interrupted task had paid out for is in the offer again.
LEMMA CrashKeeps ==
  ASSUME Inv, Crash
  PROVE  /\ Inv' /\ online' = {} /\ faults' # {}
         /\ \A q \in Player \ online : /\ Worth(q)'.money >= Worth(q).money
                                       /\ Worth(q)'.goods >= Worth(q).goods
<1>1. AccountsOK /\ OffersOK /\ faults \subseteq Kinds
  BY InvIs
<1>2. /\ mem' = [p \in Player |-> None] /\ market' = {} /\ row' = None /\ sweep' = {}
      /\ UNCHANGED <<db, offers, aged>> /\ Fault("crash")
  BY DEF Crash
<1>3. AccountsOK' /\ online' = {}
  BY <1>1, <1>2 DEF AccountsOK, online, Players
<1>4. faults' \subseteq Kinds /\ faults' # {}
  BY <1>1, <1>2 DEF Fault, Kinds
<1>5. Rows' = Rows
  BY <1>2 DEF Rows
<1>6. \A x \in Rows : /\ Left(x)' = offers[x].amount /\ Left(x)' >= 0
                      /\ row = None \/ row.offer # x => Left(x)' = Left(x)
  <2> SUFFICES ASSUME NEW x \in Rows
               PROVE  /\ Left(x)' = offers[x].amount /\ Left(x)' >= 0
                      /\ row = None \/ row.offer # x => Left(x)' = Left(x)
    OBVIOUS
  <2>1. Left(x)' = offers[x].amount - 0 /\ offers[x].amount \in Nat
    BY <1>1, <1>2, OfferIs DEF Left
  <2>2. row = None \/ row.offer # x => Left(x) = offers[x].amount
    BY <1>1, LeftIs
  <2>3. QED
    BY <2>1, <2>2
<1>7. OffersOK'
  BY <1>1, <1>2, <1>5, <1>6 DEF OffersOK, OffersAreCovered
<1>8. \A q \in Player \ online : Has(q)' = Has(q)
  BY <1>2, <1>3 DEF Has
<1>9. ASSUME NEW q \in Player \ online
      PROVE  /\ Worth(q)'.money >= Worth(q).money
             /\ Worth(q)'.goods >= Worth(q).goods
  <2>0. Worth(q) \in [money : Int, goods : Int]
    BY <1>1, WorthType
  <2>1. CASE row = None
    <3>1. SameInOffers
      BY <1>2, <2>1, OffersSame
    <3>2. Worth(q)' = Worth(q)
      BY <1>8, <3>1, WorthStays
    <3>3. QED
      BY <2>0, <3>2
  <2>2. CASE row # None
    <3>1. /\ row.offer \in Rows /\ row.amount \in Nat /\ row.amount <= offers[row.offer].amount
      BY <1>1, <2>2, RowIs
    <3>2. PICK o \in Rows : o = row.offer
      BY <3>1
    <3> DEFINE n == offers[o].amount
               k == row.amount
               c == offers[o].price
    <3>3. /\ SumFunction(MoneyIn(q))' = SumFunction(MoneyIn(q)) + MoneyOf(q, o)' - MoneyOf(q, o)
          /\ SumFunction(GoodsIn(q))' = SumFunction(GoodsIn(q)) + GoodsOf(q, o)' - GoodsOf(q, o)
      <4>1. o \in Id /\ \A x \in Rows \ {o} : offers'[x] = offers[x] /\ Left(x)' = Left(x)
        BY <1>2, <1>6, <3>2 DEF Rows
      <4>2. QED
        BY <1>1, <1>5, <1>7, <4>1, OneOfferChanges
    <3>4. /\ MoneyOf(q, o)' = IF offers[o].owner = q /\ offers[o].type = "BUY" THEN c * n ELSE 0
          /\ GoodsOf(q, o)' = IF offers[o].owner = q /\ offers[o].type = "SELL" THEN n ELSE 0
      BY <1>2, <1>5, <1>6 DEF MoneyOf, GoodsOf, MoneyIn, GoodsIn, OwnOffers, Rows
    <3>5. /\ MoneyOf(q, o) = IF offers[o].owner = q /\ offers[o].type = "BUY" THEN c * (n - k) ELSE 0
          /\ GoodsOf(q, o) = IF offers[o].owner = q /\ offers[o].type = "SELL" THEN n - k ELSE 0
      <4>1. Left(o) = n - k
        BY <1>1, <2>2, <3>2, LeftIs
      <4>2. o \in Id
        BY DEF Rows
      <4>3. QED
        BY <4>1, <4>2, InOfferIs
    <3>6. /\ c * (n - k) = c * n - c * k /\ c * n \in Nat /\ c * k \in Nat /\ n \in Nat /\ k \in Nat
      <4>1. c \in Nat /\ n \in Nat /\ k \in Nat
        BY <1>1, <3>1, <3>2, OfferIs
      <4>2. QED
        BY <4>1, Distributes, ProductType
    <3>7. /\ SumFunction(MoneyIn(q)) \in Int /\ SumFunction(GoodsIn(q)) \in Int
          /\ Has(q).money \in Nat /\ Has(q).goods \in Nat
      BY <1>1, WorthType
    <3> HIDE DEF n, k, c
    <3>8. /\ Has(q).money + SumFunction(MoneyIn(q))' >= Has(q).money + SumFunction(MoneyIn(q))
          /\ Has(q).goods + SumFunction(GoodsIn(q))' >= Has(q).goods + SumFunction(GoodsIn(q))
      BY <3>3, <3>4, <3>5, <3>6, <3>7
    <3>9. QED
      BY <1>8, <3>8 DEF Worth
  <2>3. QED
    BY <2>1, <2>2
<1>10. Inv'
  BY <1>3, <1>4, <1>7, InvNext
<1>11. QED
  BY <1>3, <1>4, <1>9, <1>10

----------------------------------------------------------------------------
(* Houses change hands *)

HouseStates == [owner : Player \cup {None}, guests : SUBSET Player, goods : Nat,
                warnings : 0..MaxWarnings, sleeper : Player \cup {None}]
Places == [Player -> House \cup {None}]
Worlds == [mem : Players, db : Saved, house : [House -> HouseStates], inside : Places]

\* What p has in w.
HasThere(w, p) == HasIn(w.mem, w.db, p)

SameOnline(w, r) == \A x \in Player : r.mem[x] # None <=> w.mem[x] # None

\* r is w but for the goods in house h and what its owner q got of them.
Sends(w, r, h, q) ==
  /\ r \in Worlds /\ r.inside = w.inside /\ SameOnline(w, r)
  /\ \A x \in House \ {h} : r.house[x] = w.house[x]
  /\ r.house[h].owner = w.house[h].owner /\ r.house[h].guests = w.house[h].guests
  /\ r.house[h].warnings = w.house[h].warnings /\ r.house[h].sleeper = w.house[h].sleeper
  /\ \A x \in Player \ {q} : HasThere(r, x) = HasThere(w, x)
  /\ HasThere(r, q).money = HasThere(w, q).money
  /\ HasThere(r, q).goods >= HasThere(w, q).goods
  /\ w.mem[q] = None => r.mem = w.mem /\ \A x \in Player \ {q} : r.db[x] = w.db[x]

\* Everything arrives.
Arrives(w, r, h, q) ==
  /\ HasThere(r, q).goods = HasThere(w, q).goods + w.house[h].goods
  /\ r.house[h].goods = 0

NoFailure(f) == f.load = {} /\ f.save = {}

\* A house stays one when something of it changes.
LEMMA HouseFields ==
  ASSUME NEW e \in HouseStates, NEW owner \in Player \cup {None}, NEW guests \in SUBSET Player,
         NEW goods \in Nat, NEW warnings \in 0..MaxWarnings
  PROVE  /\ [e EXCEPT !.owner = owner] \in HouseStates
         /\ [e EXCEPT !.guests = guests] \in HouseStates
         /\ [e EXCEPT !.goods = goods] \in HouseStates
         /\ [e EXCEPT !.warnings = warnings] \in HouseStates
         /\ [e EXCEPT !.sleeper = owner] \in HouseStates
BY DEF HouseStates

\* So does the world when a house does.
LEMMA WorldWith ==
  ASSUME NEW w \in Worlds, NEW h \in House, NEW e \in HouseStates
  PROVE  [w EXCEPT !.house[h] = e] \in Worlds
BY DEF Worlds

\* What transferToDepot() does, wherever the owner is and whatever fails.
LEMMA TransferIs ==
  ASSUME NEW w \in Worlds, NEW h \in House, NEW q \in Player, w.house[h].owner = q, NEW f \in Failures
  PROVE  /\ Sends(w, TransferToDepot(w, h, f), h, q)
         /\ NoFailure(f) => Arrives(w, TransferToDepot(w, h, f), h, q)
<1> DEFINE n == w.house[h].goods
           moved == [w EXCEPT !.house[h].goods = 0]
           online1 == [moved EXCEPT !.mem = Changed(@, q, 0, n)]
           offline1 == [moved EXCEPT !.db = Changed(@, q, 0, n)]
           r == TransferToDepot(w, h, f)
<1>1. /\ w.mem \in Players /\ w.db \in Saved /\ w.house \in [House -> HouseStates]
      /\ w.inside \in Places /\ n \in Nat
  BY DEF Worlds, HouseStates
<1>2. /\ moved.mem = w.mem /\ moved.db = w.db /\ moved.inside = w.inside
      /\ moved \in Worlds /\ moved.house[h].goods = 0
      /\ \A x \in House \ {h} : moved.house[x] = w.house[x]
      /\ moved.house[h].owner = w.house[h].owner /\ moved.house[h].guests = w.house[h].guests
      /\ moved.house[h].warnings = w.house[h].warnings
      /\ moved.house[h].sleeper = w.house[h].sleeper
  BY DEF Worlds, HouseStates
<1>3. /\ w.mem[q] # None => r = online1
      /\ w.mem[q] = None /\ q \in f.load => r = w
      /\ w.mem[q] = None /\ q \notin f.load /\ q \in f.save => r = moved
      /\ w.mem[q] = None /\ q \notin f.load /\ q \notin f.save => r = offline1
  <2>1. ASSUME w.mem[q] # None PROVE r = online1
    BY <2>1 DEF TransferToDepot
  <2>2. ASSUME w.mem[q] = None, q \in f.load PROVE r = w
    <3>1. q \notin f.save
      BY <2>2 DEF Failures
    <3>2. QED
      BY <2>2, <3>1 DEF TransferToDepot
  <2>3. ASSUME w.mem[q] = None, q \notin f.load, q \in f.save PROVE r = moved
    BY <2>3 DEF TransferToDepot
  <2>4. ASSUME w.mem[q] = None, q \notin f.load, q \notin f.save PROVE r = offline1
    BY <2>4 DEF TransferToDepot
  <2> HIDE DEF r, online1, offline1, moved
  <2>5. QED
    BY <2>1, <2>2, <2>3, <2>4
<1> HIDE DEF r, moved, n
<1>4. HasThere(w, q).money \in Nat /\ HasThere(w, q).goods \in Nat
  BY <1>1, HasType DEF HasThere
<1>5. CASE w.mem[q] # None
  <2> DEFINE c == Changed(w.mem, q, 0, n)
  <2>1. /\ c \in Players /\ \A x \in Player : c[x] # None <=> w.mem[x] # None
        /\ HasIn(c, w.db, q).money = HasIn(w.mem, w.db, q).money + 0
        /\ HasIn(c, w.db, q).goods = HasIn(w.mem, w.db, q).goods + n
        /\ \A x \in Player \ {q} : HasIn(c, w.db, x) = HasIn(w.mem, w.db, x)
    <3>1. w.mem[q].money + 0 \in Nat /\ w.mem[q].goods + n \in Nat /\ 0 \in Int /\ n \in Int
      BY <1>1, <1>4, <1>5 DEF HasThere, HasIn
    <3>2. QED
      BY <1>1, <1>5, <3>1, GiveOnline
  <2>2. /\ r.mem = Changed(moved.mem, q, 0, n) /\ r.db = moved.db
        /\ r.house = moved.house /\ r.inside = moved.inside
        /\ r = [mem |-> Changed(moved.mem, q, 0, n), db |-> moved.db, house |-> moved.house,
                inside |-> moved.inside]
    BY <1>2, <1>3, <1>5 DEF Worlds
  <2>3. r.mem = c /\ r.db = w.db /\ r.inside = w.inside
    BY <1>2, <2>2
  <2> HIDE DEF c
  <2>4. r \in Worlds
    BY <1>2, <2>1, <2>2, <2>3 DEF Worlds
  <2>5. HasThere(r, q).money = HasThere(w, q).money /\ HasThere(r, q).goods = HasThere(w, q).goods + n
    BY <1>4, <2>1, <2>3 DEF HasThere
  <2>6. HasThere(r, q).goods >= HasThere(w, q).goods
    BY <1>1, <1>4, <2>5
  <2>7. SameOnline(w, r) /\ \A x \in Player \ {q} : HasThere(r, x) = HasThere(w, x)
    BY <2>1, <2>3 DEF HasThere, SameOnline
  <2>8. Sends(w, r, h, q)
    BY <1>2, <1>5, <2>2, <2>3, <2>4, <2>5, <2>6, <2>7 DEF Sends
  <2>9. Arrives(w, r, h, q)
    BY <1>2, <2>2, <2>5 DEF Arrives, n
  <2>10. QED
    BY <2>8, <2>9 DEF r
<1>6. CASE w.mem[q] = None /\ q \in f.load
  <2>1. r = w
    BY <1>3, <1>6
  <2>2. Sends(w, r, h, q)
    BY <1>4, <2>1 DEF Sends, SameOnline
  <2>3. QED
    BY <1>6, <2>2 DEF NoFailure, r
<1>7. CASE w.mem[q] = None /\ q \notin f.load /\ q \in f.save
  <2>1. r = moved
    BY <1>3, <1>7
  <2>2. \A x \in Player : HasThere(r, x) = HasThere(w, x)
    BY <1>2, <2>1 DEF HasThere
  <2>3. Sends(w, r, h, q)
    BY <1>2, <1>4, <2>1, <2>2 DEF Sends, SameOnline
  <2>4. QED
    BY <1>7, <2>3 DEF NoFailure, r
<1>8. CASE w.mem[q] = None /\ q \notin f.load /\ q \notin f.save
  <2> DEFINE c == Changed(w.db, q, 0, n)
  <2>1. /\ c \in Saved
        /\ HasIn(w.mem, c, q).money = HasIn(w.mem, w.db, q).money + 0
        /\ HasIn(w.mem, c, q).goods = HasIn(w.mem, w.db, q).goods + n
        /\ \A x \in Player \ {q} : HasIn(w.mem, c, x) = HasIn(w.mem, w.db, x) /\ c[x] = w.db[x]
    <3>1. w.db[q].money + 0 \in Nat /\ w.db[q].goods + n \in Nat /\ 0 \in Int /\ n \in Int
      BY <1>1, <1>4, <1>8 DEF HasThere, HasIn
    <3>2. QED
      BY <1>1, <1>8, <3>1, GiveOffline
  <2>2. /\ r.db = Changed(moved.db, q, 0, n) /\ r.mem = moved.mem
        /\ r.house = moved.house /\ r.inside = moved.inside
        /\ r = [mem |-> moved.mem, db |-> Changed(moved.db, q, 0, n), house |-> moved.house,
                inside |-> moved.inside]
    BY <1>2, <1>3, <1>8 DEF Worlds
  <2>3. r.db = c /\ r.mem = w.mem /\ r.inside = w.inside
    BY <1>2, <2>2
  <2> HIDE DEF c
  <2>4. r \in Worlds
    BY <1>2, <2>1, <2>2, <2>3 DEF Worlds
  <2>5. HasThere(r, q).money = HasThere(w, q).money /\ HasThere(r, q).goods = HasThere(w, q).goods + n
    BY <1>4, <2>1, <2>3 DEF HasThere
  <2>6. HasThere(r, q).goods >= HasThere(w, q).goods
    BY <1>1, <1>4, <2>5
  <2>7. SameOnline(w, r) /\ \A x \in Player \ {q} : HasThere(r, x) = HasThere(w, x)
    BY <2>1, <2>3 DEF HasThere, SameOnline
  <2>8. Sends(w, r, h, q)
    BY <1>2, <2>1, <2>2, <2>3, <2>4, <2>5, <2>6, <2>7 DEF Sends
  <2>9. Arrives(w, r, h, q)
    BY <1>2, <2>2, <2>5 DEF Arrives, n
  <2>10. QED
    BY <2>8, <2>9 DEF r
<1>9. QED
  BY <1>5, <1>6, <1>7, <1>8

\* r is w after house h went from q to p; nothing happens to those who had none of it.
Passes(w, r, h, p) ==
  /\ r \in Worlds /\ SameOnline(w, r)
  /\ \A x \in House \ {h} : r.house[x] = w.house[x]
  /\ r.house[h].owner = p
  /\ r.house[h].sleeper \in {w.house[h].sleeper, None}
  /\ \A x \in Player : HasThere(r, x).money = HasThere(w, x).money
  /\ \A x \in Player : x # w.house[h].owner => HasThere(r, x) = HasThere(w, x)
  /\ \A x \in Player : HasThere(r, x).goods >= HasThere(w, x).goods
  /\ w.house[h].owner \in {None, p} =>
       /\ r.inside = w.inside /\ r.house[h].guests = w.house[h].guests
       /\ r.mem = w.mem /\ r.db = w.db
       /\ r.house[h].goods = w.house[h].goods
  /\ w.house[h].owner \notin {None, p} =>
       \A x \in Player : r.inside[x] = IF w.inside[x] = h THEN None ELSE w.inside[x]
  /\ w.house[h].owner # None /\ w.mem[w.house[h].owner] = None =>
       r.mem = w.mem /\ \A x \in Player : x # w.house[h].owner => r.db[x] = w.db[x]

\* What setHouseOwner() does.
LEMMA SetHouseOwnerIs ==
  ASSUME NEW w \in Worlds, NEW h \in House, NEW p \in Player \cup {None}, NEW f \in Failures
  PROVE  /\ Passes(w, SetHouseOwner(w, h, p, f), h, p)
         /\ NoFailure(f) /\ w.house[h].owner \notin {None, p} =>
              Arrives(w, SetHouseOwner(w, h, p, f), h, w.house[h].owner)
<1> DEFINE q == w.house[h].owner
           r == SetHouseOwner(w, h, p, f)
<1>1. /\ w.mem \in Players /\ w.db \in Saved /\ w.house \in [House -> HouseStates]
      /\ w.inside \in Places /\ q \in Player \cup {None} /\ w.house[h].goods \in Nat
  BY DEF Worlds, HouseStates
<1>2. \A x \in Player : HasThere(w, x).goods \in Nat /\ HasThere(w, x).money \in Nat
  BY <1>1, HasType DEF HasThere
<1>3. CASE q = p
  <2>1. r = w
    BY <1>3 DEF SetHouseOwner
  <2> HIDE DEF r
  <2>2. Passes(w, r, h, p)
    BY <1>2, <1>3, <2>1 DEF Passes, SameOnline
  <2>3. QED
    BY <1>3, <2>2 DEF r
<1>4. CASE q # p /\ q = None
  <2>1. r = [w EXCEPT !.house[h].owner = p]
    BY <1>4 DEF SetHouseOwner
  <2> HIDE DEF r
  <2>2. /\ r.mem = w.mem /\ r.db = w.db /\ r.inside = w.inside /\ r \in Worlds
        /\ \A x \in House \ {h} : r.house[x] = w.house[x]
        /\ r.house[h].owner = p /\ r.house[h].guests = w.house[h].guests
        /\ r.house[h].goods = w.house[h].goods /\ r.house[h].sleeper = w.house[h].sleeper
    BY <2>1 DEF Worlds, HouseStates
  <2>3. \A x \in Player : HasThere(r, x) = HasThere(w, x)
    BY <2>2 DEF HasThere
  <2>4. Passes(w, r, h, p)
    BY <1>2, <1>4, <2>2, <2>3 DEF Passes, SameOnline
  <2>5. QED
    BY <1>4, <2>4 DEF r
<1>5. CASE q # p /\ q # None
  <2> DEFINE t == TransferToDepot(w, h, f)
             S == Everybody(w, h)
             o == Out(t, S)
             cleared == [o EXCEPT !.house[h].guests = {}, !.house[h].warnings = 0,
                                  !.house[h].sleeper = None]
  <2>1. r = [cleared EXCEPT !.house[h].owner = p]
    BY <1>5 DEF SetHouseOwner
  <2>2. Sends(w, t, h, q) /\ (NoFailure(f) => Arrives(w, t, h, q))
    <3>1. q \in Player
      BY <1>1, <1>5
    <3>2. QED
      BY <3>1, TransferIs
  <2>3. t \in Worlds
    BY <2>2 DEF Sends
  <2> HIDE DEF t, r
  <2>4. /\ o.mem = t.mem /\ o.db = t.db /\ o.house = t.house
        /\ o.inside = [x \in Player |-> IF x \in S THEN None ELSE t.inside[x]]
    BY <2>3 DEF Out, Worlds
  <2>5. o \in Worlds
    <3>1. o = [mem |-> t.mem, db |-> t.db, house |-> t.house,
               inside |-> [x \in Player |-> IF x \in S THEN None ELSE t.inside[x]]]
      BY <2>3 DEF Out, Worlds
    <3>2. [x \in Player |-> IF x \in S THEN None ELSE t.inside[x]] \in Places
      BY <2>3 DEF Worlds, Places
    <3> HIDE DEF o
    <3>3. QED
      BY <2>3, <3>1, <3>2 DEF Worlds
  <2> HIDE DEF o
  <2>6. /\ cleared.mem = o.mem /\ cleared.db = o.db /\ cleared.inside = o.inside
        /\ cleared.house[h].guests = {} /\ cleared.house[h].sleeper = None
        /\ cleared.house[h].goods = o.house[h].goods
        /\ \A x \in House \ {h} : cleared.house[x] = o.house[x]
    BY <2>5 DEF Worlds, HouseStates
  <2>7. cleared \in Worlds
    <3>1. 0 \in 0..MaxWarnings /\ {} \in SUBSET Player
      BY HousesAssumption DEF HousesAssumption
    <3> DEFINE e1 == [o.house[h] EXCEPT !.guests = {}]
               e2 == [e1 EXCEPT !.warnings = 0]
               e3 == [e2 EXCEPT !.sleeper = None]
    <3>2. o.house[h] \in HouseStates
      BY <2>5 DEF Worlds
    <3>3. e3 \in HouseStates
      <4>1. e1 \in HouseStates
        BY <3>1, <3>2, HouseFields
      <4> HIDE DEF e1
      <4>2. e2 \in HouseStates
        BY <3>1, <4>1, HouseFields
      <4> HIDE DEF e2
      <4>3. QED
        BY <3>1, <4>2, HouseFields
    <3>4. cleared = [o EXCEPT !.house[h] = e3]
      BY <2>5, <3>2 DEF Worlds, HouseStates
    <3> HIDE DEF e3, cleared
    <3>5. QED
      BY <2>5, <3>3, <3>4, WorldWith
  <2> HIDE DEF cleared
  <2>8. /\ r.mem = cleared.mem /\ r.db = cleared.db /\ r.inside = cleared.inside /\ r \in Worlds
        /\ \A x \in House \ {h} : r.house[x] = cleared.house[x]
        /\ r.house[h].owner = p /\ r.house[h].guests = cleared.house[h].guests
        /\ r.house[h].goods = cleared.house[h].goods
        /\ r.house[h].sleeper = cleared.house[h].sleeper
    <3> DEFINE e == [cleared.house[h] EXCEPT !.owner = p]
    <3>1. cleared.house[h] \in HouseStates
      BY <2>7 DEF Worlds
    <3>2. /\ e \in HouseStates /\ e.owner = p /\ e.guests = cleared.house[h].guests
          /\ e.goods = cleared.house[h].goods /\ e.sleeper = cleared.house[h].sleeper
      BY <3>1 DEF HouseStates
    <3>3. r = [cleared EXCEPT !.house[h] = e]
      BY <2>1, <2>7 DEF Worlds
    <3> HIDE DEF e
    <3>4. r \in Worlds
      BY <2>7, <3>2, <3>3, WorldWith
    <3>5. /\ r.mem = cleared.mem /\ r.db = cleared.db /\ r.inside = cleared.inside
          /\ \A x \in House \ {h} : r.house[x] = cleared.house[x]
          /\ r.house[h] = e
      BY <2>7, <3>3 DEF Worlds
    <3>6. QED
      BY <3>2, <3>4, <3>5
  <2>9. /\ r.mem = t.mem /\ r.db = t.db
        /\ r.house[h].goods = t.house[h].goods /\ r.house[h].sleeper = None
        /\ \A x \in House \ {h} : r.house[x] = w.house[x]
    BY <2>2, <2>4, <2>6, <2>8 DEF Sends
  <2>10. \A x \in Player : HasThere(r, x) = HasThere(t, x)
    BY <2>9 DEF HasThere
  <2>11. \A x \in Player : r.inside[x] = IF w.inside[x] = h THEN None ELSE w.inside[x]
    BY <2>2, <2>4, <2>6, <2>8 DEF Sends, Everybody
  <2>12. /\ \A x \in Player : HasThere(r, x).money = HasThere(w, x).money
         /\ \A x \in Player : x # q => HasThere(r, x) = HasThere(w, x)
         /\ \A x \in Player : HasThere(r, x).goods >= HasThere(w, x).goods
    <3> SUFFICES ASSUME NEW x \in Player
                 PROVE  /\ HasThere(r, x).money = HasThere(w, x).money
                        /\ x # q => HasThere(r, x) = HasThere(w, x)
                        /\ HasThere(r, x).goods >= HasThere(w, x).goods
      OBVIOUS
    <3>1. CASE x = q
      BY <2>2, <2>10, <3>1 DEF Sends
    <3>2. CASE x # q
      <4>1. HasThere(r, x) = HasThere(w, x)
        BY <2>2, <2>10, <3>2 DEF Sends
      <4>2. QED
        BY <1>2, <3>2, <4>1
    <3>3. QED
      BY <3>1, <3>2
  <2>13. SameOnline(w, r)
    BY <2>2, <2>9 DEF Sends, SameOnline
  <2>14. w.mem[q] = None => r.mem = w.mem /\ \A x \in Player : x # q => r.db[x] = w.db[x]
    BY <2>2, <2>9 DEF Sends
  <2> HIDE DEF q
  <2>15. Passes(w, r, h, p)
    BY <1>5, <2>8, <2>9, <2>11, <2>12, <2>13, <2>14 DEF Passes, q
  <2>16. NoFailure(f) => Arrives(w, r, h, q)
    <3>1. q \in Player
      BY <1>1, <1>5 DEF q
    <3>2. QED
      BY <2>2, <2>9, <2>10, <3>1 DEF Arrives
  <2>17. QED
    BY <2>15, <2>16 DEF r, q
<1>6. QED
  BY <1>3, <1>4, <1>5

\* r is w after something happened to house h and its owners only: who was in it is thrown
\* out when it goes from somebody to somebody else, who slept there is gone then.
HousePasses(w, r, h) ==
  /\ r \in Worlds /\ SameOnline(w, r)
  /\ \A x \in House \ {h} : r.house[x] = w.house[x]
  /\ r.house[h].sleeper \in {w.house[h].sleeper, None}
  /\ w.house[h].owner \in {None, r.house[h].owner} =>
       /\ r.inside = w.inside /\ r.house[h].guests = w.house[h].guests
       /\ r.house[h].goods = w.house[h].goods
  /\ w.house[h].owner \notin {None, r.house[h].owner} =>
       \A x \in Player : r.inside[x] = IF w.inside[x] = h THEN None ELSE w.inside[x]

\* What happens to q, the owner of h, when the rent is due and nothing fails.
HasPaid(w, r, h, q) ==
  /\ HasThere(w, q).money >= Rent /\ r.house[h].owner = q
  /\ HasThere(r, q).money = HasThere(w, q).money - Rent /\ HasThere(r, q).goods = HasThere(w, q).goods

IsWarned(w, r, h, q) ==
  /\ HasThere(w, q).money < Rent /\ r.house[h].owner = q /\ HasThere(r, q) = HasThere(w, q)

IsPutOut(w, r, h, q) ==
  /\ HasThere(w, q).money < Rent /\ w.house[h].warnings = MaxWarnings
  /\ r.house[h].owner = None /\ r.house[h].goods = 0
  /\ HasThere(r, q).money = HasThere(w, q).money
  /\ \/ HasThere(r, q).goods = HasThere(w, q).goods + w.house[h].goods
     \/ w.mem[q] = None /\ HasThere(r, q).goods = HasThere(w, q).goods

\* What happens in any case.
RentTaken(w, r, h) ==
  /\ HousePasses(w, r, h) /\ r.house[h].owner \in {w.house[h].owner, None}
  /\ \A x \in Player : x # w.house[h].owner => HasThere(r, x) = HasThere(w, x)
  /\ \A x \in Player : /\ HasThere(r, x).money >= HasThere(w, x).money - Rent
                       /\ HasThere(r, x).goods >= HasThere(w, x).goods

\* What of it matters for who is in the house.
LEMMA PassesIs ==
  ASSUME NEW w \in Worlds, NEW h \in House, NEW p \in Player \cup {None}, NEW r, Passes(w, r, h, p)
  PROVE  HousePasses(w, r, h)
BY DEF Passes, HousePasses

\* A world in which only the account of one player changed.
LEMMA AccountWith ==
  ASSUME NEW w \in Worlds, NEW r, NEW h \in House, NEW q \in Player,
         NEW money \in Int, HasThere(w, q).money + money \in Nat,
         \/ w.mem[q] # None /\ r = [w EXCEPT !.mem = Changed(@, q, money, 0)]
         \/ w.mem[q] = None /\ r = [w EXCEPT !.db = Changed(@, q, money, 0)]
  PROVE  /\ r \in Worlds /\ SameOnline(w, r) /\ r.house = w.house /\ r.inside = w.inside
         /\ HasThere(r, q).money = HasThere(w, q).money + money
         /\ HasThere(r, q).goods = HasThere(w, q).goods
         /\ \A x \in Player \ {q} : HasThere(r, x) = HasThere(w, x)
<1>1. w.mem \in Players /\ w.db \in Saved /\ w.house \in [House -> HouseStates] /\ w.inside \in Places
  BY DEF Worlds
<1>2. HasThere(w, q).money \in Nat /\ HasThere(w, q).goods \in Nat
  BY <1>1, HasType DEF HasThere
<1>3. CASE w.mem[q] # None /\ r = [w EXCEPT !.mem = Changed(@, q, money, 0)]
  <2> DEFINE c == Changed(w.mem, q, money, 0)
  <2>1. /\ c \in Players /\ \A x \in Player : c[x] # None <=> w.mem[x] # None
        /\ HasIn(c, w.db, q).money = HasIn(w.mem, w.db, q).money + money
        /\ HasIn(c, w.db, q).goods = HasIn(w.mem, w.db, q).goods + 0
        /\ \A x \in Player \ {q} : HasIn(c, w.db, x) = HasIn(w.mem, w.db, x)
    <3>1. w.mem[q].money + money \in Nat /\ w.mem[q].goods + 0 \in Nat /\ 0 \in Int
      BY <1>2, <1>3 DEF HasThere, HasIn
    <3>2. QED
      BY <1>1, <1>3, <3>1, GiveOnline
  <2>2. r = [mem |-> c, db |-> w.db, house |-> w.house, inside |-> w.inside]
    BY <1>3 DEF Worlds
  <2> HIDE DEF c
  <2>3. r \in Worlds /\ r.mem = c /\ r.db = w.db /\ r.house = w.house /\ r.inside = w.inside
    BY <1>1, <2>1, <2>2 DEF Worlds
  <2>4. HasThere(r, q).goods = HasThere(w, q).goods
    BY <1>2, <2>1, <2>3 DEF HasThere
  <2>5. QED
    BY <2>1, <2>3, <2>4 DEF HasThere, SameOnline
<1>4. CASE w.mem[q] = None /\ r = [w EXCEPT !.db = Changed(@, q, money, 0)]
  <2> DEFINE c == Changed(w.db, q, money, 0)
  <2>1. /\ c \in Saved
        /\ HasIn(w.mem, c, q).money = HasIn(w.mem, w.db, q).money + money
        /\ HasIn(w.mem, c, q).goods = HasIn(w.mem, w.db, q).goods + 0
        /\ \A x \in Player \ {q} : HasIn(w.mem, c, x) = HasIn(w.mem, w.db, x)
    <3>1. w.db[q].money + money \in Nat /\ w.db[q].goods + 0 \in Nat /\ 0 \in Int
      BY <1>2, <1>4 DEF HasThere, HasIn
    <3>2. QED
      BY <1>1, <1>4, <3>1, GiveOffline
  <2>2. r = [mem |-> w.mem, db |-> c, house |-> w.house, inside |-> w.inside]
    BY <1>4 DEF Worlds
  <2> HIDE DEF c
  <2>3. r \in Worlds /\ r.mem = w.mem /\ r.db = c /\ r.house = w.house /\ r.inside = w.inside
    BY <1>1, <2>1, <2>2 DEF Worlds
  <2>4. HasThere(r, q).goods = HasThere(w, q).goods
    BY <1>2, <2>1, <2>3 DEF HasThere
  <2>5. QED
    BY <2>1, <2>3, <2>4 DEF HasThere, SameOnline
<1>5. QED
  BY <1>3, <1>4

\* A house that keeps its owner.
LEMMA StayingIs ==
  ASSUME NEW w \in Worlds, NEW r \in Worlds, NEW h \in House, SameOnline(w, r), r.inside = w.inside,
         \A x \in House \ {h} : r.house[x] = w.house[x],
         r.house[h].owner = w.house[h].owner, r.house[h].guests = w.house[h].guests,
         r.house[h].goods = w.house[h].goods, r.house[h].sleeper = w.house[h].sleeper
  PROVE  HousePasses(w, r, h)
BY DEF HousePasses

\* An owner that cannot pay yet is warned.
LEMMA WarnedIs ==
  ASSUME NEW w \in Worlds, NEW h \in House, NEW q \in Player, w.house[h].owner = q,
         w.house[h].warnings < MaxWarnings, HasThere(w, q).money < Rent
  PROVE  LET r == [w EXCEPT !.house[h].warnings = @ + 1]
         IN  RentTaken(w, r, h) /\ IsWarned(w, r, h, q)
<1> DEFINE r == [w EXCEPT !.house[h].warnings = @ + 1]
           e == [w.house[h] EXCEPT !.warnings = @ + 1]
<1>1. /\ r.mem = w.mem /\ r.db = w.db /\ r.inside = w.inside
      /\ \A x \in House \ {h} : r.house[x] = w.house[x]
      /\ r.house[h].owner = w.house[h].owner /\ r.house[h].guests = w.house[h].guests
      /\ r.house[h].goods = w.house[h].goods /\ r.house[h].sleeper = w.house[h].sleeper
  BY DEF Worlds, HouseStates
<1>2. e \in HouseStates
  <2>1. w.house[h] \in HouseStates /\ w.house[h].warnings + 1 \in 0..MaxWarnings
    BY HousesAssumption DEF Worlds, HouseStates, HousesAssumption
  <2>2. QED
    BY <2>1, HouseFields DEF HouseStates
<1>3. r = [w EXCEPT !.house[h] = e]
  BY DEF Worlds, HouseStates
<1> HIDE DEF r, e
<1>4. r \in Worlds
  BY <1>2, <1>3, WorldWith
<1>5. \A x \in Player : HasThere(r, x) = HasThere(w, x)
  BY <1>1 DEF HasThere
<1>6. \A x \in Player : HasThere(w, x).money \in Nat /\ HasThere(w, x).goods \in Nat
  BY HasType DEF HasThere, Worlds
<1>7. SameOnline(w, r)
  BY <1>1 DEF SameOnline
<1>8. HousePasses(w, r, h)
  BY <1>1, <1>4, <1>7, StayingIs
<1>9. RentTaken(w, r, h)
  BY <1>1, <1>5, <1>6, <1>8, HousesAssumption DEF RentTaken, HousesAssumption
<1>10. IsWarned(w, r, h, q)
  BY <1>1, <1>5 DEF IsWarned
<1>11. QED
  BY <1>9, <1>10 DEF r

\* Any of the two that pays.
LEMMA RichPays ==
  ASSUME NEW w \in Worlds, NEW r, NEW h \in House, NEW q \in Player, w.house[h].owner = q,
         HasThere(w, q).money >= Rent,
         \/ w.mem[q] # None /\ r = [w EXCEPT !.mem = Changed(@, q, -Rent, 0)]
         \/ w.mem[q] = None /\ r = [w EXCEPT !.db = Changed(@, q, -Rent, 0)]
  PROVE  RentTaken(w, r, h) /\ HasPaid(w, r, h, q)
<1>1. Rent \in Nat
  BY HousesAssumption DEF HousesAssumption
<1>2. \A x \in Player : HasThere(w, x).money \in Nat /\ HasThere(w, x).goods \in Nat
  BY HasType DEF HasThere, Worlds
<1>3. -Rent \in Int /\ HasThere(w, q).money + (-Rent) \in Nat
  BY <1>1, <1>2
<1>4. /\ r \in Worlds /\ SameOnline(w, r) /\ r.house = w.house /\ r.inside = w.inside
      /\ HasThere(r, q).money = HasThere(w, q).money + (-Rent)
      /\ HasThere(r, q).goods = HasThere(w, q).goods
      /\ \A x \in Player \ {q} : HasThere(r, x) = HasThere(w, x)
  BY <1>3, AccountWith
<1>5. HousePasses(w, r, h)
  BY <1>4, StayingIs
<1>6. RentTaken(w, r, h)
  <2>1. \A x \in Player : /\ HasThere(r, x).money >= HasThere(w, x).money - Rent
                          /\ HasThere(r, x).goods >= HasThere(w, x).goods
    BY <1>1, <1>2, <1>4
  <2>2. QED
    BY <1>4, <1>5, <2>1 DEF RentTaken
<1>7. HasPaid(w, r, h, q)
  BY <1>1, <1>2, <1>4 DEF HasPaid
<1>8. QED
  BY <1>6, <1>7

\* Nothing happens where nobody can be loaded, or the house has no owner.
LEMMA NothingPaid ==
  ASSUME NEW w \in Worlds, NEW h \in House
  PROVE  RentTaken(w, w, h)
<1>1. \A x \in Player : HasThere(w, x).money \in Nat /\ HasThere(w, x).goods \in Nat
  BY HasType DEF HasThere, Worlds
<1>2. QED
  BY <1>1, HousesAssumption DEF HousesAssumption, RentTaken, HousePasses, SameOnline

\* An owner that cannot pay and was warned often enough.
LEMMA PutOutOnline ==
  ASSUME NEW w \in Worlds, NEW h \in House, NEW q \in Player, w.house[h].owner = q,
         w.house[h].warnings = MaxWarnings, HasThere(w, q).money < Rent, NEW f \in Failures
  PROVE  LET r == SetHouseOwner(w, h, None, f)
         IN  RentTaken(w, r, h) /\ (NoFailure(f) => IsPutOut(w, r, h, q))
<1> DEFINE r == SetHouseOwner(w, h, None, f)
<1>1. q # None
  BY DEF MarketAssumption
<1>2. Passes(w, r, h, None) /\ (NoFailure(f) => Arrives(w, r, h, q))
  BY <1>1, SetHouseOwnerIs
<1> HIDE DEF r
<1>3. \A x \in Player : HasThere(w, x).money \in Nat /\ HasThere(w, x).goods \in Nat
  BY HasType DEF HasThere, Worlds
<1>4. HousePasses(w, r, h)
  BY <1>2, PassesIs
<1>5. RentTaken(w, r, h)
  <2>1. Rent \in Nat
    BY HousesAssumption DEF HousesAssumption
  <2>2. \A x \in Player : /\ HasThere(r, x).money >= HasThere(w, x).money - Rent
                          /\ HasThere(r, x).goods >= HasThere(w, x).goods
    BY <1>2, <1>3, <2>1 DEF Passes
  <2>3. QED
    BY <1>2, <1>4, <2>2 DEF RentTaken, Passes
<1>6. NoFailure(f) => IsPutOut(w, r, h, q)
  BY <1>2 DEF IsPutOut, Arrives, Passes
<1>7. QED
  BY <1>5, <1>6 DEF r

\* The same when it is offline: whatever it was sent is overwritten.
LEMMA PutOutOffline ==
  ASSUME NEW w \in Worlds, NEW h \in House, NEW q \in Player, w.house[h].owner = q,
         w.mem[q] = None,
         w.house[h].warnings = MaxWarnings, HasThere(w, q).money < Rent, NEW f \in Failures
  PROVE  LET r == [SetHouseOwner(w, h, None, f) EXCEPT !.db[q] = w.db[q]]
         IN  RentTaken(w, r, h) /\ (NoFailure(f) => IsPutOut(w, r, h, q))
<1> DEFINE t == SetHouseOwner(w, h, None, f)
           r == [t EXCEPT !.db[q] = w.db[q]]
<1>1. q # None
  BY DEF MarketAssumption
<1>2. Passes(w, t, h, None) /\ (NoFailure(f) => Arrives(w, t, h, q))
  BY <1>1, SetHouseOwnerIs
<1> HIDE DEF t
<1>3. t \in Worlds /\ w.db[q] \in Account
  BY <1>2 DEF Passes, Worlds, Saved
<1>4. /\ r \in Worlds /\ r.mem = t.mem /\ r.house = t.house /\ r.inside = t.inside
      /\ r.db[q] = w.db[q] /\ \A x \in Player \ {q} : r.db[x] = t.db[x]
  BY <1>3 DEF Worlds, Saved
<1> HIDE DEF r
<1>5. t.mem = w.mem /\ \A x \in Player : x # q => t.db[x] = w.db[x]
  BY <1>1, <1>2 DEF Passes
<1>6. \A x \in Player : HasThere(r, x) = HasThere(w, x)
  BY <1>4, <1>5 DEF HasThere, HasIn
<1>7. \A x \in Player : HasThere(w, x).money \in Nat /\ HasThere(w, x).goods \in Nat
  BY HasType DEF HasThere, Worlds
<1>8. HousePasses(w, t, h)
  BY <1>2, PassesIs
<1>9. HousePasses(w, r, h)
  BY <1>4, <1>8 DEF HousePasses, SameOnline
<1>10. r.house[h].owner = None
  BY <1>2, <1>4 DEF Passes
<1>11. RentTaken(w, r, h)
  <2>1. Rent \in Nat
    BY HousesAssumption DEF HousesAssumption
  <2>2. \A x \in Player : /\ HasThere(r, x).money >= HasThere(w, x).money - Rent
                          /\ HasThere(r, x).goods >= HasThere(w, x).goods
    BY <1>6, <1>7, <2>1
  <2>3. QED
    BY <1>6, <1>9, <1>10, <2>2 DEF RentTaken
<1>12. NoFailure(f) => IsPutOut(w, r, h, q)
  BY <1>2, <1>4, <1>6, <1>10 DEF IsPutOut, Arrives
<1>13. QED
  BY <1>11, <1>12 DEF r, t

\* One turn of payHouses().
LEMMA PayIs ==
  ASSUME NEW w \in Worlds, NEW h \in House, NEW f \in Failures
  PROVE  LET r == Pay(w, h, f)
             q == w.house[h].owner
         IN  /\ RentTaken(w, r, h)
             /\ NoFailure(f) /\ q # None => HasPaid(w, r, h, q) \/ IsWarned(w, r, h, q) \/ IsPutOut(w, r, h, q)
             /\ q = None => r = w
<1> DEFINE q == w.house[h].owner
           r == Pay(w, h, f)
<1>1. /\ q \in Player \cup {None} /\ w.house[h].warnings \in 0..MaxWarnings
      /\ w.mem \in Players /\ w.db \in Saved /\ Rent \in Nat /\ MaxWarnings \in Nat
  BY HousesAssumption DEF Worlds, HouseStates, HousesAssumption
<1>2. CASE q = None
  <2>1. r = w
    BY <1>2 DEF Pay
  <2> HIDE DEF r
  <2>2. RentTaken(w, r, h)
    BY <2>1, NothingPaid
  <2>3. QED
    BY <1>2, <2>1, <2>2 DEF r
<1>3. CASE q # None /\ w.mem[q] # None
  <2>1. q \in Player /\ r = PayOnline(w, h, f)
    BY <1>1, <1>3 DEF Pay
  <2>2. HasThere(w, q) = w.mem[q] /\ w.mem[q].money \in Nat
    <3>1. HasThere(w, q) = w.mem[q]
      BY <1>3 DEF HasThere, HasIn
    <3>2. QED
      BY <1>1, <2>1, <3>1, HasType DEF HasThere
  <2>3. CASE w.mem[q].money >= Rent
    <3>1. r = [w EXCEPT !.mem = Changed(@, q, -Rent, 0)]
      BY <1>1, <2>1, <2>2, <2>3 DEF PayOnline
    <3> HIDE DEF r, q
    <3>2. RentTaken(w, r, h) /\ HasPaid(w, r, h, q)
      <4>1. w.house[h].owner = q
        BY DEF q
      <4>2. QED
        BY <1>3, <2>1, <2>2, <2>3, <3>1, <4>1, RichPays
    <3>3. QED
      BY <1>3, <3>2 DEF r, q
  <2>4. CASE ~ (w.mem[q].money >= Rent) /\ w.house[h].warnings < MaxWarnings
    <3>1. w.mem[q].money < Rent
      BY <1>1, <2>2, <2>4
    <3>2. r = [w EXCEPT !.house[h].warnings = @ + 1]
      BY <2>1, <2>4, <3>1 DEF PayOnline
    <3> HIDE DEF r, q
    <3>3. RentTaken(w, r, h) /\ IsWarned(w, r, h, q)
      <4>1. w.house[h].owner = q
        BY DEF q
      <4>2. QED
        BY <2>1, <2>2, <2>4, <3>1, <3>2, <4>1, WarnedIs
    <3>4. QED
      BY <1>3, <3>3 DEF r, q
  <2>5. CASE ~ (w.mem[q].money >= Rent) /\ ~ (w.house[h].warnings < MaxWarnings)
    <3>1. w.mem[q].money < Rent /\ w.house[h].warnings = MaxWarnings
      BY <1>1, <2>2, <2>5
    <3>2. r = SetHouseOwner(w, h, None, f)
      BY <2>1, <2>5 DEF PayOnline
    <3> HIDE DEF r, q
    <3>3. RentTaken(w, r, h) /\ (NoFailure(f) => IsPutOut(w, r, h, q))
      <4>1. w.house[h].owner = q
        BY DEF q
      <4>2. QED
        BY <2>1, <2>2, <3>1, <3>2, <4>1, PutOutOnline
    <3>4. QED
      BY <1>3, <3>3 DEF r, q
  <2>6. QED
    BY <2>3, <2>4, <2>5
<1>4. CASE q # None /\ w.mem[q] = None /\ q \in f.load
  <2>1. r = w
    BY <1>4 DEF Pay
  <2>2. ~ NoFailure(f)
    BY <1>4 DEF NoFailure
  <2> HIDE DEF r
  <2>3. RentTaken(w, r, h)
    BY <2>1, NothingPaid
  <2>4. QED
    BY <1>4, <2>2, <2>3 DEF r
<1>5. CASE q # None /\ w.mem[q] = None /\ q \notin f.load
  <2>1. q \in Player /\ r = PayOffline(w, h, f)
    BY <1>1, <1>5 DEF Pay
  <2>2. HasThere(w, q) = w.db[q] /\ w.db[q].money \in Nat
    <3>1. HasThere(w, q) = w.db[q]
      BY <1>5 DEF HasThere, HasIn
    <3>2. QED
      BY <1>1, <2>1, <3>1, HasType DEF HasThere
  <2>3. CASE w.db[q].money >= Rent /\ q \in f.save
    <3>1. r = w
      BY <1>1, <2>1, <2>2, <2>3 DEF PayOffline
    <3>2. ~ NoFailure(f)
      BY <2>3 DEF NoFailure
    <3> HIDE DEF r
    <3>3. RentTaken(w, r, h)
      BY <3>1, NothingPaid
    <3>4. QED
      BY <1>5, <3>2, <3>3 DEF r
  <2>4. CASE w.db[q].money >= Rent /\ q \notin f.save
    <3>1. r = [w EXCEPT !.db = Changed(@, q, -Rent, 0)]
      BY <1>1, <2>1, <2>2, <2>4 DEF PayOffline
    <3> HIDE DEF r, q
    <3>2. RentTaken(w, r, h) /\ HasPaid(w, r, h, q)
      <4>1. w.house[h].owner = q
        BY DEF q
      <4>2. QED
        BY <1>5, <2>1, <2>2, <2>4, <3>1, <4>1, RichPays
    <3>3. QED
      BY <1>5, <3>2 DEF r, q
  <2>5. CASE ~ (w.db[q].money >= Rent) /\ w.house[h].warnings < MaxWarnings
    <3>1. w.db[q].money < Rent
      BY <1>1, <2>2, <2>5
    <3>2. r = [w EXCEPT !.house[h].warnings = @ + 1]
      BY <2>1, <2>5, <3>1 DEF PayOffline
    <3> HIDE DEF r, q
    <3>3. RentTaken(w, r, h) /\ IsWarned(w, r, h, q)
      <4>1. w.house[h].owner = q
        BY DEF q
      <4>2. QED
        BY <2>1, <2>2, <2>5, <3>1, <3>2, <4>1, WarnedIs
    <3>4. QED
      BY <1>5, <3>3 DEF r, q
  <2>6. CASE ~ (w.db[q].money >= Rent) /\ ~ (w.house[h].warnings < MaxWarnings)
    <3>1. w.db[q].money < Rent /\ w.house[h].warnings = MaxWarnings
      BY <1>1, <2>2, <2>6
    <3>2. r = [SetHouseOwner(w, h, None, f) EXCEPT !.db[q] = w.db[q]]
      BY <2>1, <2>6 DEF PayOffline
    <3> HIDE DEF r, q
    <3>3. RentTaken(w, r, h) /\ (NoFailure(f) => IsPutOut(w, r, h, q))
      <4>1. w.house[h].owner = q
        BY DEF q
      <4>2. QED
        BY <1>5, <2>1, <2>2, <3>1, <3>2, <4>1, PutOutOffline
    <3>4. QED
      BY <1>5, <3>3 DEF r, q
  <2>7. QED
    BY <2>3, <2>4, <2>5, <2>6
<1>6. QED
  BY <1>2, <1>3, <1>4, <1>5

----------------------------------------------------------------------------
(* The inductive invariant *)

\* HousesTypeOK in the terms of the lemmas.
SaleStates == [seller : Player, buyer : Player] \cup {None}

Shapes ==
  /\ scene \in Scenes /\ tired \cup hasty \subseteq Player /\ due \subseteq scene.houses
  /\ house \in [House -> HouseStates] /\ sale \in [House -> SaleStates]
  /\ inside \in Places /\ editing \in Places /\ bedside \in Places

\* Only houses of the scene have anybody in them, or are for sale.
InTheScene ==
  /\ \A p \in Player : {inside[p], editing[p], bedside[p]} \subseteq scene.houses \cup {None}
  /\ \A h \in House : sale[h] # None => h \in scene.houses
  /\ tired # {} => scene.houses # {}

Pending == {h \in House : sale[h] # None}
Parties(h) == {sale[h].seller, sale[h].buyer}

\* Nobody takes part in two sales.
SalesAreApart ==
  \A h \in Pending :
    /\ sale[h].seller # sale[h].buyer
    /\ \A x \in Pending \ {h} : Parties(h) \cap Parties(x) = {}

\* To whom a house is offered has none, unless it bought one since.
BuyersHaveNone ==
  "give" \notin scene.deeds =>
    \A h \in Pending : sale[h].buyer \in hasty \/ HousesOf(sale[h].buyer) = {}

\* OneHouseEach without counting.
OneEach ==
  "give" \notin scene.deeds =>
    \A p \in Player \ hasty : \A h, x \in HousesOf(p) : h = x

\* The inductive invariant.
IInv ==
  /\ Inv /\ Shapes /\ OnlyWhoIsOnline /\ InsideIsInvited /\ SleepersAreAway
  /\ InTheScene /\ SalesAreApart /\ BuyersHaveNone /\ OneEach

\* The types are those of HousesTypeOK.
LEMMA ShapesAre == Shapes <=> HousesTypeOK
BY DEF Shapes, HousesTypeOK, HouseStates, SaleStates, Places

\* The houses of the scene are houses.
LEMMA SceneIs ==
  ASSUME Shapes
  PROVE  scene.houses \subseteq House /\ scene.beds \subseteq scene.houses
BY HousesAssumption DEF Shapes, HousesAssumption

\* Sales are between players.
LEMMA SaleIs ==
  ASSUME Shapes, NEW h \in Pending
  PROVE  h \in House /\ sale[h].seller \in Player /\ sale[h].buyer \in Player
BY DEF Shapes, Pending, SaleStates

\* Those who trade, by the pending sales.
LEMMA TradingIs ==
  /\ Sellers = {sale[h].seller : h \in Pending}
  /\ Trading = {sale[h].seller : h \in Pending} \cup {sale[h].buyer : h \in Pending}
BY DEF Sellers, Trading, Pending

\* The world of the handlers is that of the variables.
LEMMA WorldIs ==
  ASSUME Inv, Shapes
  PROVE  /\ World \in Worlds
         /\ World.mem = mem /\ World.db = db /\ World.house = house /\ World.inside = inside
         /\ \A p \in Player : HasThere(World, p) = Has(p)
<1>1. mem \in Players /\ db \in Saved
  BY InvIs DEF AccountsOK
<1>2. QED
  BY <1>1, HasIs DEF Shapes, World, Worlds, HasThere

\* Houses change hands: what that means for the market.
LEMMA WorldMoves ==
  ASSUME Inv, Shapes, NEW r \in Worlds, SameOnline(World, r), Becomes(r),
         UNCHANGED <<market, offers, aged, row, sweep>>, faults' \subseteq Kinds
  PROVE  /\ Inv' /\ online' = online /\ SameInOffers
         /\ \A p \in Player : Has(p)' = HasThere(r, p)
<1>1. AccountsOK /\ OffersOK
  BY InvIs
<1>2. mem' = r.mem /\ db' = r.db /\ mem' \in Players /\ db' \in Saved
  BY DEF Becomes, Worlds
<1>3. \A x \in Player : mem'[x] # None <=> mem[x] # None
  BY <1>2, WorldIs DEF SameOnline
<1>4. AccountsOK' /\ online' = online
  BY <1>1, <1>2, <1>3, NobodyMoves DEF AccountsOK
<1>5. OffersOK'
  BY <1>1, OffersStay DEF OffersOK, OffersAreCovered
<1>6. Inv'
  BY <1>4, <1>5, InvNext
<1>7. SameInOffers
  BY OffersSame
<1>8. QED
  BY <1>2, <1>4, <1>6, <1>7, HasIs DEF HasThere

\* The market stays as it is.
LEMMA MarketStays ==
  ASSUME Inv, UNCHANGED vars
  PROVE  /\ Inv' /\ online' = online /\ SameInOffers
         /\ \A p \in Player : Has(p)' = Has(p)
<1>1. UNCHANGED <<mem, db, market, offers, aged, row, sweep, faults>>
  BY DEF vars
<1>2. AccountsOK /\ OffersOK /\ faults \subseteq Kinds
  BY InvIs
<1>3. AccountsOK' /\ online' = online
  BY <1>1, <1>2 DEF AccountsOK, online
<1>4. OffersOK'
  BY <1>1, <1>2, OffersStay DEF OffersOK, OffersAreCovered
<1>5. Inv'
  BY <1>1, <1>2, <1>3, <1>4, InvNext
<1>6. QED
  BY <1>1, <1>3, <1>5, OffersSame DEF Has, online

\* Worth changes as what somebody has, when the offers stay.
LEMMA WorthFollows ==
  ASSUME Inv, SameInOffers, NEW q \in Player, NEW m \in Int, NEW n \in Int,
         Has(q)'.money = Has(q).money + m, Has(q)'.goods = Has(q).goods + n
  PROVE  Worth(q)' = Gets(Worth(q), m, n)
<1>1. /\ Has(q).money \in Nat /\ Has(q).goods \in Nat
      /\ SumFunction(MoneyIn(q)) \in Int /\ SumFunction(GoodsIn(q)) \in Int
  BY InvIs, WorthType
<1>2. SumFunction(MoneyIn(q))' = SumFunction(MoneyIn(q)) /\ SumFunction(GoodsIn(q))' = SumFunction(GoodsIn(q))
  BY DEF SameInOffers
<1>3. /\ Has(q)'.money + SumFunction(MoneyIn(q))' = (Has(q).money + SumFunction(MoneyIn(q))) + m
      /\ Has(q)'.goods + SumFunction(GoodsIn(q))' = (Has(q).goods + SumFunction(GoodsIn(q))) + n
  BY <1>1, <1>2
<1>4. QED
  BY <1>3, WorthBy

\* It does not fall further either.
LEMMA WorthAbove ==
  ASSUME Inv, SameInOffers, NEW q \in Player, NEW c \in Int,
         Has(q)'.money \in Nat, Has(q)'.goods \in Nat,
         Has(q)'.money >= Has(q).money - c, Has(q)'.goods >= Has(q).goods
  PROVE  Worth(q)'.money >= Worth(q).money - c /\ Worth(q)'.goods >= Worth(q).goods
<1>1. /\ Has(q).money \in Nat /\ Has(q).goods \in Nat
      /\ SumFunction(MoneyIn(q)) \in Int /\ SumFunction(GoodsIn(q)) \in Int
  BY InvIs, WorthType
<1>2. SumFunction(MoneyIn(q))' = SumFunction(MoneyIn(q)) /\ SumFunction(GoodsIn(q))' = SumFunction(GoodsIn(q))
  BY DEF SameInOffers
<1>3. /\ Worth(q).money = Has(q).money + SumFunction(MoneyIn(q))
      /\ Worth(q).goods = Has(q).goods + SumFunction(GoodsIn(q))
      /\ Worth(q)'.money = Has(q)'.money + SumFunction(MoneyIn(q))'
      /\ Worth(q)'.goods = Has(q)'.goods + SumFunction(GoodsIn(q))'
  BY DEF Worth
<1>4. QED
  BY <1>1, <1>2, <1>3

\* Sales end and owners leave: nobody trades or owns more than before.
LEMMA OnlyLess ==
  ASSUME Shapes, SalesAreApart, BuyersHaveNone, OneEach, scene' = scene, hasty' = hasty,
         \A h \in House : sale'[h] \in {sale[h], None},
         \A h \in House : house'[h].owner \in {house[h].owner, None}
  PROVE  SalesAreApart' /\ BuyersHaveNone' /\ OneEach' /\ Trading' \subseteq Trading
<1>1. Pending' \subseteq Pending /\ \A h \in Pending' : h \in House /\ sale'[h] = sale[h]
  BY DEF Pending
<1>2. \A p \in Player : HousesOf(p)' \subseteq HousesOf(p)
  BY SceneIs DEF HousesOf, MarketAssumption
<1>3. SalesAreApart'
  BY <1>1 DEF SalesAreApart, Parties
<1>4. BuyersHaveNone'
  <2> SUFFICES ASSUME "give" \notin scene.deeds, NEW h \in Pending', NEW b, b = sale'[h].buyer
               PROVE  b \in hasty' \/ HousesOf(b)' = {}
    BY DEF BuyersHaveNone, HousesOf
  <2>1. h \in Pending /\ b = sale[h].buyer /\ b \in Player
    BY <1>1, SaleIs
  <2>2. b \in hasty \/ HousesOf(b) = {}
    BY <2>1 DEF BuyersHaveNone
  <2>3. QED
    BY <1>2, <2>1, <2>2
<1>5. OneEach'
  BY <1>2 DEF OneEach
<1>6. Trading' \subseteq Trading
  BY <1>1 DEF Trading, Sellers, Pending
<1>7. QED
  BY <1>3, <1>4, <1>5, <1>6

----------------------------------------------------------------------------
(* What a house that changes hands means for the invariant *)

\* The bodies of FairDealing and of OfflineKeepsItsWorth.
Fair ==
  faults' = {} =>
    \/ GoodsStay /\ (NobodyGains \/ FeeIsTaken \/ Exchanged \/ Sent)
    \/ StoredSomething
    \/ Settled

KeepsItsWorth(p) ==
  \/ /\ Worth(p)'.goods >= Worth(p).goods
     /\ Worth(p)'.money >= Worth(p).money - RentDue(p)
  \/ ItsOffers(p)

OfflineKeeps == \A p \in Player \ (online \cup online') : "save" \notin faults' => KeepsItsWorth(p)

\* A house passes on, or its rent is paid: who is inside and who sleeps there.
LEMMA PassingKeeps ==
  ASSUME IInv, NEW h \in scene.houses, NEW r, HousePasses(World, r, h), Becomes(r),
         faults' \subseteq Kinds,
         UNCHANGED <<market, offers, aged, row, sweep, scene, editing, bedside, tired>>
  PROVE  /\ Inv' /\ online' = online /\ SameInOffers
         /\ \A p \in Player : Has(p)' = HasThere(r, p)
         /\ house' \in [House -> HouseStates] /\ inside' \in Places
         /\ \A p \in Player : inside'[p] \in {inside[p], None}
         /\ InsideIsInvited' /\ SleepersAreAway'
         /\ \A x \in House \ {h} : house'[x] = house[x]
         /\ house'[h] = r.house[h]
<1>1. Inv /\ Shapes /\ h \in House
  BY SceneIs DEF IInv
<1>2. /\ World.house = house /\ World.inside = inside /\ World \in Worlds
  BY <1>1, WorldIs
<1>3. /\ r \in Worlds /\ SameOnline(World, r)
      /\ \A x \in House \ {h} : r.house[x] = house[x]
      /\ r.house[h].sleeper \in {house[h].sleeper, None}
      /\ house[h].owner \in {None, r.house[h].owner} =>
           r.inside = inside /\ r.house[h].guests = house[h].guests
      /\ house[h].owner \notin {None, r.house[h].owner} =>
           \A x \in Player : r.inside[x] = IF inside[x] = h THEN None ELSE inside[x]
  BY <1>2 DEF HousePasses
<1>4. /\ Inv' /\ online' = online /\ SameInOffers
      /\ \A p \in Player : Has(p)' = HasThere(r, p)
  BY <1>1, <1>3, WorldMoves
<1>5. /\ house' = r.house /\ inside' = r.inside
      /\ house' \in [House -> HouseStates] /\ inside' \in Places
  BY <1>3 DEF Becomes, Worlds
<1>6. \A p \in Player : inside'[p] \in {inside[p], None}
  BY <1>3, <1>5
<1>7. InsideIsInvited'
  <2> SUFFICES ASSUME NEW p \in Player, inside'[p] # None, p \notin tired
               PROVE  \E x \in {inside'[p]} : p = house'[x].owner \/ p \in house'[x].guests
    BY DEF InsideIsInvited, IsInvited
  <2>1. PICK x : x = inside'[p]
    OBVIOUS
  <2>2. x = inside[p] /\ x \in House
    BY <1>5, <1>6, <2>1 DEF Places
  <2>3. p = house[x].owner \/ p \in house[x].guests
    BY <2>1, <2>2 DEF IInv, InsideIsInvited, IsInvited
  <2>4. CASE x # h
    BY <1>3, <1>5, <2>1, <2>2, <2>3, <2>4
  <2>5. CASE x = h
    <3>1. house[h].owner \in {None, r.house[h].owner}
      BY <1>3, <1>5, <2>1, <2>2, <2>5, <1>1 DEF MarketAssumption
    <3>2. r.house[h].guests = house[h].guests /\ p # None
      BY <1>3, <3>1 DEF MarketAssumption
    <3>3. QED
      BY <1>5, <2>1, <2>3, <2>5, <3>1, <3>2
  <2>6. QED
    BY <2>4, <2>5
<1>8. SleepersAreAway'
  <2>1. None \notin online
    BY DEF online, MarketAssumption
  <2>2. QED
    BY <1>3, <1>4, <1>5, <2>1 DEF IInv, SleepersAreAway
<1>9. QED
  BY <1>3, <1>4, <1>5, <1>6, <1>7, <1>8

\* Who is left inside, or trades, was so before.
LEMMA StillThere ==
  ASSUME OnlyWhoIsOnline, InTheScene, online' = online, Trading' \subseteq Trading,
         UNCHANGED <<scene, editing, bedside, tired>>,
         \A p \in Player : inside'[p] \in {inside[p], None},
         \A h \in House : sale'[h] \in {sale[h], None}
  PROVE  OnlyWhoIsOnline' /\ InTheScene'
<1>1. OnlyWhoIsOnline'
  BY DEF OnlyWhoIsOnline
<1>2. InTheScene'
  BY DEF InTheScene
<1>3. QED
  BY <1>1, <1>2

\* What the owner pays, gets and loses is what Settled asks for.
LEMMA SettledIs ==
  ASSUME Inv, SameInOffers, NEW h \in scene.houses, NEW q, q = house[h].owner,
         NEW m \in Int, NEW n \in Int,
         \A x \in Player : x # q => Has(x)' = Has(x),
         q \in Player => Has(q)'.money = Has(q).money + m /\ Has(q)'.goods = Has(q).goods + n,
         \A x \in House \ {h} : house'[x] = house[x],
         m = (IF q # None /\ h \in due /\ Has(q).money >= Rent THEN -Rent ELSE 0),
         \/ q = None /\ house'[h].goods = house[h].goods /\ n = 0
         \/ house'[h].owner = q /\ house'[h].goods = house[h].goods /\ n = 0
         \/ /\ q # None /\ house'[h].owner # q /\ house'[h].goods = 0
            /\ n = house[h].goods \/ (Evicted(h) /\ n = 0)
  PROVE  Settled
<1> DEFINE lost == q # None /\ house'[h].owner # q
<1>1. \A x \in Player : Worth(x)' = IF x = q THEN Gets(Worth(x), m, n) ELSE Worth(x)
  <2> SUFFICES ASSUME NEW x \in Player
               PROVE  Worth(x)' = IF x = q THEN Gets(Worth(x), m, n) ELSE Worth(x)
    OBVIOUS
  <2>1. CASE x = q
    BY <2>1, WorthFollows
  <2>2. CASE x # q
    BY <2>2, WorthStays
  <2>3. QED
    BY <2>1, <2>2
<1>2. n \in {IF lost THEN house[h].goods ELSE 0} \cup (IF lost /\ Evicted(h) THEN {0} ELSE {})
  OBVIOUS
<1>3. \A x \in House : house'[x].goods = IF x = h /\ lost THEN 0 ELSE house[x].goods
  OBVIOUS
<1>4. QED
  <2> DEFINE p == house[h].owner
             lost1 == p # None /\ house'[h].owner # p
             pays == p # None /\ h \in due /\ Has(p).money >= Rent
             sent == {IF lost1 THEN house[h].goods ELSE 0} \cup (IF lost1 /\ Evicted(h) THEN {0} ELSE {})
  <2>1. p = q /\ lost1 = lost /\ (IF pays THEN -Rent ELSE 0) = m /\ n \in sent
    BY <1>2
  <2>2. \A x \in Player : Worth(x)' = IF x = p THEN Gets(Worth(x), IF pays THEN -Rent ELSE 0, n) ELSE Worth(x)
    BY <1>1, <2>1
  <2>3. \A x \in House : house'[x].goods = IF x = h /\ lost1 THEN 0 ELSE house[x].goods
    BY <1>3, <2>1
  <2>4. QED
    BY <2>1, <2>2, <2>3, Zenon DEF Settled

\* Who is offline only gets something when a house passes on.
LEMMA PassingIsKind ==
  ASSUME Inv, SameInOffers, NEW r \in Worlds,
         \A p \in Player : Has(p)' = HasThere(r, p),
         \A p \in Player : /\ HasThere(r, p).money >= Has(p).money - RentDue(p)
                           /\ HasThere(r, p).goods >= Has(p).goods
  PROVE  OfflineKeeps
<1> SUFFICES ASSUME NEW p \in Player PROVE KeepsItsWorth(p)
  BY DEF OfflineKeeps
<1>1. HasThere(r, p).money \in Nat /\ HasThere(r, p).goods \in Nat
  BY HasType DEF HasThere, Worlds
<1>2. RentDue(p) \in Int
  BY HousesAssumption DEF HousesAssumption, RentDue
<1>3. PICK c \in Int : c = RentDue(p)
  BY <1>2
<1>4. Worth(p)'.money >= Worth(p).money - c /\ Worth(p)'.goods >= Worth(p).goods
  BY <1>1, <1>3, WorthAbove
<1>5. QED
  BY <1>3, <1>4 DEF KeepsItsWorth

----------------------------------------------------------------------------
(* The handlers *)

\* What fails is a fault.
LEMMA FailsIs ==
  ASSUME faults \subseteq Kinds, NEW f \in Failures, Fails(f)
  PROVE  faults' \subseteq Kinds /\ (faults' = {} => NoFailure(f))
<1>1. CASE f.load # {}
  <2>1. Fault("load")
    BY <1>1 DEF Fails, Failures
  <2>2. QED
    BY <2>1, FaultKind DEF Kinds, Fault
<1>2. CASE f.load = {} /\ f.save # {}
  <2>1. Fault("save")
    BY <1>2 DEF Fails, Failures
  <2>2. QED
    BY <2>1, FaultKind DEF Kinds, Fault
<1>3. CASE f.load = {} /\ f.save = {}
  <2>1. faults' = faults
    BY <1>3 DEF Fails, Failures
  <2>2. QED
    BY <1>3, <2>1 DEF NoFailure
<1>4. QED
  BY <1>1, <1>2, <1>3

\* When nothing may fail.
LEMMA NoFailureIs == [load |-> {}, save |-> {}] \in Failures /\ NoFailure([load |-> {}, save |-> {}])
BY DEF Failures, NoFailure

\* House h gets owner p, or none.
LEMMA NewOwner ==
  ASSUME IInv, due = {}, due' = {}, NEW h \in scene.houses, NEW p \in Player \cup {None}, NEW f \in Failures,
         Becomes(SetHouseOwner(World, h, p, f)),
         faults' \subseteq Kinds, faults' = {} => NoFailure(f),
         UNCHANGED <<market, offers, aged, row, sweep, scene, editing, bedside, tired>>
  PROVE  /\ Inv' /\ online' = online
         /\ house' \in [House -> HouseStates] /\ inside' \in Places
         /\ \A x \in Player : inside'[x] \in {inside[x], None}
         /\ InsideIsInvited' /\ SleepersAreAway'
         /\ \A x \in House \ {h} : house'[x] = house[x]
         /\ house'[h].owner = p
         /\ Fair /\ OfflineKeeps
<1> DEFINE r == SetHouseOwner(World, h, p, f)
<1>0. PICK q : q = house[h].owner
  OBVIOUS
<1>1. Inv /\ Shapes /\ h \in House
  BY SceneIs DEF IInv
<1>2. /\ World \in Worlds /\ World.mem = mem /\ World.house = house
      /\ \A x \in Player : HasThere(World, x) = Has(x)
  BY <1>1, WorldIs
<1>3. q \in Player \cup {None} /\ house[h].goods \in Nat
  BY <1>0, <1>1 DEF Shapes, HouseStates
<1>4. Passes(World, r, h, p) /\ (NoFailure(f) /\ q \notin {None, p} => Arrives(World, r, h, q))
  BY <1>0, <1>1, <1>2, SetHouseOwnerIs
<1>5. Becomes(r)
  OBVIOUS
<1> HIDE DEF r
<1>6. HousePasses(World, r, h) /\ r \in Worlds
  BY <1>1, <1>2, <1>4, PassesIs DEF Passes
<1>7. /\ Inv' /\ online' = online /\ SameInOffers
      /\ \A x \in Player : Has(x)' = HasThere(r, x)
      /\ house' \in [House -> HouseStates] /\ inside' \in Places
      /\ \A x \in Player : inside'[x] \in {inside[x], None}
      /\ InsideIsInvited' /\ SleepersAreAway'
      /\ \A x \in House \ {h} : house'[x] = house[x]
      /\ house'[h] = r.house[h]
  BY <1>5, <1>6, PassingKeeps
<1>8. /\ house'[h].owner = p
      /\ \A x \in Player : HasThere(r, x).money = Has(x).money
      /\ \A x \in Player : x # q => HasThere(r, x) = Has(x)
      /\ \A x \in Player : HasThere(r, x).goods >= Has(x).goods
      /\ q \in {None, p} => r.house[h].goods = house[h].goods /\ r.mem = World.mem /\ r.db = World.db
  BY <1>0, <1>2, <1>4, <1>7 DEF Passes
<1>9. \A x \in Player : /\ HasThere(r, x).money \in Nat /\ HasThere(r, x).goods \in Nat
                        /\ Has(x).money \in Nat /\ Has(x).goods \in Nat
  BY <1>2, <1>6, HasType DEF HasThere, Worlds
<1>10. OfflineKeeps
  <2>1. \A x \in Player : RentDue(x) = 0
    BY DEF RentDue
  <2>2. \A x \in Player : /\ HasThere(r, x).money >= Has(x).money - RentDue(x)
                          /\ HasThere(r, x).goods >= Has(x).goods
    BY <1>8, <1>9, <2>1
  <2>3. QED
    BY <1>1, <1>6, <1>7, <2>2, PassingIsKind
<1>11. ASSUME faults' = {} PROVE Settled
  <2>1. NoFailure(f)
    BY <1>11
  <2>2. CASE q \in {None, p}
    <3>2. \A x \in Player : HasThere(r, x) = Has(x)
      BY <1>2, <1>8, <2>2 DEF HasThere
    <3>3. /\ \A x \in Player : x # q => Has(x)' = Has(x)
          /\ q \in Player => Has(q)'.money = Has(q).money + 0 /\ Has(q)'.goods = Has(q).goods + 0
      BY <1>7, <1>9, <3>2
    <3>4. 0 \in Int /\ house'[h].goods = house[h].goods /\ (q = None \/ house'[h].owner = q)
      BY <1>7, <1>8, <2>2
    <3>5. 0 = (IF q # None /\ h \in due /\ Has(q).money >= Rent THEN -Rent ELSE 0)
      OBVIOUS
    <3>6. QED
      BY <1>0, <1>1, <1>7, <3>3, <3>4, <3>5, SettledIs
  <2>3. CASE q \notin {None, p}
    <3>1. q # None /\ house'[h].owner # q /\ q \in Player
      BY <1>3, <1>8, <2>3
    <3>2. Arrives(World, r, h, q)
      BY <1>4, <2>1, <2>3
    <3>3. PICK k \in Nat : k = house[h].goods
      BY <1>3
    <3>4. /\ \A x \in Player : x # q => Has(x)' = Has(x)
          /\ Has(q)'.money = Has(q).money + 0 /\ Has(q)'.goods = Has(q).goods + k
      BY <1>0, <1>2, <1>7, <1>8, <1>9, <3>1, <3>2, <3>3 DEF Arrives
    <3>5. 0 \in Int /\ k \in Int /\ house'[h].goods = 0
      BY <1>7, <3>2, <3>3 DEF Arrives
    <3>6. 0 = (IF q # None /\ h \in due /\ Has(q).money >= Rent THEN -Rent ELSE 0)
      OBVIOUS
    <3>7. QED
      BY <1>0, <1>1, <1>7, <3>1, <3>3, <3>4, <3>5, <3>6, SettledIs
  <2>4. QED
    BY <2>2, <2>3
<1>12. Fair
  BY <1>11 DEF Fair
<1>13. QED
  BY <1>7, <1>8, <1>10, <1>12

\* Only the new owner of a house has more of them.
LEMMA HousesOfNewOwner ==
  ASSUME Shapes, NEW h \in scene.houses, NEW p, scene' = scene, house'[h].owner = p,
         \A x \in House \ {h} : house'[x] = house[x]
  PROVE  \A q \in Player : /\ HousesOf(q)' \subseteq HousesOf(q) \cup {h}
                           /\ q # p => HousesOf(q)' \subseteq HousesOf(q)
BY SceneIs DEF HousesOf

\* Who buys has none; a buyer in a pending sale is hasty then, and nobody else is one.
LEMMA BuyHouseKeeps ==
  ASSUME IInv, due = {}, NEW p \in Player, NEW h \in House, BuyHouse(p, h)
  PROVE  IInv' /\ Fair /\ OfflineKeeps
<1>1. /\ Inv /\ Shapes /\ h \in scene.houses /\ p \in online /\ house[h].owner = None /\ HousesOf(p) = {}
      /\ UNCHANGED <<market, offers, aged, row, sweep, faults, scene, sale, editing, bedside, tired, due>>
      /\ hasty' = IF p \in Trading \ Sellers THEN hasty \cup {p} ELSE hasty
  BY DEF BuyHouse, IInv
<1> DEFINE f == [load |-> {}, save |-> {}]
<1>2. Becomes(SetHouseOwner(World, h, p, f)) /\ f \in Failures /\ NoFailure(f)
  BY NoFailureIs DEF BuyHouse
<1> HIDE DEF f
<1>3. faults' \subseteq Kinds
  BY <1>1, InvIs
<1>4. /\ Inv' /\ online' = online
      /\ house' \in [House -> HouseStates] /\ inside' \in Places
      /\ \A x \in Player : inside'[x] \in {inside[x], None}
      /\ InsideIsInvited' /\ SleepersAreAway'
      /\ \A x \in House \ {h} : house'[x] = house[x]
      /\ house'[h].owner = p
      /\ Fair /\ OfflineKeeps
  BY <1>1, <1>2, <1>3, NewOwner
<1>5. Trading' = Trading /\ Pending' = Pending /\ \A x : Parties(x)' = Parties(x)
  BY <1>1 DEF Trading, Sellers, Pending, Parties
<1>6. OnlyWhoIsOnline' /\ InTheScene'
  BY <1>1, <1>4, <1>5, StillThere DEF IInv
<1>7. Shapes'
  BY <1>1, <1>4 DEF Shapes
<1>8. SalesAreApart'
  BY <1>1, <1>5 DEF IInv, SalesAreApart
<1>9. \A q \in Player : /\ HousesOf(q)' \subseteq HousesOf(q) \cup {h}
                        /\ q # p => HousesOf(q)' \subseteq HousesOf(q)
  BY <1>1, <1>4, HousesOfNewOwner
<1>10. BuyersHaveNone'
  <2> SUFFICES ASSUME "give" \notin scene.deeds, NEW x \in Pending, NEW b, b = sale[x].buyer
               PROVE  b \in hasty' \/ HousesOf(b)' = {}
    BY <1>1, <1>5 DEF BuyersHaveNone, HousesOf
  <2>1. b \in Player /\ x \in House
    BY <1>1, SaleIs
  <2>2. b \in hasty \/ HousesOf(b) = {}
    BY DEF IInv, BuyersHaveNone
  <2>3. CASE b = p
    <3>1. p \notin Sellers
      <4> SUFFICES ASSUME NEW y \in Pending, p = sale[y].seller PROVE FALSE
        BY TradingIs
      <4>1. CASE y = x
        BY <2>3, <4>1 DEF IInv, SalesAreApart
      <4>2. CASE y # x
        BY <2>3, <4>2 DEF IInv, SalesAreApart, Parties
      <4>3. QED
        BY <4>1, <4>2
    <3>2. p \in Trading
      BY <2>3, TradingIs
    <3>3. QED
      BY <1>1, <2>3, <3>1, <3>2
  <2>4. CASE b # p
    BY <1>1, <1>9, <2>1, <2>2, <2>4
  <2>5. QED
    BY <2>3, <2>4
<1>11. OneEach'
  <2> SUFFICES ASSUME "give" \notin scene.deeds, NEW q \in Player \ hasty,
                      NEW x \in HousesOf(q)', NEW y \in HousesOf(q)'
               PROVE  x = y
    BY <1>1 DEF OneEach
  <2>1. CASE q = p
    BY <1>1, <1>9, <2>1
  <2>2. CASE q # p
    BY <1>9, <2>2 DEF IInv, OneEach
  <2>3. QED
    BY <2>1, <2>2
<1>12. IInv'
  BY <1>4, <1>6, <1>7, <1>8, <1>10, <1>11 DEF IInv
<1>13. QED
  BY <1>4, <1>12

\* The buyer had none, unless it was hasty, and takes part in no other sale.
LEMMA ExecuteTransferKeeps ==
  ASSUME IInv, due = {}, NEW h \in House, ExecuteTransfer(h)
  PROVE  IInv' /\ Fair /\ OfflineKeeps
<1>1. /\ Inv /\ Shapes /\ h \in Pending /\ h \in scene.houses
      /\ UNCHANGED <<market, offers, aged, row, sweep, scene, editing, bedside, tired, due, hasty>>
      /\ sale' = [sale EXCEPT ![h] = None]
  BY DEF ExecuteTransfer, IInv, Pending, InTheScene
<1>2. PICK p \in Player : p = sale[h].buyer
  BY <1>1, SaleIs
<1>3. PICK f \in Failures : Fails(f) /\ Becomes(SetHouseOwner(World, h, p, f))
  BY <1>2 DEF ExecuteTransfer
<1>4. faults' \subseteq Kinds /\ (faults' = {} => NoFailure(f))
  BY <1>1, <1>3, InvIs, FailsIs
<1>5. /\ Inv' /\ online' = online
      /\ house' \in [House -> HouseStates] /\ inside' \in Places
      /\ \A x \in Player : inside'[x] \in {inside[x], None}
      /\ InsideIsInvited' /\ SleepersAreAway'
      /\ \A x \in House \ {h} : house'[x] = house[x]
      /\ house'[h].owner = p
      /\ Fair /\ OfflineKeeps
  BY <1>1, <1>3, <1>4, NewOwner
<1>6. /\ sale'[h] = None /\ \A x \in House \ {h} : sale'[x] = sale[x]
      /\ \A x \in House : sale'[x] \in {sale[x], None}
      /\ sale' \in [House -> SaleStates]
  BY <1>1 DEF Shapes, SaleStates
<1>7. Pending' = Pending \ {h} /\ \A x \in Pending' : x \in House /\ sale'[x] = sale[x]
  BY <1>6 DEF Pending
<1>8. Trading' \subseteq Trading
  BY <1>7 DEF Trading, Sellers, Pending
<1>9. OnlyWhoIsOnline' /\ InTheScene'
  BY <1>1, <1>5, <1>6, <1>8, StillThere DEF IInv
<1>10. Shapes'
  BY <1>1, <1>5, <1>6 DEF Shapes
<1>11. SalesAreApart'
  BY <1>7 DEF IInv, SalesAreApart, Parties
<1>12. \A q \in Player : /\ HousesOf(q)' \subseteq HousesOf(q) \cup {h}
                         /\ q # p => HousesOf(q)' \subseteq HousesOf(q)
  BY <1>1, <1>5, HousesOfNewOwner
<1>13. BuyersHaveNone'
  <2> SUFFICES ASSUME "give" \notin scene.deeds, NEW x \in Pending', NEW b, b = sale'[x].buyer
               PROVE  b \in hasty \/ HousesOf(b)' = {}
    BY <1>1 DEF BuyersHaveNone, HousesOf
  <2>1. b \in Player /\ x \in Pending \ {h} /\ b = sale[x].buyer
    BY <1>1, <1>7, SaleIs
  <2>2. b \in hasty \/ HousesOf(b) = {}
    BY <2>1 DEF IInv, BuyersHaveNone
  <2>3. b # p
    BY <1>1, <1>2, <2>1 DEF IInv, SalesAreApart, Parties
  <2>4. QED
    BY <1>12, <2>1, <2>2, <2>3
<1>14. OneEach'
  <2> SUFFICES ASSUME "give" \notin scene.deeds, NEW q \in Player \ hasty,
                      NEW x \in HousesOf(q)', NEW y \in HousesOf(q)'
               PROVE  x = y
    BY <1>1 DEF OneEach
  <2>1. CASE q = p
    <3>1. HousesOf(q) = {}
      BY <1>1, <1>2, <2>1 DEF IInv, BuyersHaveNone
    <3>2. QED
      BY <1>12, <3>1
  <2>2. CASE q # p
    BY <1>12, <2>2 DEF IInv, OneEach
  <2>3. QED
    BY <2>1, <2>2
<1>15. IInv'
  BY <1>5, <1>9, <1>10, <1>11, <1>13, <1>14 DEF IInv
<1>16. QED
  BY <1>5, <1>15

\* Where houses are given away, one house each is not promised.
LEMMA GiveHouseKeeps ==
  ASSUME IInv, due = {}, NEW h \in House, NEW p \in Player \cup {None}, GiveHouse(h, p)
  PROVE  IInv' /\ Fair /\ OfflineKeeps
<1>1. /\ Inv /\ Shapes /\ h \in scene.houses /\ "give" \in scene.deeds
      /\ UNCHANGED <<market, offers, aged, row, sweep, scene, sale, editing, bedside, tired, due, hasty>>
  BY DEF GiveHouse, IInv, Done
<1>2. PICK f \in Failures : Fails(f) /\ Becomes(SetHouseOwner(World, h, p, f))
  BY DEF GiveHouse
<1>3. faults' \subseteq Kinds /\ (faults' = {} => NoFailure(f))
  BY <1>1, <1>2, InvIs, FailsIs
<1>4. /\ Inv' /\ online' = online
      /\ house' \in [House -> HouseStates] /\ inside' \in Places
      /\ \A x \in Player : inside'[x] \in {inside[x], None}
      /\ InsideIsInvited' /\ SleepersAreAway'
      /\ Fair /\ OfflineKeeps
  BY <1>1, <1>2, <1>3, NewOwner
<1>5. Trading' = Trading /\ Pending' = Pending /\ \A x : Parties(x)' = Parties(x)
  BY <1>1 DEF Trading, Sellers, Pending, Parties
<1>6. OnlyWhoIsOnline' /\ InTheScene'
  BY <1>1, <1>4, <1>5, StillThere DEF IInv
<1>7. Shapes'
  BY <1>1, <1>4 DEF Shapes
<1>8. SalesAreApart'
  BY <1>1, <1>5 DEF IInv, SalesAreApart
<1>9. BuyersHaveNone' /\ OneEach'
  BY <1>1 DEF BuyersHaveNone, OneEach
<1>10. IInv'
  BY <1>4, <1>6, <1>7, <1>8, <1>9 DEF IInv
<1>11. QED
  BY <1>4, <1>10

\* The rent of one house is taken.
LEMMA PayHouseKeeps ==
  ASSUME IInv, NEW h \in due, PayHouse(h)
  PROVE  IInv' /\ Fair /\ OfflineKeeps
<1>1. /\ Inv /\ Shapes /\ h \in scene.houses /\ h \in House
      /\ UNCHANGED <<market, offers, aged, row, sweep, scene, sale, editing, bedside, tired, hasty>>
      /\ due' = due \ {h}
  BY SceneIs DEF PayHouse, IInv, Shapes
<1>2. PICK f \in Failures : Fails(f) /\ Becomes(Pay(World, h, f))
  BY DEF PayHouse
<1>3. faults' \subseteq Kinds /\ (faults' = {} => NoFailure(f))
  BY <1>1, <1>2, InvIs, FailsIs
<1> DEFINE r == Pay(World, h, f)
<1>4. PICK q : q = house[h].owner
  OBVIOUS
<1>5. /\ World \in Worlds /\ World.mem = mem /\ World.house = house
      /\ \A x \in Player : HasThere(World, x) = Has(x)
  BY <1>1, WorldIs
<1>6. /\ RentTaken(World, r, h)
      /\ NoFailure(f) /\ q # None =>
           HasPaid(World, r, h, q) \/ IsWarned(World, r, h, q) \/ IsPutOut(World, r, h, q)
      /\ q = None => r = World
  BY <1>1, <1>4, <1>5, PayIs
<1>7. Becomes(r)
  BY <1>2
<1> HIDE DEF r
<1>8. /\ HousePasses(World, r, h) /\ r \in Worlds /\ r.house[h].owner \in {q, None}
      /\ \A x \in Player : x # q => HasThere(r, x) = Has(x)
      /\ \A x \in Player : /\ HasThere(r, x).money >= Has(x).money - Rent
                           /\ HasThere(r, x).goods >= Has(x).goods
  BY <1>4, <1>5, <1>6 DEF RentTaken, HousePasses
<1>9. /\ Inv' /\ online' = online /\ SameInOffers
      /\ \A x \in Player : Has(x)' = HasThere(r, x)
      /\ house' \in [House -> HouseStates] /\ inside' \in Places
      /\ \A x \in Player : inside'[x] \in {inside[x], None}
      /\ InsideIsInvited' /\ SleepersAreAway'
      /\ \A x \in House \ {h} : house'[x] = house[x]
      /\ house'[h] = r.house[h]
  BY <1>1, <1>3, <1>7, <1>8, PassingKeeps
<1>10. /\ \A x \in Player : /\ HasThere(r, x).money \in Nat /\ HasThere(r, x).goods \in Nat
                            /\ Has(x).money \in Nat /\ Has(x).goods \in Nat
       /\ house[h].goods \in Nat /\ q \in Player \cup {None} /\ Rent \in Nat
  <2>1. \A x \in Player : /\ HasThere(r, x).money \in Nat /\ HasThere(r, x).goods \in Nat
                          /\ Has(x).money \in Nat /\ Has(x).goods \in Nat
    BY <1>5, <1>8, HasType DEF HasThere, Worlds
  <2>2. house[h].goods \in Nat /\ q \in Player \cup {None} /\ Rent \in Nat
    BY <1>1, <1>4, HousesAssumption DEF Shapes, HouseStates, HousesAssumption
  <2>3. QED
    BY <2>1, <2>2
<1>11. OfflineKeeps
  <2>1. \A x \in Player : RentDue(x) \in Nat /\ (x = q => RentDue(x) = Rent)
    BY <1>1, <1>4, <1>10 DEF RentDue
  <2>2. \A x \in Player : /\ HasThere(r, x).money >= Has(x).money - RentDue(x)
                          /\ HasThere(r, x).goods >= Has(x).goods
    BY <1>8, <1>10, <2>1
  <2>3. QED
    BY <1>1, <1>8, <1>9, <2>2, PassingIsKind
<1>12. ASSUME faults' = {} PROVE Settled
  <2>1. NoFailure(f)
    BY <1>3, <1>12
  <2>2. \A x \in Player : x # q => Has(x)' = Has(x)
    BY <1>8, <1>9
  <2>3. CASE q = None
    <3>1. r = World
      BY <1>6, <2>3
    <3>2. house'[h].goods = house[h].goods /\ q \notin Player
      BY <1>5, <1>9, <2>3, <3>1 DEF MarketAssumption
    <3>3. 0 = (IF q # None /\ h \in due /\ Has(q).money >= Rent THEN -Rent ELSE 0) /\ 0 \in Int
      BY <2>3
    <3>4. QED
      BY <1>1, <1>4, <1>9, <2>2, <2>3, <3>2, <3>3, SettledIs
  <2>4. CASE q # None /\ HasPaid(World, r, h, q)
    <3>1. /\ Has(q).money >= Rent /\ house'[h].owner = q
          /\ HasThere(r, q).money = Has(q).money - Rent /\ HasThere(r, q).goods = Has(q).goods
          /\ q \in Player
      BY <1>5, <1>9, <1>10, <2>4 DEF HasPaid
    <3>2. house'[h].goods = house[h].goods
      BY <1>4, <1>5, <1>8, <1>9, <3>1 DEF HousePasses
    <3>3. Has(q)'.money = Has(q).money + (-Rent) /\ Has(q)'.goods = Has(q).goods + 0
      BY <1>9, <1>10, <3>1
    <3>4. /\ -Rent = (IF q # None /\ h \in due /\ Has(q).money >= Rent THEN -Rent ELSE 0)
          /\ -Rent \in Int /\ 0 \in Int
      BY <1>10, <2>4, <3>1
    <3>5. QED
      BY <1>1, <1>4, <1>9, <2>2, <3>1, <3>2, <3>3, <3>4, SettledIs
  <2>5. CASE q # None /\ IsWarned(World, r, h, q)
    <3>1. Has(q).money < Rent /\ house'[h].owner = q /\ HasThere(r, q) = Has(q) /\ q \in Player
      BY <1>5, <1>9, <1>10, <2>5 DEF IsWarned
    <3>2. house'[h].goods = house[h].goods
      BY <1>4, <1>5, <1>8, <1>9, <3>1 DEF HousePasses
    <3>3. Has(q)'.money = Has(q).money + 0 /\ Has(q)'.goods = Has(q).goods + 0
      BY <1>9, <1>10, <3>1
    <3>4. 0 = (IF q # None /\ h \in due /\ Has(q).money >= Rent THEN -Rent ELSE 0) /\ 0 \in Int
      BY <1>10, <3>1
    <3>5. QED
      BY <1>1, <1>4, <1>9, <2>2, <3>1, <3>2, <3>3, <3>4, SettledIs
  <2>6. CASE q # None /\ IsPutOut(World, r, h, q)
    <3>1. /\ Has(q).money < Rent /\ house[h].warnings = MaxWarnings
          /\ house'[h].owner = None /\ house'[h].goods = 0
          /\ HasThere(r, q).money = Has(q).money
          /\ \/ HasThere(r, q).goods = Has(q).goods + house[h].goods
             \/ mem[q] = None /\ HasThere(r, q).goods = Has(q).goods
          /\ q \in Player
      BY <1>5, <1>9, <1>10, <2>6 DEF IsPutOut
    <3>2. 0 = (IF q # None /\ h \in due /\ Has(q).money >= Rent THEN -Rent ELSE 0) /\ 0 \in Int
      BY <1>10, <3>1
    <3>3. Has(q)'.money = Has(q).money + 0
      BY <1>9, <1>10, <3>1
    <3>4. CASE HasThere(r, q).goods = Has(q).goods + house[h].goods
      <4>1. PICK k \in Nat : k = house[h].goods
        BY <1>10
      <4>2. Has(q)'.goods = Has(q).goods + k /\ k \in Int
        BY <1>9, <3>1, <3>4, <4>1
      <4>3. QED
        BY <1>1, <1>4, <1>9, <2>2, <2>6, <3>1, <3>2, <3>3, <4>1, <4>2, SettledIs
    <3>5. CASE mem[q] = None /\ HasThere(r, q).goods = Has(q).goods
      <4>1. Has(q)'.goods = Has(q).goods + 0
        BY <1>9, <1>10, <3>1, <3>5
      <4>2. Evicted(h)
        BY <1>4, <1>9, <3>1, <3>5 DEF Evicted, online
      <4>3. QED
        BY <1>1, <1>4, <1>9, <2>2, <2>6, <3>1, <3>2, <3>3, <4>1, <4>2, SettledIs
    <3>6. QED
      BY <3>1, <3>4, <3>5
  <2>7. QED
    BY <1>6, <2>1, <2>3, <2>4, <2>5, <2>6
<1>13. Fair
  BY <1>12 DEF Fair
<1>14. \A x \in House : house'[x].owner \in {house[x].owner, None}
  BY <1>4, <1>8, <1>9
<1>15. SalesAreApart' /\ BuyersHaveNone' /\ OneEach' /\ Trading' \subseteq Trading
  BY <1>1, <1>14, OnlyLess DEF IInv
<1>16. OnlyWhoIsOnline' /\ InTheScene'
  BY <1>1, <1>9, <1>15, StillThere DEF IInv
<1>17. Shapes'
  BY <1>1, <1>9 DEF Shapes
<1>18. IInv'
  BY <1>9, <1>15, <1>16, <1>17 DEF IInv
<1>19. QED
  BY <1>11, <1>13, <1>18

\* Everybody has what it had, and everything in a house stays there.
LEMMA NothingMoves ==
  ASSUME Inv, SameInOffers, \A p \in Player : Has(p)' = Has(p),
         \A h \in House : house'[h].goods = house[h].goods /\ house'[h].owner = house[h].owner
  PROVE  Fair /\ OfflineKeeps
<1>1. NobodyGains
  BY WorthStays DEF NobodyGains
<1>2. GoodsStay
  BY DEF GoodsStay
<1>3. ASSUME NEW p \in Player PROVE KeepsItsWorth(p)
  <2>1. Worth(p)' = Worth(p) /\ Worth(p).money \in Int /\ Worth(p).goods \in Int
    BY <1>1, InvIs, WorthType DEF NobodyGains
  <2>2. RentDue(p) \in Nat
    BY HousesAssumption DEF HousesAssumption, RentDue
  <2>3. QED
    BY <2>1, <2>2 DEF KeepsItsWorth
<1>4. QED
  BY <1>1, <1>2, <1>3 DEF Fair, OfflineKeeps

\* The market stays, and who owns what: what is left to be shown.
LEMMA QuietIs ==
  ASSUME IInv, UNCHANGED <<vars, scene, hasty>>,
         \A h \in House : sale'[h] \in {sale[h], None},
         \A h \in House : house'[h].goods = house[h].goods /\ house'[h].owner = house[h].owner
  PROVE  /\ Inv' /\ online' = online /\ Fair /\ OfflineKeeps
         /\ SalesAreApart' /\ BuyersHaveNone' /\ OneEach' /\ Trading' \subseteq Trading
<1>1. Inv /\ Shapes
  BY DEF IInv
<1>2. /\ Inv' /\ online' = online /\ SameInOffers
      /\ \A p \in Player : Has(p)' = Has(p)
  BY <1>1, MarketStays
<1>3. Fair /\ OfflineKeeps
  BY <1>1, <1>2, NothingMoves
<1>4. SalesAreApart' /\ BuyersHaveNone' /\ OneEach' /\ Trading' \subseteq Trading
  BY <1>1, OnlyLess DEF IInv
<1>5. QED
  BY <1>2, <1>3, <1>4

\* Who walks in is invited.
LEMMA EnterHouseKeeps ==
  ASSUME IInv, NEW p \in Player, NEW h \in House, EnterHouse(p, h)
  PROVE  IInv' /\ Fair /\ OfflineKeeps
<1>1. /\ UNCHANGED <<vars, scene, house, sale, editing, bedside, tired, due, hasty>>
      /\ h \in scene.houses /\ p \in online /\ IsInvited(h, p)
      /\ inside' = [inside EXCEPT ![p] = h]
  BY DEF EnterHouse
<1>2. /\ Inv' /\ online' = online /\ Fair /\ OfflineKeeps
      /\ SalesAreApart' /\ BuyersHaveNone' /\ OneEach' /\ Trading' \subseteq Trading
  BY <1>1, QuietIs
<1>3. /\ inside' \in Places /\ inside'[p] = h
      /\ \A x \in Player \ {p} : inside'[x] = inside[x]
  BY <1>1 DEF IInv, Shapes, Places
<1>4. Shapes'
  BY <1>1, <1>3 DEF IInv, Shapes
<1>5. OnlyWhoIsOnline'
  BY <1>1, <1>2, <1>3 DEF IInv, OnlyWhoIsOnline
<1>6. InsideIsInvited'
  BY <1>1, <1>3 DEF IInv, InsideIsInvited, IsInvited
<1>7. SleepersAreAway' /\ InTheScene'
  BY <1>1, <1>2, <1>3 DEF IInv, SleepersAreAway, InTheScene
<1>8. QED
  BY <1>2, <1>4, <1>5, <1>6, <1>7 DEF IInv

\* Who walks out is inside nothing.
LEMMA LeaveHouseKeeps ==
  ASSUME IInv, NEW p \in Player, LeaveHouse(p)
  PROVE  IInv' /\ Fair /\ OfflineKeeps
<1>1. /\ UNCHANGED <<vars, scene, house, sale, editing, bedside, tired, due, hasty>>
      /\ inside' = [inside EXCEPT ![p] = None]
  BY DEF LeaveHouse
<1>2. /\ Inv' /\ online' = online /\ Fair /\ OfflineKeeps
      /\ SalesAreApart' /\ BuyersHaveNone' /\ OneEach' /\ Trading' \subseteq Trading
  BY <1>1, QuietIs
<1>3. /\ inside' \in Places /\ inside'[p] = None
      /\ \A x \in Player \ {p} : inside'[x] = inside[x]
  BY <1>1 DEF IInv, Shapes, Places
<1>4. Shapes'
  BY <1>1, <1>3 DEF IInv, Shapes
<1>5. OnlyWhoIsOnline' /\ InTheScene'
  BY <1>1, <1>2, <1>3, StillThere DEF IInv
<1>6. InsideIsInvited'
  BY <1>1, <1>3 DEF IInv, InsideIsInvited, IsInvited
<1>7. SleepersAreAway'
  BY <1>1, <1>2 DEF IInv, SleepersAreAway
<1>8. QED
  BY <1>2, <1>4, <1>5, <1>6, <1>7 DEF IInv

\* Who opens the window is online and in the house.
LEMMA HouseGuestListKeeps ==
  ASSUME IInv, NEW p \in Player, HouseGuestList(p)
  PROVE  IInv' /\ Fair /\ OfflineKeeps
<1>1. /\ UNCHANGED <<vars, scene, house, sale, inside, bedside, tired, due, hasty>>
      /\ p \in online /\ inside[p] # None
      /\ editing' = [editing EXCEPT ![p] = inside[p]]
  BY DEF HouseGuestList
<1>2. /\ Inv' /\ online' = online /\ Fair /\ OfflineKeeps
      /\ SalesAreApart' /\ BuyersHaveNone' /\ OneEach' /\ Trading' \subseteq Trading
  BY <1>1, QuietIs
<1>3. /\ editing' \in Places /\ editing'[p] = inside[p]
      /\ \A x \in Player \ {p} : editing'[x] = editing[x]
  BY <1>1 DEF IInv, Shapes, Places
<1>4. Shapes'
  BY <1>1, <1>3 DEF IInv, Shapes
<1>5. OnlyWhoIsOnline'
  BY <1>1, <1>2, <1>3 DEF IInv, OnlyWhoIsOnline
<1>6. InsideIsInvited'
  BY <1>1 DEF IInv, InsideIsInvited, IsInvited
<1>7. SleepersAreAway' /\ InTheScene'
  BY <1>1, <1>2, <1>3 DEF IInv, SleepersAreAway, InTheScene
<1>8. QED
  BY <1>2, <1>4, <1>5, <1>6, <1>7 DEF IInv

\* The rents fall due.
LEMMA PayHousesKeeps ==
  ASSUME IInv, PayHouses
  PROVE  IInv' /\ Fair /\ OfflineKeeps
<1>1. /\ UNCHANGED <<vars, scene, house, sale, inside, editing, bedside, tired, hasty>>
      /\ due' = scene.houses
  BY DEF PayHouses
<1>2. /\ Inv' /\ online' = online /\ Fair /\ OfflineKeeps
      /\ SalesAreApart' /\ BuyersHaveNone' /\ OneEach' /\ Trading' \subseteq Trading
  BY <1>1, QuietIs
<1>3. Shapes'
  BY <1>1 DEF IInv, Shapes
<1>4. OnlyWhoIsOnline' /\ InTheScene'
  BY <1>1, <1>2, StillThere DEF IInv
<1>5. InsideIsInvited' /\ SleepersAreAway'
  BY <1>1, <1>2 DEF IInv, InsideIsInvited, IsInvited, SleepersAreAway
<1>6. QED
  BY <1>2, <1>3, <1>4, <1>5 DEF IInv

\* A sale is called off.
LEMMA SaleCancelledKeeps ==
  ASSUME IInv, NEW h \in House, SaleCancelled(h)
  PROVE  IInv' /\ Fair /\ OfflineKeeps
<1>1. /\ UNCHANGED <<vars, scene, house, inside, editing, bedside, tired, due, hasty>>
      /\ sale' = [sale EXCEPT ![h] = None]
  BY DEF SaleCancelled
<1>2. sale' \in [House -> SaleStates] /\ \A x \in House : sale'[x] \in {sale[x], None}
  BY <1>1 DEF IInv, Shapes, SaleStates
<1>3. /\ Inv' /\ online' = online /\ Fair /\ OfflineKeeps
      /\ SalesAreApart' /\ BuyersHaveNone' /\ OneEach' /\ Trading' \subseteq Trading
  BY <1>1, <1>2, QuietIs
<1>4. Shapes'
  BY <1>1, <1>2 DEF IInv, Shapes
<1>5. OnlyWhoIsOnline' /\ InTheScene'
  BY <1>1, <1>2, <1>3, StillThere DEF IInv
<1>6. InsideIsInvited' /\ SleepersAreAway'
  BY <1>1, <1>3 DEF IInv, InsideIsInvited, IsInvited, SleepersAreAway
<1>7. QED
  BY <1>3, <1>4, <1>5, <1>6 DEF IInv

\* A sale begins between two that trade nothing else, one of whom has no house.
LEMMA SellHouseKeeps ==
  ASSUME IInv, NEW p \in Player, NEW q \in Player, SellHouse(p, q)
  PROVE  IInv' /\ Fair /\ OfflineKeeps
<1>1. /\ UNCHANGED <<vars, scene, house, inside, editing, bedside, tired, due, hasty>>
      /\ {p, q} \subseteq online /\ p # q /\ {p, q} \cap Trading = {} /\ HousesOf(q) = {}
      /\ Inv /\ Shapes
  BY DEF SellHouse, IInv
<1>2. PICK h \in HousesOf(p) : sale[h] = None /\ sale' = [sale EXCEPT ![h] = [seller |-> p, buyer |-> q]]
  BY DEF SellHouse
<1>3. h \in scene.houses /\ h \in House
  BY <1>1, SceneIs DEF HousesOf
<1> DEFINE e == [seller |-> p, buyer |-> q]
<1>4. e \in SaleStates /\ e.seller = p /\ e.buyer = q /\ e # None
  BY HousesAssumption DEF SaleStates, HousesAssumption
<1>5. sale' = [sale EXCEPT ![h] = e]
  BY <1>2
<1> HIDE DEF e
<1>6. /\ sale' \in [House -> SaleStates] /\ sale'[h] = e
      /\ \A x \in House \ {h} : sale'[x] = sale[x]
  BY <1>1, <1>3, <1>4, <1>5 DEF Shapes
<1>7. /\ Inv' /\ online' = online /\ SameInOffers
      /\ \A x \in Player : Has(x)' = Has(x)
  BY <1>1, MarketStays
<1>8. Fair /\ OfflineKeeps
  BY <1>1, <1>7, NothingMoves
<1>9. Shapes'
  BY <1>1, <1>6 DEF Shapes
<1>10. Pending' = Pending \cup {h} /\ h \notin Pending
  BY <1>2, <1>3, <1>4, <1>6 DEF Pending
<1>11. \A x \in Pending : /\ x \in House /\ sale'[x] = sale[x]
                           /\ sale[x].seller \in Trading /\ sale[x].buyer \in Trading
  BY <1>1, <1>6, <1>10, SaleIs, TradingIs
<1>12. Trading' \subseteq Trading \cup {p, q}
  BY <1>4, <1>6, <1>10, <1>11 DEF Trading, Sellers, Pending
<1>13. OnlyWhoIsOnline'
  BY <1>1, <1>7, <1>12 DEF IInv, OnlyWhoIsOnline
<1>14. InTheScene'
  BY <1>1, <1>3, <1>6 DEF IInv, InTheScene
<1>15. InsideIsInvited' /\ SleepersAreAway'
  BY <1>1, <1>7 DEF IInv, InsideIsInvited, IsInvited, SleepersAreAway
<1>16. SalesAreApart'
  <2>1. \A x \in Pending : Parties(x)' = Parties(x) /\ Parties(x) \subseteq Trading
    BY <1>11 DEF Parties
  <2>2. Parties(h)' = {p, q}
    BY <1>4, <1>6 DEF Parties
  <2> SUFFICES ASSUME NEW x \in Pending'
               PROVE  /\ sale'[x].seller # sale'[x].buyer
                      /\ \A y \in Pending' \ {x} : Parties(x)' \cap Parties(y)' = {}
    BY DEF SalesAreApart, Parties
  <2>3. CASE x = h
    <3>1. \A y \in Pending' \ {x} : Parties(x)' \cap Parties(y)' = {}
      BY <1>1, <1>10, <2>1, <2>2, <2>3
    <3>2. QED
      BY <1>1, <1>4, <1>6, <2>3, <3>1
  <2>4. CASE x # h
    <3>1. x \in Pending /\ sale[x].seller # sale[x].buyer
          /\ \A y \in Pending \ {x} : Parties(x) \cap Parties(y) = {}
      BY <1>10, <2>4 DEF IInv, SalesAreApart
    <3>2. \A y \in Pending' \ {x} : Parties(x)' \cap Parties(y)' = {}
      BY <1>1, <1>10, <2>1, <2>2, <3>1
    <3>3. QED
      BY <1>11, <3>1, <3>2
  <2>5. QED
    BY <2>3, <2>4
<1>17. \A x \in Player : HousesOf(x)' = HousesOf(x)
  BY <1>1 DEF HousesOf
<1>18. BuyersHaveNone'
  <2> SUFFICES ASSUME "give" \notin scene.deeds, NEW x \in Pending', NEW b, b = sale'[x].buyer
               PROVE  b \in hasty \/ HousesOf(b)' = {}
    BY <1>1 DEF BuyersHaveNone, HousesOf
  <2>1. CASE x = h
    BY <1>1, <1>4, <1>6, <1>17, <2>1
  <2>2. CASE x # h
    <3>1. x \in Pending /\ b = sale[x].buyer /\ b \in Player
      BY <1>1, <1>10, <1>11, <2>2, SaleIs
    <3>2. QED
      BY <1>17, <3>1 DEF IInv, BuyersHaveNone
  <2>3. QED
    BY <2>1, <2>2
<1>19. OneEach'
  BY <1>1, <1>17 DEF IInv, OneEach
<1>20. IInv'
  BY <1>7, <1>9, <1>13, <1>14, <1>15, <1>16, <1>18, <1>19 DEF IInv
<1>21. QED
  BY <1>8, <1>20

\* Accounts change, offers stay, and nobody comes or goes.
LEMMA AccountsMove ==
  ASSUME Inv, mem' \in Players, db' \in Saved,
         \A x \in Player : mem'[x] # None <=> mem[x] # None,
         UNCHANGED <<market, offers, aged, row, sweep>>, faults' \subseteq Kinds
  PROVE  Inv' /\ online' = online /\ SameInOffers
<1>1. AccountsOK /\ OffersOK
  BY InvIs
<1>2. AccountsOK' /\ online' = online
  BY <1>1, NobodyMoves DEF AccountsOK
<1>3. OffersOK'
  BY <1>1, OffersStay DEF OffersOK, OffersAreCovered
<1>4. Inv'
  BY <1>2, <1>3, InvNext
<1>5. QED
  BY <1>2, <1>4, OffersSame

\* Nothing changes but the market.
LEMMA HousesStay ==
  ASSUME IInv, Inv', online' = online, UNCHANGED hvars
  PROVE  IInv'
<1>1. UNCHANGED <<scene, house, sale, inside, editing, bedside, tired, due, hasty>>
  BY DEF hvars
<1>2. Shapes' /\ InTheScene'
  BY <1>1 DEF IInv, Shapes, InTheScene
<1>3. \A h \in House : sale'[h] \in {sale[h], None} /\ house'[h].owner \in {house[h].owner, None}
  BY <1>1
<1>4. SalesAreApart' /\ BuyersHaveNone' /\ OneEach' /\ Trading' \subseteq Trading
  BY <1>1, <1>3, OnlyLess DEF IInv
<1>5. OnlyWhoIsOnline'
  BY <1>1, <1>4 DEF IInv, OnlyWhoIsOnline
<1>6. InsideIsInvited' /\ SleepersAreAway'
  BY <1>1 DEF IInv, InsideIsInvited, IsInvited, SleepersAreAway
<1>7. QED
  BY <1>2, <1>4, <1>5, <1>6 DEF IInv

\* A window opens, or somebody wakes up.
LEMMA UseBedKeeps ==
  ASSUME IInv, NEW p \in Player, UseBed(p)
  PROVE  IInv' /\ Fair /\ OfflineKeeps
<1>1. PICK h \in scene.houses : h = inside[p] /\ h \in House
  BY SceneIs DEF UseBed, IInv
<1>2. /\ UNCHANGED <<vars, scene, sale, inside, editing, tired, due, hasty>> /\ p \in online
      /\ \/ bedside' = [bedside EXCEPT ![p] = h] /\ house' = house
         \/ house' = [house EXCEPT ![h].sleeper = None] /\ bedside' = bedside
  BY <1>1 DEF UseBed
<1>3. /\ bedside' \in Places /\ bedside'[p] \in {bedside[p], h}
      /\ \A x \in Player \ {p} : bedside'[x] = bedside[x]
  BY <1>1, <1>2 DEF IInv, Shapes, Places
<1>4. /\ house' \in [House -> HouseStates]
      /\ \A x \in House : /\ house'[x].owner = house[x].owner /\ house'[x].guests = house[x].guests
                          /\ house'[x].goods = house[x].goods
                          /\ house'[x].sleeper \in {house[x].sleeper, None}
  BY <1>1, <1>2 DEF IInv, Shapes, HouseStates
<1>5. /\ Inv' /\ online' = online /\ Fair /\ OfflineKeeps
      /\ SalesAreApart' /\ BuyersHaveNone' /\ OneEach' /\ Trading' \subseteq Trading
  BY <1>2, <1>4, QuietIs
<1>6. Shapes'
  BY <1>2, <1>3, <1>4 DEF IInv, Shapes
<1>7. OnlyWhoIsOnline'
  BY <1>2, <1>3, <1>5 DEF IInv, OnlyWhoIsOnline
<1>8. InsideIsInvited'
  BY <1>2, <1>4 DEF IInv, InsideIsInvited, IsInvited, Shapes, Places
<1>9. SleepersAreAway'
  <2>1. None \notin online
    BY DEF online, MarketAssumption
  <2>2. QED
    BY <1>2, <1>4, <1>5, <2>1 DEF IInv, SleepersAreAway
<1>10. InTheScene'
  BY <1>2, <1>3 DEF IInv, InTheScene
<1>11. QED
  BY <1>5, <1>6, <1>7, <1>8, <1>9, <1>10 DEF IInv

\* Who goes to bed is tired, even where it is not invited any more.
LEMMA SleepKeeps ==
  ASSUME IInv, NEW p \in Player, Sleep(p)
  PROVE  IInv' /\ Fair /\ OfflineKeeps
<1>1. PICK h \in scene.houses : h = bedside[p] /\ h \in House
  BY SceneIs DEF Sleep, IInv, InTheScene
<1>2. /\ UNCHANGED <<vars, scene, sale, editing, due, hasty>> /\ p \in online
      /\ bedside' = [bedside EXCEPT ![p] = None]
      /\ \/ /\ house' = [house EXCEPT ![h].sleeper = p]
            /\ inside' = [inside EXCEPT ![p] = h] /\ tired' = tired \cup {p}
         \/ house' = house /\ inside' = inside /\ tired' = tired
  BY <1>1 DEF Sleep
<1>3. /\ bedside' \in Places /\ bedside'[p] = None
      /\ \A x \in Player \ {p} : bedside'[x] = bedside[x]
      /\ inside' \in Places /\ inside'[p] \in {inside[p], h}
      /\ \A x \in Player \ {p} : inside'[x] = inside[x]
  BY <1>1, <1>2 DEF IInv, Shapes, Places
<1>4. /\ house' \in [House -> HouseStates]
      /\ \A x \in House : /\ house'[x].owner = house[x].owner /\ house'[x].guests = house[x].guests
                          /\ house'[x].goods = house[x].goods
                          /\ house'[x].sleeper = house[x].sleeper \/ (house'[x].sleeper = p /\ p \in tired')
  BY <1>1, <1>2 DEF IInv, Shapes, HouseStates
<1>5. /\ Inv' /\ online' = online /\ Fair /\ OfflineKeeps
      /\ SalesAreApart' /\ BuyersHaveNone' /\ OneEach' /\ Trading' \subseteq Trading
  BY <1>2, <1>4, QuietIs
<1>6. tired \subseteq tired' /\ tired' \subseteq tired \cup {p} /\ (inside'[p] = inside[p] \/ p \in tired')
  BY <1>2, <1>3
<1>7. Shapes'
  BY <1>2, <1>3, <1>4, <1>6 DEF IInv, Shapes
<1>8. OnlyWhoIsOnline'
  BY <1>2, <1>3, <1>5, <1>6 DEF IInv, OnlyWhoIsOnline
<1>9. InsideIsInvited'
  <2> SUFFICES ASSUME NEW x \in Player, NEW y, y = inside'[x], y # None, x \notin tired'
               PROVE  IsInvited(y, x)'
    BY DEF InsideIsInvited, IsInvited
  <2>1. y = inside[x] /\ x \notin tired
    BY <1>3, <1>6
  <2>2. y \in House
    BY <1>3 DEF Places
  <2>3. QED
    BY <1>4, <2>1, <2>2 DEF IInv, InsideIsInvited, IsInvited
<1>10. SleepersAreAway'
  BY <1>4, <1>5, <1>6 DEF IInv, SleepersAreAway
<1>11. InTheScene'
  BY <1>1, <1>2, <1>3, <1>6 DEF IInv, InTheScene
<1>12. QED
  BY <1>5, <1>7, <1>8, <1>9, <1>10, <1>11 DEF IInv

\* Whoever is not on the new list is thrown out.
LEMMA UpdateHouseWindowKeeps ==
  ASSUME IInv, NEW p \in Player, NEW S \in SUBSET Player, UpdateHouseWindow(p, S)
  PROVE  IInv' /\ Fair /\ OfflineKeeps
<1>1. PICK h \in scene.houses : h = editing[p] /\ h \in House
  BY SceneIs DEF UpdateHouseWindow, IInv, InTheScene
<1>2. /\ UNCHANGED <<market, offers, aged, row, sweep, faults, scene, sale, bedside, tired, due, hasty>>
      /\ Becomes(SetAccessList(World, h, S)) /\ editing' = [editing EXCEPT ![p] = None]
  BY <1>1 DEF UpdateHouseWindow
<1>3. Inv /\ Shapes
  BY DEF IInv
<1>4. World = [mem |-> mem, db |-> db, house |-> house, inside |-> inside] /\ World \in Worlds
  BY <1>3, WorldIs DEF World
<1> DEFINE T == {x \in Player : inside[x] = h} \ (S \cup {house[h].owner})
           e == [house[h] EXCEPT !.guests = S]
<1>5. e \in HouseStates /\ e.owner = house[h].owner /\ e.guests = S /\ e.goods = house[h].goods
      /\ e.sleeper = house[h].sleeper
  BY <1>1, <1>3 DEF Shapes, HouseStates
<1>6. /\ mem' = mem /\ db' = db /\ house' = [house EXCEPT ![h] = e]
      /\ inside' = [x \in Player |-> IF x \in T THEN None ELSE inside[x]]
  <2> DEFINE w == [World EXCEPT !.house[h].guests = S]
  <2>1. /\ w.mem = mem /\ w.db = db /\ w.house = [house EXCEPT ![h] = e] /\ w.inside = inside
        /\ w = [mem |-> mem, db |-> db, house |-> [house EXCEPT ![h] = e], inside |-> inside]
    BY <1>4
  <2>2. /\ World.inside = inside /\ World.house = house
    BY <1>4
  <2>3. SetAccessList(World, h, S) = Out(w, T)
    BY <2>2 DEF SetAccessList, Everybody
  <2> HIDE DEF w, T
  <2>4. Becomes(Out(w, T))
    BY <1>2, <2>3
  <2>5. Out(w, T) = [mem |-> mem, db |-> db, house |-> [house EXCEPT ![h] = e],
                     inside |-> [x \in Player |-> IF x \in T THEN None ELSE inside[x]]]
    BY <2>1 DEF Out
  <2>6. QED
    BY <2>4, <2>5 DEF Becomes
<1> HIDE DEF e
<1>7. /\ house' \in [House -> HouseStates] /\ house'[h] = e
      /\ \A x \in House \ {h} : house'[x] = house[x]
  BY <1>1, <1>3, <1>5, <1>6 DEF Shapes
<1>8. /\ inside' \in Places /\ \A x \in Player : inside'[x] = IF x \in T THEN None ELSE inside[x]
  BY <1>3, <1>6 DEF Shapes, Places
<1>9. editing' \in Places /\ \A x \in Player : editing'[x] \in {editing[x], None}
  BY <1>2, <1>3 DEF Shapes, Places
<1>10. UNCHANGED vars
  BY <1>2, <1>6 DEF vars
<1>11. /\ Inv' /\ online' = online /\ Fair /\ OfflineKeeps
       /\ SalesAreApart' /\ BuyersHaveNone' /\ OneEach' /\ Trading' \subseteq Trading
  BY <1>2, <1>5, <1>7, <1>10, QuietIs
<1>12. Shapes'
  BY <1>2, <1>7, <1>8, <1>9 DEF IInv, Shapes
<1>13. OnlyWhoIsOnline' /\ InTheScene'
  BY <1>2, <1>8, <1>9, <1>11 DEF IInv, OnlyWhoIsOnline, InTheScene
<1>14. InsideIsInvited'
  <2> SUFFICES ASSUME NEW x \in Player, NEW y, y = inside'[x], y # None, x \notin tired'
               PROVE  IsInvited(y, x)'
    BY DEF InsideIsInvited, IsInvited
  <2>1. y = inside[x] /\ x \notin T /\ y \in House
    BY <1>3, <1>8 DEF Shapes, Places
  <2>2. IsInvited(y, x)
    BY <1>2, <2>1 DEF IInv, InsideIsInvited
  <2>3. CASE y = h
    BY <1>5, <1>7, <2>1, <2>3 DEF IsInvited
  <2>4. CASE y # h
    BY <1>7, <2>1, <2>2, <2>4 DEF IsInvited
  <2>5. QED
    BY <2>3, <2>4
<1>15. SleepersAreAway'
  BY <1>2, <1>5, <1>7, <1>11 DEF IInv, SleepersAreAway
<1>16. QED
  BY <1>11, <1>12, <1>13, <1>14, <1>15 DEF IInv

\* What is put down is gone from who puts it, and the other way round.
LEMMA StoreKeeps ==
  ASSUME IInv, due = {}, NEW p \in Player, NEW n \in {-1, 1}, Store(p, n)
  PROVE  IInv' /\ Fair /\ OfflineKeeps
<1>1. PICK h : h = inside[p]
  OBVIOUS
<1>2. /\ UNCHANGED <<db, market, offers, aged, row, sweep, faults, scene, sale, inside, editing,
                     bedside, tired, due, hasty>>
      /\ p \in online /\ h # None /\ h \in House /\ mem[p].goods >= n /\ house[h].goods >= -n
      /\ mem' = Changed(mem, p, 0, -n) /\ house' = [house EXCEPT ![h].goods = @ + n]
      /\ Inv /\ Shapes
  BY <1>1 DEF Store, IInv, Shapes, Places
<1>3. AccountsOK /\ OffersOK /\ faults \subseteq Kinds
  BY <1>2, InvIs
<1>4. mem[p] \in Account /\ mem[p] # None /\ mem[p].money \in Nat /\ mem[p].goods \in Nat /\ Has(p) = mem[p]
  BY <1>2, <1>3, OnlineIs, NoneIsNoAccount DEF Has
<1>5. -n \in Int /\ 0 \in Int /\ Has(p).money + 0 \in Nat /\ Has(p).goods + (-n) \in Nat
  BY <1>2, <1>4
<1>6. Gives(p, 0, -n)
  BY <1>2, <1>3, <1>4, <1>5, OneGets
<1>7. Inv' /\ online' = online /\ SameInOffers
  BY <1>2, <1>3, <1>6, AccountsMove DEF Gives
<1>8. /\ house' \in [House -> HouseStates]
      /\ \A x \in House : /\ house'[x].owner = house[x].owner /\ house'[x].guests = house[x].guests
                          /\ house'[x].sleeper = house[x].sleeper
                          /\ house'[x].goods = house[x].goods + (IF x = h THEN n ELSE 0)
  <2> DEFINE e == [house[h] EXCEPT !.goods = @ + n]
  <2>1. house[h] \in HouseStates /\ house[h].goods \in Nat /\ house[h].goods + n \in Nat
    BY <1>2 DEF Shapes, HouseStates
  <2>2. /\ e \in HouseStates /\ e.owner = house[h].owner /\ e.guests = house[h].guests
        /\ e.sleeper = house[h].sleeper /\ e.goods = house[h].goods + n
    BY <2>1, HouseFields DEF HouseStates
  <2>3. house' = [house EXCEPT ![h] = e]
    BY <1>2
  <2> HIDE DEF e
  <2>4. house' \in [House -> HouseStates] /\ house'[h] = e /\ \A x \in House \ {h} : house'[x] = house[x]
    BY <1>2, <2>2, <2>3 DEF Shapes
  <2>5. \A x \in House : house[x].goods \in Nat
    BY <1>2 DEF Shapes, HouseStates
  <2>6. QED
    BY <2>2, <2>4, <2>5
<1>9. \A q \in Player : Worth(q)' = Gets(Worth(q), 0, IF q = p THEN -n ELSE 0)
  <2> SUFFICES ASSUME NEW q \in Player
               PROVE  Worth(q)' = Gets(Worth(q), 0, IF q = p THEN -n ELSE 0)
    OBVIOUS
  <2> DEFINE k == IF q = p THEN -n ELSE 0
  <2>1. k \in Int /\ 0 \in Int
    BY <1>5
  <2>2. Has(q).money \in Nat /\ Has(q).goods \in Nat
    BY <1>3, WorthType
  <2>3. Has(q)'.money = Has(q).money + 0 /\ Has(q)'.goods = Has(q).goods + k
    BY <1>6, <2>2 DEF Gives
  <2> HIDE DEF k
  <2>4. Worth(q)' = Gets(Worth(q), 0, k)
    BY <1>2, <1>7, <2>1, <2>3, WorthFollows
  <2>5. QED
    BY <2>4 DEF k
<1>10. Fair
  BY <1>1, <1>2, <1>8, <1>9 DEF Fair, StoredSomething
<1>11. OfflineKeeps
  <2> SUFFICES ASSUME NEW q \in Player \ online PROVE KeepsItsWorth(q)
    BY DEF OfflineKeeps
  <2>1. Worth(q) \in [money : Int, goods : Int] /\ Gets(Worth(q), 0, 0) = Worth(q)
    BY <1>3, WorthType
  <2>2. Worth(q)' = Worth(q)
    BY <1>2, <1>9, <2>1
  <2>3. RentDue(q) = 0
    BY <1>2 DEF RentDue
  <2>4. QED
    BY <2>1, <2>2, <2>3 DEF KeepsItsWorth
<1>12. Shapes' /\ InTheScene'
  BY <1>2, <1>8 DEF IInv, Shapes, InTheScene
<1>13. SalesAreApart' /\ BuyersHaveNone' /\ OneEach' /\ Trading' \subseteq Trading
  BY <1>2, <1>8, OnlyLess DEF IInv
<1>14. OnlyWhoIsOnline'
  BY <1>2, <1>7, <1>13 DEF IInv, OnlyWhoIsOnline
<1>15. InsideIsInvited'
  BY <1>2, <1>8 DEF IInv, InsideIsInvited, IsInvited, Shapes, Places
<1>16. SleepersAreAway'
  BY <1>2, <1>7, <1>8 DEF IInv, SleepersAreAway
<1>17. QED
  BY <1>7, <1>10, <1>11, <1>12, <1>13, <1>14, <1>15, <1>16 DEF IInv

\* What is sent is gone from p, and q has it unless its database fails.
LEMMA SendItemKeeps ==
  ASSUME IInv, due = {}, NEW p \in Player, NEW q \in Player, SendItem(p, q)
  PROVE  IInv' /\ Fair /\ OfflineKeeps
<1> DEFINE sent == Changed(mem, p, 0, -1)
<1>1. /\ UNCHANGED <<market, offers, aged, row, sweep, hvars>>
      /\ p \in online /\ p # q /\ mem[p].goods > 0 /\ Inv
      /\ \/ q \in online /\ mem' = Changed(sent, q, 0, 1) /\ UNCHANGED <<db, faults>>
         \/ q \notin online /\ mem' = sent /\ db' = Changed(db, q, 0, 1) /\ UNCHANGED faults
         \/ q \notin online /\ mem' = sent /\ Fault("save") /\ UNCHANGED db
  BY DEF SendItem, DeliverOffline, IInv
<1>2. AccountsOK /\ OffersOK /\ faults \subseteq Kinds
  BY <1>1, InvIs
<1>3. mem[p] \in Account /\ mem[p] # None /\ mem[p].money \in Nat /\ mem[p].goods \in Nat /\ Has(p) = mem[p]
  BY <1>1, <1>2, OnlineIs, NoneIsNoAccount DEF Has
<1>4. /\ -1 \in Int /\ 0 \in Int /\ 0 \in Nat /\ 1 \in Nat
      /\ mem[p].money + 0 \in Nat /\ mem[p].goods + (-1) \in Nat
  BY <1>1, <1>3
<1>5. \A r \in Player : Has(r).money \in Nat /\ Has(r).goods \in Nat
  BY <1>2, WorthType
<1>6. UNCHANGED <<house, due>>
  BY <1>1 DEF hvars
<1>7. CASE \/ q \in online /\ mem' = Changed(sent, q, 0, 1) /\ UNCHANGED <<db, faults>>
           \/ q \notin online /\ mem' = sent /\ db' = Changed(db, q, 0, 1) /\ UNCHANGED faults
  <2>1. faults' \subseteq Kinds /\ (mem[q] # None <=> q \in online)
    BY <1>2, <1>7 DEF online
  <2>2. Moved(p, q, 0, -1, 0, 1)
    BY <1>2, <1>3, <1>4, <1>7, <2>1, TwoGet
  <2>3. Inv' /\ online' = online /\ SameInOffers
    BY <1>1, <2>1, <2>2, AccountsMove DEF Moved
  <2>4. \A r \in Player : Worth(r)' = Gets(Worth(r), 0, CASE r = p -> -1 [] r = q -> 1 [] OTHER -> 0)
    <3> SUFFICES ASSUME NEW r \in Player
                 PROVE  Worth(r)' = Gets(Worth(r), 0, CASE r = p -> -1 [] r = q -> 1 [] OTHER -> 0)
      OBVIOUS
    <3> DEFINE k == CASE r = p -> -1 [] r = q -> 1 [] OTHER -> 0
    <3>1. k = (IF r = p THEN -1 ELSE IF r = q THEN 1 ELSE 0)
      BY <1>1
    <3> HIDE DEF k
    <3>2. k \in Int
      BY <3>1
    <3>3. Has(r)'.money = Has(r).money + 0 /\ Has(r)'.goods = Has(r).goods + k
      BY <1>1, <1>5, <2>2, <3>1 DEF Moved
    <3>4. Worth(r)' = Gets(Worth(r), 0, k)
      BY <1>1, <1>4, <2>3, <3>2, <3>3, WorthFollows
    <3>5. QED
      BY <3>4 DEF k
  <2>5. Sent
    BY <1>1, <2>4 DEF Sent
  <2>6. GoodsStay
    BY <1>6 DEF GoodsStay
  <2>7. Fair
    BY <2>5, <2>6 DEF Fair
  <2>8. OfflineKeeps
    <3> SUFFICES ASSUME NEW r \in Player \ online PROVE KeepsItsWorth(r)
      BY DEF OfflineKeeps
    <3>1. Has(r)'.money = Has(r).money /\ (Has(r)'.goods = Has(r).goods \/ Has(r)'.goods = Has(r).goods + 1)
      BY <1>1, <1>5, <2>2 DEF Moved
    <3>2. Has(r)'.money \in Nat /\ Has(r)'.goods \in Nat /\ Has(r)'.money >= Has(r).money - 0 /\ Has(r)'.goods >= Has(r).goods
      BY <1>5, <3>1
    <3>3. Worth(r)'.money >= Worth(r).money - 0 /\ Worth(r)'.goods >= Worth(r).goods
      BY <1>1, <1>4, <2>3, <3>2, WorthAbove
    <3>4. RentDue(r) = 0
      BY <1>6 DEF RentDue
    <3>5. QED
      BY <3>3, <3>4 DEF KeepsItsWorth
  <2>9. IInv'
    BY <1>1, <2>3, HousesStay
  <2>10. QED
    BY <2>7, <2>8, <2>9
<1>8. CASE q \notin online /\ mem' = sent /\ Fault("save") /\ UNCHANGED db
  <2>1. faults' \subseteq Kinds /\ "save" \in faults'
    BY <1>2, <1>8, FaultKind DEF Kinds, Fault
  <2>2. Gives(p, 0, -1)
    BY <1>2, <1>3, <1>4, <1>8, OneGets
  <2>3. Inv' /\ online' = online /\ SameInOffers
    BY <1>1, <2>1, <2>2, AccountsMove DEF Gives
  <2>4. Fair /\ OfflineKeeps
    BY <2>1 DEF Fair, OfflineKeeps
  <2>5. IInv'
    BY <1>1, <2>3, HousesStay
  <2>6. QED
    BY <2>4, <2>5
<1>9. QED
  BY <1>1, <1>7, <1>8

\* Everybody is saved and gone; nobody sells, sleeps or edits any more.
LEMMA CloseServerKeeps ==
  ASSUME IInv, due = {}, CloseServer
  PROVE  IInv' /\ Fair /\ OfflineKeeps
<1>1. /\ Becomes(Kicked(World)) /\ Inv /\ Shapes
      /\ market' = {} /\ sale' = [h \in House |-> None]
      /\ editing' = Nowhere /\ bedside' = Nowhere /\ tired' = {} /\ due' = scene.houses
      /\ UNCHANGED <<offers, aged, row, sweep, faults, scene, hasty>>
  BY DEF CloseServer, IInv
<1>2. World = [mem |-> mem, db |-> db, house |-> house, inside |-> inside]
  BY DEF World
<1>3. /\ mem' = Nowhere /\ inside' = Nowhere /\ house' = house
      /\ db' = [p \in Player |-> IF mem[p] = None THEN db[p] ELSE mem[p]]
  BY <1>1, <1>2 DEF Becomes, Kicked
<1>4. AccountsOK /\ OffersOK /\ faults \subseteq Kinds
  BY <1>1, InvIs
<1>5. mem' \in Players /\ db' \in Saved /\ online' = {}
  BY <1>3, <1>4 DEF AccountsOK, Players, Saved, online, Nowhere
<1>6. AccountsOK'
  BY <1>1, <1>5 DEF AccountsOK
<1>7. OffersOK'
  BY <1>1, <1>4, OffersStay DEF OffersOK, OffersAreCovered
<1>8. Inv'
  BY <1>1, <1>4, <1>6, <1>7, InvNext
<1>9. SameInOffers
  BY <1>1, OffersSame
<1>10. \A p \in Player : Has(p)' = Has(p)
  BY <1>3 DEF Has, online, Nowhere
<1>11. Fair /\ OfflineKeeps
  BY <1>1, <1>3, <1>9, <1>10, NothingMoves
<1>12. Nowhere \in Places /\ [h \in House |-> None] \in [House -> SaleStates]
       /\ \A p \in Player : Nowhere[p] = None
  BY DEF Nowhere, Places, SaleStates
<1>13. Shapes'
  BY <1>1, <1>3, <1>12 DEF Shapes
<1>14. SalesAreApart' /\ BuyersHaveNone' /\ OneEach'
  BY <1>1, <1>3, OnlyLess DEF IInv
<1>15. Trading' = {}
  BY <1>1 DEF Trading, Sellers
<1>16. OnlyWhoIsOnline' /\ InTheScene'
  BY <1>1, <1>3, <1>12, <1>15 DEF OnlyWhoIsOnline, InTheScene
<1>17. InsideIsInvited' /\ SleepersAreAway'
  BY <1>3, <1>5, <1>12 DEF InsideIsInvited, SleepersAreAway
<1>18. QED
  BY <1>8, <1>11, <1>13, <1>14, <1>16, <1>17 DEF IInv

\* Who appears is woken up, and is in no house it may not be in.
LEMMA HouseLoginKeeps ==
  ASSUME IInv, NEW p \in Player, HouseLogin(p)
  PROVE  IInv' /\ Fair /\ OfflineKeeps
<1>1. /\ Login(p) /\ house' = WokenUp(p) /\ Inv /\ Shapes
      /\ UNCHANGED <<scene, sale, editing, bedside, tired, due, hasty>>
  BY DEF HouseLogin, IInv
<1>2. PICK h \in {None} \cup {x \in scene.houses : IsInvited(x, p)} : inside' = [inside EXCEPT ![p] = h]
  BY DEF HouseLogin
<1>3. /\ Inv' /\ online' = online \cup {p} /\ p \notin online
      /\ SameInOffers /\ \A q \in Player : Has(q)' = Has(q)
  BY <1>1, LoginKeeps
<1>4. /\ house' \in [House -> HouseStates]
      /\ \A x \in House : /\ house'[x].owner = house[x].owner /\ house'[x].guests = house[x].guests
                          /\ house'[x].goods = house[x].goods
                          /\ house'[x].sleeper = IF house[x].sleeper = p THEN None ELSE house[x].sleeper
  BY <1>1 DEF WokenUp, Shapes, HouseStates
<1>5. /\ inside' \in Places /\ inside'[p] = h
      /\ \A x \in Player \ {p} : inside'[x] = inside[x]
  BY <1>1, <1>2, SceneIs DEF Shapes, Places
<1>6. Fair /\ OfflineKeeps
  BY <1>1, <1>3, <1>4, NothingMoves
<1>7. SalesAreApart' /\ BuyersHaveNone' /\ OneEach' /\ Trading' \subseteq Trading
  BY <1>1, <1>4, OnlyLess DEF IInv
<1>8. Shapes'
  BY <1>1, <1>4, <1>5 DEF Shapes
<1>9. OnlyWhoIsOnline'
  BY <1>1, <1>3, <1>5, <1>7 DEF IInv, OnlyWhoIsOnline
<1>10. InsideIsInvited'
  <2> SUFFICES ASSUME NEW x \in Player, NEW y, y = inside'[x], y # None, x \notin tired'
               PROVE  IsInvited(y, x)'
    BY DEF InsideIsInvited, IsInvited
  <2>1. y \in House
    BY <1>5 DEF Places
  <2>2. IsInvited(y, x)
    <3>1. CASE x = p
      BY <1>2, <1>5, <3>1
    <3>2. CASE x # p
      BY <1>1, <1>5, <3>2 DEF IInv, InsideIsInvited
    <3>3. QED
      BY <3>1, <3>2
  <2>3. QED
    BY <1>4, <2>1, <2>2 DEF IsInvited
<1>11. SleepersAreAway'
  <2>1. None \notin online /\ p # None
    BY DEF online, MarketAssumption
  <2>2. QED
    BY <1>1, <1>3, <1>4, <2>1 DEF IInv, SleepersAreAway
<1>12. InTheScene'
  BY <1>1, <1>2, <1>5 DEF IInv, InTheScene
<1>13. QED
  BY <1>3, <1>6, <1>7, <1>8, <1>9, <1>10, <1>11, <1>12 DEF IInv

\* Who leaves takes its trades and windows along.
LEMMA HouseLogoutKeeps ==
  ASSUME IInv, NEW p \in Player, HouseLogout(p)
  PROVE  IInv' /\ Fair /\ OfflineKeeps
<1>1. /\ Logout(p) /\ sale' = SalesWithout({p}) /\ Inv /\ Shapes
      /\ inside' = [inside EXCEPT ![p] = None] /\ editing' = [editing EXCEPT ![p] = None]
      /\ bedside' = [bedside EXCEPT ![p] = None] /\ tired' = tired \ {p}
      /\ UNCHANGED <<scene, house, due, hasty>>
  BY DEF HouseLogout, IInv
<1>2. /\ Inv' /\ online' = online \ {p} /\ p \in online
      /\ SameInOffers /\ \A q \in Player \ {p} : Has(q)' = Has(q)
      /\ "save" \notin faults' => Has(p)' = Has(p)
  BY <1>1, LogoutKeeps
<1>3. /\ \A x \in House : sale'[x] \in {sale[x], None}
      /\ \A x \in House : sale'[x] # None => sale'[x] = sale[x] /\ p \notin {sale[x].seller, sale[x].buyer}
      /\ sale' \in [House -> SaleStates]
  BY <1>1 DEF SalesWithout, Shapes, SaleStates
<1>4. /\ inside' \in Places /\ inside'[p] = None /\ \A x \in Player \ {p} : inside'[x] = inside[x]
      /\ editing' \in Places /\ editing'[p] = None /\ \A x \in Player \ {p} : editing'[x] = editing[x]
      /\ bedside' \in Places /\ bedside'[p] = None /\ \A x \in Player \ {p} : bedside'[x] = bedside[x]
  BY <1>1 DEF Shapes, Places
<1>5. Fair /\ OfflineKeeps
  <2>1. CASE "save" \in faults'
    BY <2>1 DEF Fair, OfflineKeeps
  <2>2. CASE "save" \notin faults'
    <3>1. \A q \in Player : Has(q)' = Has(q)
      BY <1>2, <2>2
    <3>2. QED
      BY <1>1, <1>2, <3>1, NothingMoves
  <2>3. QED
    BY <2>1, <2>2
<1>6. SalesAreApart' /\ BuyersHaveNone' /\ OneEach' /\ Trading' \subseteq Trading
  BY <1>1, <1>3, OnlyLess DEF IInv
<1>7. Trading' \subseteq Trading \ {p}
  <2>1. p \notin Trading'
    BY <1>3 DEF Trading, Sellers
  <2>2. QED
    BY <1>6, <2>1
<1>8. Shapes'
  BY <1>1, <1>3, <1>4 DEF Shapes
<1>9. OnlyWhoIsOnline'
  BY <1>1, <1>2, <1>4, <1>7 DEF IInv, OnlyWhoIsOnline
<1>10. InsideIsInvited'
  BY <1>1, <1>4 DEF IInv, InsideIsInvited, IsInvited
<1>11. SleepersAreAway'
  BY <1>1, <1>2 DEF IInv, SleepersAreAway
<1>12. InTheScene'
  <2>1. \A x \in Player : {inside'[x], editing'[x], bedside'[x]} \subseteq scene.houses \cup {None}
    BY <1>4 DEF IInv, InTheScene
  <2>2. \A h \in House : sale'[h] # None => h \in scene.houses
    BY <1>3 DEF IInv, InTheScene
  <2>3. tired' # {} => scene.houses # {}
    BY <1>1 DEF IInv, InTheScene
  <2>4. QED
    BY <1>1, <2>1, <2>2, <2>3 DEF InTheScene
<1>13. QED
  BY <1>2, <1>5, <1>6, <1>8, <1>9, <1>10, <1>11, <1>12 DEF IInv

\* Saving changes nothing that counts.
LEMMA SaveKeeps ==
  ASSUME IInv, SaveGameState, UNCHANGED hvars
  PROVE  IInv' /\ Fair /\ OfflineKeeps
<1>1. Inv
  BY DEF IInv
<1>2. /\ Inv' /\ online' = online
      /\ SameInOffers /\ \A q \in Player : Has(q)' = Has(q)
  BY <1>1, QuietKeeps
<1>3. house' = house
  BY DEF hvars
<1>4. QED
  BY <1>1, <1>2, <1>3, NothingMoves, HousesStay

\* Where there are no houses nobody is in one.
LEMMA CrashOfMarketKeeps ==
  ASSUME IInv, due = {}, Crash, MarketOnly
  PROVE  IInv' /\ Fair /\ OfflineKeeps
<1>1. /\ UNCHANGED <<scene, house, sale, inside, editing, bedside, tired, due, hasty>>
      /\ scene.houses = {} /\ Inv /\ Shapes
  BY DEF MarketOnly, hvars, IInv
<1>2. /\ Inv' /\ online' = {} /\ faults' # {}
      /\ \A q \in Player \ online : /\ Worth(q)'.money >= Worth(q).money
                                    /\ Worth(q)'.goods >= Worth(q).goods
  BY <1>1, CrashKeeps
<1>3. /\ \A p \in Player : inside[p] = None /\ editing[p] = None /\ bedside[p] = None
      /\ \A h \in House : sale[h] = None
      /\ tired = {}
  BY <1>1 DEF IInv, InTheScene
<1>4. Fair
  BY <1>2 DEF Fair
<1>5. OfflineKeeps
  <2> SUFFICES ASSUME NEW q \in Player \ online PROVE KeepsItsWorth(q)
    BY DEF OfflineKeeps
  <2>1. Worth(q).money \in Int /\ RentDue(q) = 0
    BY <1>1, InvIs, WorthType DEF RentDue
  <2>2. QED
    BY <1>2, <2>1 DEF KeepsItsWorth
<1>6. Shapes' /\ InTheScene'
  BY <1>1 DEF IInv, Shapes, InTheScene
<1>7. SalesAreApart' /\ BuyersHaveNone' /\ OneEach'
  BY <1>1, OnlyLess DEF IInv
<1>8. Trading' = {}
  BY <1>1, <1>3 DEF Trading, Sellers
<1>9. OnlyWhoIsOnline' /\ InsideIsInvited' /\ SleepersAreAway'
  BY <1>1, <1>2, <1>3, <1>8 DEF OnlyWhoIsOnline, InsideIsInvited, SleepersAreAway
<1>10. QED
  BY <1>2, <1>4, <1>5, <1>6, <1>7, <1>9 DEF IInv

\* Nobody gains, or only those who are online: what the steps of the market need.
LEMMA WorthSame ==
  ASSUME Inv, NEW q \in Player, Worth(q)' = Worth(q)
  PROVE  KeepsItsWorth(q)
<1>1. Worth(q).money \in Int /\ Worth(q).goods \in Int
  BY InvIs, WorthType
<1>2. RentDue(q) \in Nat
  BY HousesAssumption DEF HousesAssumption, RentDue
<1>3. QED
  BY <1>1, <1>2 DEF KeepsItsWorth

\* Who accepts an offer exchanges with its owner, who may be the same.
LEMMA SwappedIs ==
  ASSUME Inv, NEW p \in market, NEW o \in Rows, NEW n \in Amount, n <= Left(o),
         \/ offers[o].type = "SELL" /\ Swapped(p, offers[o].owner, offers[o].price * n, n)
         \/ offers[o].type = "BUY" /\ Swapped(p, offers[o].owner, -(offers[o].price * n), -n)
  PROVE  /\ NobodyGains \/ Exchanged
         /\ \A q \in Player \ {p} : KeepsItsWorth(q)
<1>1. PICK q \in Player, price \in Nat, type \in {"BUY", "SELL"} :
        q = offers[o].owner /\ price = offers[o].price /\ type = offers[o].type
  BY InvIs, OfferIs
<1>2. n \in Nat /\ price * n \in Nat /\ p \in Player
  <2>1. n \in Nat
    BY DEF MarketAssumption
  <2>2. p \in Player
    BY InvIs, OnlineIs DEF AccountsOK
  <2>3. QED
    BY <1>1, <2>1, <2>2, ProductType
<1>3. PICK give \in Int, m \in Int :
        /\ give = (IF type = "BUY" THEN -n ELSE n) /\ m = (IF type = "BUY" THEN -(price * n) ELSE price * n)
  BY <1>2
<1>4. Swapped(p, q, m, give)
  BY <1>1, <1>3
<1>5. m = give * price /\ -give * price = -m /\ -give \in Int /\ -m \in Int
  <2>1. CASE type = "SELL"
    BY <1>1, <1>2, <1>3, <2>1
  <2>2. CASE type = "BUY"
    BY <1>1, <1>2, <1>3, <2>2
  <2>3. QED
    BY <1>1, <2>1, <2>2
<1>6. \A x \in Player : Gets(Worth(x), 0, 0) = Worth(x)
  BY InvIs, WorthType
<1>7. CASE p = q
  <2>1. \A x \in Player : Worth(x)' = Worth(x)
    <3> SUFFICES ASSUME NEW x \in Player PROVE Worth(x)' = Worth(x)
      OBVIOUS
    <3>1. /\ (IF x = q THEN m ELSE 0) - (IF x = p THEN m ELSE 0) = 0
          /\ (IF x = p THEN give ELSE 0) - (IF x = q THEN give ELSE 0) = 0
      BY <1>7
    <3>2. QED
      BY <1>4, <1>6, <3>1 DEF Swapped
  <2>2. QED
    BY <2>1, WorthSame DEF NobodyGains
<1>8. CASE p # q
  <2>1. Worth(p)' = Gets(Worth(p), -m, give) /\ Worth(q)' = Gets(Worth(q), m, -give)
    <3>1. /\ 0 - m = -m /\ give - 0 = give /\ m - 0 = m /\ 0 - give = -give
      OBVIOUS
    <3>2. QED
      BY <1>2, <1>4, <1>8, <3>1 DEF Swapped
  <2>2. \A x \in Player \ {p, q} : Worth(x)' = Worth(x)
    <3>1. 0 - 0 = 0
      OBVIOUS
    <3>2. QED
      BY <1>4, <1>6, <3>1 DEF Swapped
  <2>3. Exchanged
    <3>1. \A x \in Player : Worth(x)' = CASE x = p -> Gets(Worth(x), -give * price, give)
                                          [] x = q -> Gets(Worth(x), -(-give * price), -give)
                                          [] OTHER -> Worth(x)
      <4>1. -(-give * price) = m /\ -give * price = -m
        BY <1>5
      <4>2. QED
        BY <1>8, <2>1, <2>2, <4>1
    <3>2. QED
      BY <1>1, <1>3, <1>8, <3>1 DEF Exchanged
  <2>4. ItsOffers(q)
    <3>1. o \in OwnOffers(q)
      BY <1>1 DEF OwnOffers
    <3>2. PICK k \in Int : k = (IF type = "BUY" THEN n ELSE -n)
      BY <1>2
    <3>3. k = -give /\ -k * price = m
      BY <1>1, <1>2, <1>3, <1>5, <3>2
    <3>4. QED
      BY <1>1, <2>1, <3>1, <3>2, <3>3 DEF ItsOffers
  <2>5. \A x \in Player \ {p} : KeepsItsWorth(x)
    BY <2>2, <2>4, WorthSame DEF KeepsItsWorth
  <2>6. QED
    BY <2>3, <2>5
<1>9. QED
  BY <1>7, <1>8

----------------------------------------------------------------------------
(* All steps together *)

\* One task of the market, where there are no houses.
LEMMA TradesKeep ==
  ASSUME IInv, Trades
  PROVE  /\ Inv' /\ online' = online
         /\ faults' = {} => NobodyGains \/ FeeIsTaken \/ Exchanged
         /\ \A q \in Player \ online : "save" \notin faults' => KeepsItsWorth(q)
<1> DEFINE Kept ==
      /\ Inv' /\ online' = online
      /\ faults' = {} => NobodyGains \/ FeeIsTaken \/ Exchanged
      /\ \A q \in Player \ online : "save" \notin faults' => KeepsItsWorth(q)
<1>1. Inv
  BY DEF IInv
<1>2. ASSUME Inv', online' = online, \A q \in Player : Worth(q)' = Worth(q)
      PROVE  Kept
  BY <1>1, <1>2, WorthSame DEF NobodyGains
<1>3. ASSUME \/ \E p \in Player : EnterMarket(p) \/ LeaveMarket(p)
             \/ CheckExpired
             \/ \E o \in Id : Age(o) \/ ExpireSkips(o)
      PROVE  Kept
  <2>1. /\ Inv' /\ online' = online
        /\ SameInOffers /\ \A q \in Player : Has(q)' = Has(q)
    BY <1>1, <1>3, QuietKeeps
  <2>2. \A q \in Player : Worth(q)' = Worth(q)
    BY <2>1, WorthStays
  <2>3. QED
    BY <1>2, <2>1, <2>2
<1>4. ASSUME NEW p \in Player, NEW type \in {"BUY", "SELL"}, NEW price \in Price, NEW amount \in Amount,
             CreateOffer(p, type, price, amount)
      PROVE  Kept
  <2>1. /\ Inv' /\ online' = online /\ p \in online
        /\ \A q \in Player \ {p} : Worth(q)' = Worth(q)
        /\ FeeIsTaken
    BY <1>1, <1>4, CreateKeeps
  <2>2. QED
    BY <1>1, <2>1, WorthSame
<1>5. ASSUME NEW p \in Player, NEW o \in Id, CancelOffer(p, o) PROVE Kept
  <2>1. Inv' /\ online' = online /\ \A q \in Player : Worth(q)' = Worth(q)
    BY <1>1, <1>5, CancelKeeps
  <2>2. QED
    BY <1>2, <2>1
<1>6. ASSUME NEW p \in Player, NEW o \in Id, NEW n \in Amount, AcceptSell(p, o, n) PROVE Kept
  <2>1. /\ Inv' /\ online' = online /\ p \in online /\ o \in Rows /\ n <= Left(o)
        /\ offers[o].type = "SELL" /\ Swapped(p, offers[o].owner, offers[o].price * n, n)
    BY <1>1, <1>6, AcceptSellKeeps
  <2>2. p \in market
    BY <1>6 DEF AcceptSell, AtMarket
  <2>3. (NobodyGains \/ Exchanged) /\ \A q \in Player \ {p} : KeepsItsWorth(q)
    BY <1>1, <2>1, <2>2, SwappedIs
  <2>4. QED
    BY <2>1, <2>3
<1>7. ASSUME NEW p \in Player, NEW o \in Id, NEW n \in Amount, AcceptBuy(p, o, n) PROVE Kept
  <2>1. /\ Inv' /\ online' = online /\ p \in online /\ o \in Rows /\ n <= Left(o)
        /\ offers[o].type = "BUY"
        /\ "save" \notin faults' => Swapped(p, offers[o].owner, -(offers[o].price * n), -n)
    BY <1>1, <1>7, AcceptBuyKeeps
  <2>2. p \in market
    BY <1>7 DEF AcceptBuy, AtMarket
  <2>3. "save" \notin faults' => /\ NobodyGains \/ Exchanged
                                 /\ \A q \in Player \ {p} : KeepsItsWorth(q)
    BY <1>1, <2>1, <2>2, SwappedIs
  <2>4. QED
    BY <2>1, <2>3
<1>8. ASSUME NEW p \in Player, NEW o \in Id, NEW n \in Amount, AcceptBuyLoadFails(p, o, n) PROVE Kept
  <2>1. /\ Inv' /\ online' = online /\ p \in online /\ faults' # {}
        /\ \A q \in Player \ online : Worth(q)' = Worth(q)
    BY <1>1, <1>8, LoadFailsKeeps
  <2>2. QED
    BY <1>1, <2>1, WorthSame
<1>9. ASSUME UpdateRow PROVE Kept
  <2>1. Inv' /\ online' = online /\ \A q \in Player : Worth(q)' = Worth(q)
    BY <1>1, <1>9, UpdateRowKeeps
  <2>2. QED
    BY <1>2, <2>1
<1>10. ASSUME NEW o \in Id, Expire(o) PROVE Kept
  <2>1. /\ Inv' /\ online' = online
        /\ "save" \notin faults' => \A q \in Player : Worth(q)' = Worth(q)
    BY <1>1, <1>10, ExpireKeeps
  <2>2. QED
    BY <1>1, <2>1, WorthSame DEF NobodyGains
<1> HIDE DEF Kept
<1>11. ASSUME NEW p \in Player, PlayerTrades(p) PROVE Kept
  BY <1>3, <1>4, <1>5, <1>6, <1>7, <1>8, <1>11 DEF PlayerTrades
<1>12. Kept
  BY <1>3, <1>9, <1>10, <1>11 DEF Trades
<1>13. QED
  BY <1>12 DEF Kept

\* So do the houses, of which there are none then.
LEMMA MarketTaskKeeps ==
  ASSUME IInv, due = {}, Trades, MarketOnly
  PROVE  IInv' /\ Fair /\ OfflineKeeps
<1>1. /\ Inv' /\ online' = online
      /\ faults' = {} => NobodyGains \/ FeeIsTaken \/ Exchanged
      /\ \A q \in Player \ online : "save" \notin faults' => KeepsItsWorth(q)
  BY TradesKeep
<1>2. UNCHANGED hvars /\ house' = house
  BY DEF MarketOnly, hvars
<1>3. Fair
  BY <1>1, <1>2 DEF Fair, GoodsStay
<1>4. OfflineKeeps
  BY <1>1 DEF OfflineKeeps
<1>5. IInv'
  BY <1>1, <1>2, HousesStay
<1>6. QED
  BY <1>3, <1>4, <1>5

\* Every step keeps the invariant and is as fair as FairDealing and OfflineKeepsItsWorth ask.
LEMMA StepKeeps ==
  ASSUME IInv, HousesNext
  PROVE  IInv' /\ Fair /\ OfflineKeeps
<1> DEFINE Kept == IInv' /\ Fair /\ OfflineKeeps
<1>1. CASE \E h \in due : PayHouse(h)
  BY <1>1, PayHouseKeeps
<1>2. CASE due = {} /\ \/ Trades /\ MarketOnly
                       \/ Crash /\ MarketOnly
                       \/ SaveGameState /\ UNCHANGED hvars
                       \/ PayHouses \/ CloseServer
  BY <1>2, MarketTaskKeeps, CrashOfMarketKeeps, SaveKeeps, PayHousesKeeps, CloseServerKeeps
<1>3. ASSUME due = {}, NEW p \in Player, HouseLogin(p) \/ HouseLogout(p) \/ LeaveHouse(p)
      PROVE  Kept
  BY <1>3, HouseLoginKeeps, HouseLogoutKeeps, LeaveHouseKeeps
<1>4. ASSUME due = {}, NEW p \in Player, HouseGuestList(p) \/ UseBed(p) \/ Sleep(p)
      PROVE  Kept
  BY <1>4, HouseGuestListKeeps, UseBedKeeps, SleepKeeps
<1>5. ASSUME due = {}, NEW p \in Player, NEW n \in {-1, 1}, Store(p, n)
      PROVE  Kept
  BY <1>5, StoreKeeps
<1>6. ASSUME due = {}, NEW p \in Player, NEW S \in SUBSET Player, UpdateHouseWindow(p, S)
      PROVE  Kept
  BY <1>6, UpdateHouseWindowKeeps
<1>7. ASSUME due = {}, NEW p \in Player, NEW q \in Player, SellHouse(p, q) \/ SendItem(p, q)
      PROVE  Kept
  BY <1>7, SellHouseKeeps, SendItemKeeps
<1>8. ASSUME due = {}, NEW p \in Player, NEW h \in House, BuyHouse(p, h) \/ EnterHouse(p, h)
      PROVE  Kept
  BY <1>8, BuyHouseKeeps, EnterHouseKeeps
<1>9. ASSUME due = {}, NEW h \in House, SaleCancelled(h) \/ ExecuteTransfer(h)
      PROVE  Kept
  BY <1>9, SaleCancelledKeeps, ExecuteTransferKeeps
<1>10. ASSUME due = {}, NEW h \in House, NEW p \in Player \cup {None}, GiveHouse(h, p)
       PROVE  Kept
  BY <1>10, GiveHouseKeeps
<1> HIDE DEF Kept
<1>11. ASSUME due = {}, NEW p \in Player,
              \/ HouseLogin(p) \/ HouseLogout(p)
              \/ LeaveHouse(p) \/ HouseGuestList(p) \/ UseBed(p) \/ Sleep(p)
              \/ \E n \in {-1, 1} : Store(p, n)
              \/ \E S \in SUBSET Player : UpdateHouseWindow(p, S)
              \/ \E q \in Player : SellHouse(p, q) \/ SendItem(p, q)
              \/ \E h \in House : BuyHouse(p, h) \/ EnterHouse(p, h)
       PROVE  Kept
  BY <1>3, <1>4, <1>5, <1>6, <1>7, <1>8, <1>11
<1>12. ASSUME due = {}, NEW h \in House,
              \/ SaleCancelled(h) \/ ExecuteTransfer(h)
              \/ \E p \in Player \cup {None} : GiveHouse(h, p)
       PROVE  Kept
  BY <1>9, <1>10, <1>12
<1>13. CASE due = {} /\ HouseTasks
  BY <1>2, <1>11, <1>12, <1>13 DEF HouseTasks, Kept
<1>14. QED
  BY <1>1, <1>13 DEF HousesNext, Kept

\* So does a step in which nothing happens.
LEMMA StutterKeeps ==
  ASSUME IInv, UNCHANGED allvars
  PROVE  IInv' /\ Fair /\ OfflineKeeps
<1>1. UNCHANGED vars /\ UNCHANGED hvars /\ house' = house /\ Inv
  BY DEF allvars, hvars, IInv
<1>2. /\ Inv' /\ online' = online /\ SameInOffers
      /\ \A p \in Player : Has(p)' = Has(p)
  BY <1>1, MarketStays
<1>3. QED
  BY <1>1, <1>2, NothingMoves, HousesStay

\* It holds at first, where nobody owns, sells or has anything.
LEMMA InitHolds == HousesInit => IInv
<1> SUFFICES ASSUME HousesInit PROVE IInv
  OBVIOUS
<1>1. /\ mem = [p \in Player |-> None] /\ db = [p \in Player |-> [money |-> Money, goods |-> Goods]]
      /\ market = {} /\ offers = [o \in Id |-> None] /\ aged = {} /\ row = None /\ sweep = {}
      /\ faults = {}
  BY DEF HousesInit, Init
<1>2. /\ scene \in Scenes /\ house = [h \in House |-> Empty] /\ sale = [h \in House |-> None]
      /\ inside = Nowhere /\ editing = Nowhere /\ bedside = Nowhere
      /\ tired = {} /\ due = {} /\ hasty = {}
  BY DEF HousesInit
<1>3. [money |-> Money, goods |-> Goods] \in Account
  BY DEF Account, MarketAssumption
<1>4. AccountsOK
  BY <1>1, <1>3 DEF AccountsOK, Players, Saved
<1>5. Rows = {}
  BY <1>1 DEF Rows
<1>6. OffersOK
  BY <1>1, <1>5 DEF OffersOK, OffersAreCovered
<1>7. Inv
  BY <1>1, <1>4, <1>6, InvIs
<1>8. Empty \in HouseStates /\ Nowhere \in Places /\ \A p \in Player : Nowhere[p] = None
  BY HousesAssumption DEF HousesAssumption, HouseStates, Empty, Places, Nowhere
<1>9. Shapes
  BY <1>2, <1>8 DEF Shapes, SaleStates
<1>10. Trading = {} /\ Pending = {}
  BY <1>2 DEF Trading, Sellers, Pending
<1>11. \A p \in Player : HousesOf(p) = {}
  <2>1. \A h \in House : house[h].owner = None
    BY <1>2 DEF Empty
  <2>2. QED
    BY <1>9, <2>1, SceneIs DEF HousesOf, MarketAssumption
<1>12. OnlyWhoIsOnline /\ InsideIsInvited
  BY <1>2, <1>8, <1>10 DEF OnlyWhoIsOnline, InsideIsInvited
<1>13. SleepersAreAway
  BY <1>1 DEF SleepersAreAway, online
<1>14. InTheScene
  BY <1>2, <1>8 DEF InTheScene
<1>15. SalesAreApart /\ BuyersHaveNone /\ OneEach
  BY <1>10, <1>11 DEF SalesAreApart, BuyersHaveNone, OneEach
<1>16. QED
  BY <1>7, <1>9, <1>12, <1>13, <1>14, <1>15 DEF IInv

\* A set without two different elements has at most one.
LEMMA OneOrNone ==
  ASSUME NEW S, \A x, y \in S : x = y
  PROVE  Cardinality(S) <= 1
<1>1. CASE S = {}
  <2>1. Cardinality({}) = 0
    BY FS_EmptySet
  <2>2. QED
    BY <1>1, <2>1
<1>2. CASE S # {}
  <2>1. PICK x : S = {x}
    BY <1>2
  <2>2. Cardinality({x}) = 1
    BY FS_Singleton
  <2>3. QED
    BY <2>1, <2>2
<1>3. QED
  BY <1>1, <1>2

\* The invariant is strong enough.
LEMMA InvHolds == IInv => HousesInv
<1> SUFFICES ASSUME IInv PROVE HousesInv
  OBVIOUS
<1>1. OneHouseEach
  BY OneOrNone DEF IInv, OneEach, OneHouseEach
<1>2. QED
  BY <1>1, ShapesAre DEF IInv, HousesInv

\* It holds always.
LEMMA InvAlways == HousesSpec => []IInv
<1>1. IInv /\ [HousesNext]_allvars => IInv'
  BY StepKeeps, StutterKeeps
<1>2. QED
  BY <1>1, InitHolds, PTL DEF HousesSpec

\* For any number of players, offers and houses, whatever fails to load or to save: what the
\* market keeps is covered, whoever is inside a house is invited or on its way out, nobody
\* sleeps and plays, and who did not buy while a house was offered to it owns one at most
\* (house.cpp:63, house.cpp:191, beds.cpp:155, game.cpp:5588).
THEOREM HousesIsSafe == HousesSpec => []HousesInv
BY InvAlways, InvHolds, PTL

\* As long as nothing fails, money and goods only change hands at the price of an offer, by
\* mail, for rent or through a house, whoever is online when (game.cpp:5588-6114,
\* house.cpp:63, house.cpp:840, mailbox.cpp:103).
THEOREM HousesIsFair == HousesSpec => FairDealing
<1>1. IInv /\ [HousesNext]_allvars => [Fair]_allvars
  BY StepKeeps
<1>2. HousesSpec => [][Fair]_allvars
  BY <1>1, InvAlways, PTL DEF HousesSpec
<1>3. FairDealing <=> [][Fair]_allvars
  BY DEF FairDealing, Fair
<1>4. QED
  BY <1>2, <1>3

\* A player that is offline loses nothing but by its own offers and its rent, whenever the
\* server crashes and whomever it cannot load.
THEOREM HousesKeepsWorth == HousesSpec => OfflineKeepsItsWorth
<1>1. IInv /\ [HousesNext]_allvars => [OfflineKeeps]_allvars
  BY StepKeeps
<1>2. HousesSpec => [][OfflineKeeps]_allvars
  BY <1>1, InvAlways, PTL DEF HousesSpec
<1>3. OfflineKeepsItsWorth <=> [][OfflineKeeps]_allvars
  BY DEF OfflineKeepsItsWorth, OfflineKeeps, KeepsItsWorth
<1>4. QED
  BY <1>2, <1>3

=============================================================================
