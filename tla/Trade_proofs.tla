----------------------------- MODULE Trade_proofs -----------------------------
(****************************************************************************)
(* Trades between any number of players, over any number of items, in       *)
(* containers in each other to any depth: who trades with whom, what is on  *)
(* offer, and that what is on offer stays as it is until it changes hands.  *)
(****************************************************************************)
EXTENDS Trade, FiniteSetTheorems, WellFoundedInduction, TLAPS

----------------------------------------------------------------------------
(* Containers in containers, for any function f from items to places *)

Closed(f, i, S) ==
  \A d \in Container : (\E j \in {i} \cup S : f[j] = <<"in", d>>) => d \in S

HoldersIn(f, i) == {c \in Container : \A S \in SUBSET Container : Closed(f, i, S) => c \in S}

Acyclic(f) == \A c \in Container : c \notin HoldersIn(f, c)

\* c is where the containers that hold i end.
Outermost(f, i, c) == c \in HoldersIn(f, i) /\ f[c][1] # "in"

RootIn(f, i) ==
  IF f[i][1] # "in" THEN f[i] ELSE f[CHOOSE c \in HoldersIn(f, i) : f[c][1] # "in"]

LEMMA HoldersAre ==
  ASSUME NEW i
  PROVE  /\ Holders(i) = HoldersIn(place, i) /\ Holders(i)' = HoldersIn(place', i)
         /\ Root(i) = RootIn(place, i) /\ Root(i)' = RootIn(place', i)
<1>1. Holders(i) = HoldersIn(place, i) /\ Holders(i)' = HoldersIn(place', i)
  BY DEF Holders, HoldersIn, Closed
<1>2. QED
  BY <1>1 DEF Root, RootIn

LEMMA PlaceIn ==
  ASSUME NEW f \in [Item -> Places], NEW i \in Item
  PROVE  /\ f[i][1] = "in" <=> \E c \in Container : f[i] = <<"in", c>>
         /\ \A c \in Container : f[i] = <<"in", c>> => f[i][1] = "in" /\ f[i][2] = c
BY DEF Places, Ground, Gone

\* Whatever is closed under "is in" holds the holders.
LEMMA HoldersInduct ==
  ASSUME NEW f, NEW i, NEW S, S \subseteq Container, Closed(f, i, S)
  PROVE  HoldersIn(f, i) \subseteq S
BY DEF HoldersIn

LEMMA HoldersClosed ==
  ASSUME NEW f, NEW i
  PROVE  Closed(f, i, HoldersIn(f, i)) /\ HoldersIn(f, i) \subseteq Container
<1>1. ASSUME NEW d \in Container, NEW j \in {i} \cup HoldersIn(f, i), f[j] = <<"in", d>>
      PROVE  d \in HoldersIn(f, i)
  <2> SUFFICES ASSUME NEW S \in SUBSET Container, Closed(f, i, S) PROVE d \in S
    BY DEF HoldersIn
  <2>1. j \in {i} \cup S
    BY DEF HoldersIn
  <2>2. QED
    BY <1>1, <2>1 DEF Closed
<1>2. QED
  BY <1>1 DEF Closed, HoldersIn

\* What holds a holder holds.
LEMMA HoldersTransitive ==
  ASSUME NEW f, NEW i, NEW c \in HoldersIn(f, i)
  PROVE  HoldersIn(f, c) \subseteq HoldersIn(f, i)
<1>1. Closed(f, c, HoldersIn(f, i))
  BY HoldersClosed DEF Closed
<1>2. QED
  BY <1>1, HoldersClosed, HoldersInduct

\* A thing in c is held by c and by what holds c.
LEMMA HoldersOf ==
  ASSUME NEW f \in [Item -> Places], NEW i \in Item
  PROVE  /\ f[i][1] # "in" => HoldersIn(f, i) = {}
         /\ \A c \in Container : f[i] = <<"in", c>> => HoldersIn(f, i) = {c} \cup HoldersIn(f, c)
<1>1. ASSUME f[i][1] # "in" PROVE HoldersIn(f, i) = {}
  <2>1. Closed(f, i, {})
    BY <1>1, PlaceIn DEF Closed
  <2>2. QED
    BY <2>1, HoldersInduct
<1>2. ASSUME NEW c \in Container, f[i] = <<"in", c>>
      PROVE  HoldersIn(f, i) = {c} \cup HoldersIn(f, c)
  <2>1. c \in HoldersIn(f, i)
    BY <1>2, HoldersClosed DEF Closed
  <2>2. HoldersIn(f, c) \subseteq HoldersIn(f, i)
    BY <2>1, HoldersTransitive
  <2>3. Closed(f, i, {c} \cup HoldersIn(f, c))
    <3> SUFFICES ASSUME NEW d \in Container, NEW j \in {i, c} \cup HoldersIn(f, c),
                        f[j] = <<"in", d>>
                 PROVE  d \in {c} \cup HoldersIn(f, c)
      BY DEF Closed
    <3>1. CASE j = i
      BY <1>2, <3>1
    <3>2. CASE j \in {c} \cup HoldersIn(f, c)
      BY <3>2, HoldersClosed DEF Closed
    <3>3. QED
      BY <3>1, <3>2
  <2>4. HoldersIn(f, i) \subseteq {c} \cup HoldersIn(f, c)
    BY <2>3, HoldersClosed, HoldersInduct
  <2>5. QED
    BY <2>1, <2>2, <2>4
<1>3. QED
  BY <1>1, <1>2

LEMMA ContainersAreItems == Container \subseteq Item
BY TradeAssumption

\* A set of natural numbers that is not empty has a least element.
LEMMA LeastNumber ==
  ASSUME NEW S, S \subseteq Nat, S # {}
  PROVE  \E n \in S : \A m \in S : n <= m
<1> DEFINE Less == OpToRel(<, Nat)
<1>1. IsWellFoundedOn(Less, Nat)
  BY NatLessThanWellFounded
<1>2. \A n, m \in Nat : m < n => <<m, n>> \in Less
  BY DEF OpToRel
<1> HIDE DEF Less
<1>3. PICK n \in S : \A m \in S : ~(<<m, n>> \in Less)
  BY <1>1, WFMin
<1>4. \A m \in S : ~(m < n)
  BY <1>2, <1>3, Zenon
<1>5. n \in Nat /\ \A m \in S : m \in Nat
  OBVIOUS
<1>6. \A m \in S : n <= m
  BY <1>4, <1>5
<1>7. QED
  BY <1>6

\* What is in a container is in an outermost one, if no container is in itself.
LEMMA OutermostExists ==
  ASSUME NEW f \in [Item -> Places], Acyclic(f), NEW i \in Item, f[i][1] = "in"
  PROVE  \E c \in Container : Outermost(f, i, c)
<1> DEFINE H == HoldersIn(f, i)
           size(c) == Cardinality(HoldersIn(f, c))
           sizes == {size(c) : c \in H}
<1>1. H # {} /\ H \subseteq Container /\ Closed(f, i, H)
  <2>1. PICK c \in Container : f[i] = <<"in", c>>
    BY PlaceIn
  <2>2. QED
    BY <2>1, HoldersOf, HoldersClosed
<1>2. \A c \in Container : IsFiniteSet(HoldersIn(f, c)) /\ size(c) \in Nat
  BY FS_Subset, FS_CardinalityType, HoldersClosed, TradeAssumption
<1>3. PICK n \in sizes : \A m \in sizes : n <= m
  <2>1. sizes \subseteq Nat /\ sizes # {}
    BY <1>1, <1>2
  <2> HIDE DEF sizes
  <2>2. QED
    BY <2>1, LeastNumber
<1>4. PICK c \in H : n = size(c)
  OBVIOUS
<1>5. SUFFICES ASSUME f[c][1] = "in" PROVE FALSE
  BY <1>1 DEF Outermost
<1>6. c \in Container /\ c \in Item
  BY <1>1, ContainersAreItems
<1>7. PICK d \in Container : f[c] = <<"in", d>>
  BY <1>5, <1>6, PlaceIn
<1>8. HoldersIn(f, c) = {d} \cup HoldersIn(f, d) /\ d \notin HoldersIn(f, d)
  BY <1>6, <1>7, HoldersOf DEF Acyclic
<1>9. size(c) = size(d) + 1
  <2>1. IsFiniteSet(HoldersIn(f, d))
    BY <1>2
  <2>2. Cardinality(HoldersIn(f, d) \cup {d}) = Cardinality(HoldersIn(f, d)) + 1
    BY <1>8, <2>1, FS_AddElement
  <2>3. QED
    BY <1>8, <2>2
<1>10. d \in H
  BY <1>1, <1>7 DEF Closed
<1>11. n <= size(d)
  BY <1>3, <1>10
<1>12. QED
  BY <1>2, <1>4, <1>9, <1>11

LEMMA OutermostIsUnique ==
  ASSUME NEW f \in [Item -> Places], NEW i \in Item,
         NEW c, Outermost(f, i, c), NEW d, Outermost(f, i, d)
  PROVE  c = d
<1> DEFINE S == {e \in HoldersIn(f, i) : c \in {e} \cup HoldersIn(f, e)}
<1>1. c \in HoldersIn(f, i) /\ f[c][1] # "in" /\ d \in HoldersIn(f, i) /\ f[d][1] # "in"
  BY DEF Outermost
<1>2. HoldersIn(f, i) \subseteq Container /\ Closed(f, i, HoldersIn(f, i))
  BY HoldersClosed
<1>3. Closed(f, i, S)
  <2> SUFFICES ASSUME NEW e \in Container, NEW j \in {i} \cup S, f[j] = <<"in", e>>
               PROVE  e \in S
    BY DEF Closed
  <2>1. j \in Item /\ c \in {j} \cup HoldersIn(f, j)
    BY <1>1, <1>2, ContainersAreItems
  <2>2. f[j][1] = "in" /\ HoldersIn(f, j) = {e} \cup HoldersIn(f, e)
    BY <2>1, PlaceIn, HoldersOf
  <2>3. c \in {e} \cup HoldersIn(f, e)
    BY <1>1, <2>1, <2>2
  <2>4. e \in HoldersIn(f, i)
    BY <1>2 DEF Closed
  <2>5. QED
    BY <2>3, <2>4
<1>4. HoldersIn(f, i) \subseteq S
  BY <1>2, <1>3, HoldersInduct
<1>5. c \in {d} \cup HoldersIn(f, d)
  BY <1>1, <1>4
<1>6. HoldersIn(f, d) = {}
  BY <1>1, <1>2, HoldersOf, ContainersAreItems
<1>7. QED
  BY <1>5, <1>6

\* Where an item is, is where the outermost of its containers is.
LEMMA RootIs ==
  ASSUME NEW f \in [Item -> Places], Acyclic(f), NEW i \in Item
  PROVE  /\ f[i][1] # "in" => RootIn(f, i) = f[i]
         /\ \A c : Outermost(f, i, c) => RootIn(f, i) = f[c]
         /\ RootIn(f, i) \in Places /\ RootIn(f, i)[1] # "in"
<1>1. ASSUME NEW c, Outermost(f, i, c) PROVE f[i][1] = "in" /\ RootIn(f, i) = f[c]
  <2>1. f[i][1] = "in"
    BY <1>1, HoldersOf DEF Outermost
  <2> DEFINE r == CHOOSE d \in HoldersIn(f, i) : f[d][1] # "in"
  <2>2. Outermost(f, i, r)
    BY <1>1 DEF Outermost
  <2>3. RootIn(f, i) = f[r]
    BY <2>1 DEF RootIn
  <2> HIDE DEF r
  <2>4. r = c
    BY <1>1, <2>2, OutermostIsUnique
  <2>5. QED
    BY <2>1, <2>3, <2>4
<1>2. CASE f[i][1] # "in"
  BY <1>1, <1>2 DEF RootIn
<1>3. CASE f[i][1] = "in"
  <2>1. PICK c \in Container : Outermost(f, i, c)
    BY <1>3, OutermostExists
  <2>2. f[c] \in Places /\ f[c][1] # "in"
    BY <2>1, ContainersAreItems DEF Outermost
  <2>3. QED
    BY <1>1, <1>3, <2>1, <2>2
<1>4. QED
  BY <1>2, <1>3

\* An item and its holders are at the same root.
LEMMA RootOfHolder ==
  ASSUME NEW f \in [Item -> Places], Acyclic(f), NEW i \in Item, NEW c \in HoldersIn(f, i)
  PROVE  RootIn(f, i) = RootIn(f, c)
<1>1. c \in Container /\ c \in Item
  BY HoldersClosed, ContainersAreItems
<1>2. CASE f[c][1] # "in"
  BY <1>1, <1>2, RootIs DEF Outermost
<1>3. CASE f[c][1] = "in"
  <2>1. PICK d \in Container : Outermost(f, c, d)
    BY <1>1, <1>3, OutermostExists
  <2>2. Outermost(f, i, d)
    BY <2>1, HoldersTransitive DEF Outermost
  <2>3. QED
    BY <1>1, <2>1, <2>2, RootIs
<1>4. QED
  BY <1>2, <1>3

----------------------------------------------------------------------------
(* One item is moved *)

LEMMA HoldersUntouched ==
  ASSUME NEW f, NEW g, NEW x, NEW i \in Item,
         \A j \in Item \ {x} : g[j] = f[j], i # x, x \notin HoldersIn(f, i)
  PROVE  HoldersIn(g, i) = HoldersIn(f, i)
<1>1. HoldersIn(f, i) \subseteq Item /\ HoldersIn(g, i) \subseteq Item
  BY HoldersClosed, ContainersAreItems
<1>2. Closed(g, i, HoldersIn(f, i))
  BY <1>1, HoldersClosed DEF Closed
<1>3. HoldersIn(g, i) \subseteq HoldersIn(f, i)
  BY <1>2, HoldersClosed, HoldersInduct
<1>4. Closed(f, i, HoldersIn(g, i))
  BY <1>1, <1>3, HoldersClosed DEF Closed
<1>5. HoldersIn(f, i) \subseteq HoldersIn(g, i)
  BY <1>4, HoldersClosed, HoldersInduct
<1>6. QED
  BY <1>3, <1>5

\* x is put where it would not hold itself.
Moved(f, g, x) ==
  /\ \A j \in Item \ {x} : g[j] = f[j]
  /\ \A d \in Container : g[x] = <<"in", d>> => d # x /\ x \notin HoldersIn(f, d)

LEMMA MoveKeepsAcyclic ==
  ASSUME NEW f \in [Item -> Places], NEW g \in [Item -> Places], NEW x \in Item,
         Acyclic(f), Moved(f, g, x)
  PROVE  /\ Acyclic(g)
         /\ \A d \in Container : g[x] = <<"in", d>> => HoldersIn(g, x) = {d} \cup HoldersIn(f, d)
<1> DEFINE D == {c \in Container :
                   \E d \in Container : g[x] = <<"in", d>> /\ c \in {d} \cup HoldersIn(f, d)}
<1>1. ASSUME NEW d \in Container, g[x] = <<"in", d>>
      PROVE  HoldersIn(g, x) = {d} \cup HoldersIn(f, d) /\ D = {d} \cup HoldersIn(f, d)
  <2>1. HoldersIn(g, x) = {d} \cup HoldersIn(g, d)
    BY <1>1, HoldersOf
  <2>2. HoldersIn(g, d) = HoldersIn(f, d)
    BY <1>1, HoldersUntouched, ContainersAreItems DEF Moved
  <2>3. \A e \in Container : g[x] = <<"in", e>> => e = d
    BY <1>1
  <2>4. D = {d} \cup HoldersIn(f, d)
    BY <1>1, <2>3, HoldersClosed
  <2>5. QED
    BY <2>1, <2>2, <2>4
<1>2. HoldersIn(g, x) = D
  <2>1. CASE g[x][1] # "in"
    <3>1. HoldersIn(g, x) = {} /\ D = {}
      BY <2>1, HoldersOf, PlaceIn
    <3>2. QED
      BY <3>1
  <2>2. CASE g[x][1] = "in"
    BY <1>1, <2>2, PlaceIn
  <2>3. QED
    BY <2>1, <2>2
<1>3. x \notin D
  BY DEF Moved
<1>4. ASSUME NEW c \in Container PROVE c \notin HoldersIn(g, c)
  <2>1. CASE c = x
    BY <1>2, <1>3, <2>1
  <2>2. CASE c # x /\ x \notin HoldersIn(f, c)
    <3>1. HoldersIn(g, c) = HoldersIn(f, c)
      BY <2>2, HoldersUntouched, ContainersAreItems DEF Moved
    <3>2. QED
      BY <3>1 DEF Acyclic
  <2>3. CASE c # x /\ x \in HoldersIn(f, c)
    <3> DEFINE S == {e \in HoldersIn(f, c) : x \in {e} \cup HoldersIn(f, e)} \cup D
    <3>1. Closed(g, c, S)
      <4> SUFFICES ASSUME NEW d \in Container, NEW j \in {c} \cup S, g[j] = <<"in", d>>
                   PROVE  d \in S
        BY DEF Closed
      <4>1. CASE j = x
        BY <1>1, <4>1
      <4>2. CASE j # x /\ j \in {c} \cup HoldersIn(f, c) /\ x \in HoldersIn(f, j)
        <5>1. j \in Item
          BY <4>2, HoldersClosed, ContainersAreItems
        <5>2. f[j] = <<"in", d>>
          BY <4>2, <5>1 DEF Moved
        <5>3. x \in {d} \cup HoldersIn(f, d)
          BY <4>2, <5>1, <5>2, HoldersOf
        <5>4. d \in HoldersIn(f, c)
          BY <4>2, <5>2, HoldersClosed DEF Closed
        <5>5. QED
          BY <5>3, <5>4
      <4>3. CASE j # x /\ j \in D
        <5>1. PICK e \in Container : g[x] = <<"in", e>> /\ j \in {e} \cup HoldersIn(f, e)
          BY <4>3
        <5>2. f[j] = <<"in", d>>
          BY <4>3, ContainersAreItems DEF Moved
        <5>3. d \in HoldersIn(f, e)
          BY <5>1, <5>2, HoldersClosed DEF Closed
        <5>4. QED
          BY <5>1, <5>3
      <4>4. QED
        BY <2>3, <4>1, <4>2, <4>3
    <3>2. HoldersIn(g, c) \subseteq S
      <4>1. S \subseteq Container
        BY HoldersClosed
      <4> HIDE DEF S
      <4>2. QED
        BY <3>1, <4>1, HoldersInduct
    <3>3. c \notin HoldersIn(f, c)
      BY DEF Acyclic
    <3>4. c \notin D
      <4> SUFFICES ASSUME NEW d \in Container, g[x] = <<"in", d>>, c \in {d} \cup HoldersIn(f, d)
                   PROVE  FALSE
        OBVIOUS
      <4>1. x \in HoldersIn(f, d)
        BY <2>3, HoldersTransitive
      <4>2. QED
        BY <4>1 DEF Moved
    <3>5. QED
      BY <3>2, <3>3, <3>4
  <2>4. QED
    BY <2>1, <2>2, <2>3
<1>5. QED
  BY <1>1, <1>4 DEF Acyclic

LEMMA RootUntouched ==
  ASSUME NEW f \in [Item -> Places], NEW g \in [Item -> Places], NEW x \in Item, NEW i \in Item,
         Acyclic(f), Acyclic(g),
         \A j \in Item \ {x} : g[j] = f[j], i # x, x \notin HoldersIn(f, i)
  PROVE  RootIn(g, i) = RootIn(f, i)
<1>1. HoldersIn(g, i) = HoldersIn(f, i) /\ g[i] = f[i]
  BY HoldersUntouched
<1>2. CASE f[i][1] # "in"
  BY <1>1, <1>2, RootIs
<1>3. CASE f[i][1] = "in"
  <2>1. PICK c \in Container : Outermost(f, i, c)
    BY <1>3, OutermostExists
  <2>2. c # x /\ c \in Item
    BY <2>1, ContainersAreItems DEF Outermost
  <2>3. Outermost(g, i, c) /\ g[c] = f[c]
    BY <1>1, <2>1, <2>2 DEF Outermost
  <2>4. QED
    BY <2>1, <2>3, RootIs
<1>4. QED
  BY <1>2, <1>3

----------------------------------------------------------------------------
(* The inductive invariant *)

\* Who has not offered anything has nothing on offer.
StateTellsOffer ==
  \A p \in Player : trade[p].state \in {"NONE", "ACKNOWLEDGE"} => trade[p].item = None

IInv ==
  /\ Inv
  /\ StateTellsOffer
  /\ Acyclic(place)

TradeRecords ==
  [state : {"NONE", "ACKNOWLEDGE", "INITIATED", "ACCEPT"},
   partner : Player \cup {None}, item : Item \cup {None}]

LEMMA Types ==
  ASSUME TypeOK
  PROVE  /\ place \in [Item -> Places] /\ tradeItems \in [Item -> Player \cup {None}]
         /\ trade \in [Player -> TradeRecords]
         /\ \A p \in Player : /\ trade[p] \in TradeRecords
                              /\ trade[p].partner \in Player \cup {None}
                              /\ trade[p].item \in Item \cup {None}
                              /\ trade[p].item = Offer(p)
BY DEF TypeOK, TradeRecords, Offer

\* An offer that no removal of x calls off is not x, holds x neither and is not in x.
LEMMA Undisturbed ==
  ASSUME IInv, NEW x \in Item, RootIn(place, x) # Gone,
         NEW r \in Player, Offer(r) # None, ~RemovalCloses(r, x)
  PROVE  /\ Offer(r) # x
         /\ Offer(r) \notin HoldersIn(place, x)
         /\ x \notin HoldersIn(place, Offer(r))
<1> DEFINE o == Offer(r)
<1>1. /\ place \in [Item -> Places] /\ o \in Item /\ Acyclic(place)
  BY Types DEF IInv, Inv
<1> HIDE DEF o
<1>2. o # x /\ o \notin HoldersIn(place, x)
  BY HoldersAre DEF RemovalCloses, ChecksTrade, o
<1>3. ASSUME x \in HoldersIn(place, o) PROVE FALSE
  <2>1. HoldersIn(place, x) \subseteq HoldersIn(place, o)
    BY <1>3, HoldersTransitive
  <2>2. x \in Container /\ x \notin HoldersIn(place, x)
    BY <1>1, <1>3, HoldersClosed DEF Acyclic
  <2>3. CASE place[x][1] \in {"ground", "slot"}
    BY <1>3, <2>3, HoldersAre DEF RemovalCloses, o
  <2>4. CASE place[x][1] = "in"
    <3>1. PICK c \in Container : place[x] = <<"in", c>>
      BY <1>1, <2>4, PlaceIn
    <3>2. HoldersIn(place, x) = {c} \cup HoldersIn(place, c)
      BY <1>1, <3>1, HoldersOf
    <3>3. place[o] = place[x]
      BY <2>1, <2>4, <3>1, <3>2, HoldersAre DEF RemovalCloses, o
    <3>4. HoldersIn(place, o) = {c} \cup HoldersIn(place, c)
      BY <1>1, <3>1, <3>3, HoldersOf
    <3>5. QED
      BY <1>3, <2>2, <3>2, <3>4
  <2>5. CASE place[x][1] = "pack"
    <3>1. RootIn(place, o) = RootIn(place, x) /\ RootIn(place, x) = place[x]
      BY <1>1, <1>3, <2>5, RootOfHolder, RootIs
    <3>2. PICK p \in Player : place[x] = <<"pack", p>>
      BY <1>1, <2>5 DEF Places, Ground, Gone
    <3>3. place[x][2] = p
      BY <3>2
    <3>4. OwnedBy(o, place[x][2]) /\ Root(o)[1] = "pack"
      BY <3>1, <3>2, <3>3, HoldersAre DEF OwnedBy
    <3>5. place[o] = place[x]
      BY <2>5, <3>4 DEF RemovalCloses, o
    <3>6. HoldersIn(place, o) = {}
      BY <1>1, <2>5, <3>5, HoldersOf
    <3>7. QED
      BY <1>3, <3>6
  <2>6. CASE place[x][1] = "gone"
    <3>1. RootIn(place, x) = place[x]
      BY <1>1, <2>6, RootIs
    <3>2. place[x] = Gone
      BY <1>1, <2>6 DEF Places, Ground, Gone
    <3>3. QED
      BY <3>1, <3>2
  <2>7. place[x][1] \in {"ground", "gone", "in", "slot", "pack"}
    BY <1>1 DEF Places, Ground, Gone
  <2>8. QED
    BY <2>3, <2>4, <2>5, <2>6, <2>7
<1>4. QED
  BY <1>2, <1>3 DEF o

----------------------------------------------------------------------------
(* Trades end *)

\* Who trades with whom and what is on offer, apart from where it is.
TradesAgree ==
  TypeOK /\ PartnersAreMutual /\ MapHoldsTheOffers /\ StateTellsOffer

\* The texts, and what is being written on.
WritingTyped ==
  text \in [Item -> {0, 1}] /\ writeItem \in [Player -> Item \cup {None}]

LEMMA WritingKept == TypeOK /\ UNCHANGED writing => WritingTyped'
BY DEF TypeOK, WritingTyped, writing

\* Who goes on trading has not been called off, nor has its partner.
LEMMA Survivors ==
  ASSUME TypeOK, NEW S \in SUBSET Player, CloseTrades(S), NEW p \in Player
  PROVE  /\ trade'[p] = NoTrade \/ trade'[p] = trade[p]
         /\ p \in S \/ trade[p].partner \in S => trade'[p] = NoTrade
         /\ trade'[p].partner # None \/ trade'[p].item # None =>
              trade'[p] = trade[p] /\ p \notin S /\ trade[p].partner \notin S
BY DEF CloseTrades, TradesClosed, NoTrade

LEMMA CloseTradesAgrees ==
  ASSUME TradesAgree, NEW S \in SUBSET Player, CloseTrades(S),
         online' \subseteq Player, place' \in [Item -> Places], version' \in [Item -> {0, 1}],
         WritingTyped',
         \A p \in online : p \notin online' => p \in S \/ trade[p].partner = None
  PROVE  TradesAgree'
<1>1. /\ trade' \in [Player -> TradeRecords] /\ tradeItems' \in [Item -> Player \cup {None}]
      /\ \A i \in Item : tradeItems'[i] =
           IF \E q \in Player : trade[q].item = i /\ (q \in S \/ trade[q].partner \in S)
           THEN None ELSE tradeItems[i]
  <2>1. \A p \in Player : trade'[p] \in TradeRecords
    <3>1. NoTrade \in TradeRecords
      BY DEF NoTrade, TradeRecords
    <3>2. QED
      BY <3>1, Survivors, Types DEF TradesAgree
  <2>2. trade' = [q \in Player |-> trade'[q]]
    BY DEF CloseTrades, TradesClosed
  <2>3. QED
    BY <2>1, <2>2, Types DEF CloseTrades, OffersClosed, TradesAgree
<1>2. TypeOK'
  BY <1>1 DEF TypeOK, TradeRecords, WritingTyped
<1>3. \A p \in Player :
        /\ trade'[p] = NoTrade \/ trade'[p] = trade[p]
        /\ p \in S \/ trade[p].partner \in S => trade'[p] = NoTrade
        /\ trade'[p].partner # None \/ trade'[p].item # None =>
              trade'[p] = trade[p] /\ p \notin S /\ trade[p].partner \notin S
        /\ p \notin S /\ trade[p].partner \notin S => trade'[p] = trade[p]
  BY Survivors DEF TradesAgree, CloseTrades, TradesClosed
<1>4. NoTrade.state = "NONE" /\ NoTrade.partner = None /\ NoTrade.item = None
  BY DEF NoTrade
<1>5. PartnersAreMutual'
  <2> SUFFICES ASSUME NEW p \in Player
               PROVE  /\ trade'[p].state # "NONE" <=> trade'[p].partner # None
                      /\ trade'[p].partner # None =>
                           /\ p \in online' /\ trade'[p].partner # p
                           /\ trade'[trade'[p].partner].partner = p
    BY DEF PartnersAreMutual
  <2>1. CASE trade'[p] = NoTrade
    BY <1>4, <2>1
  <2>2. CASE trade'[p] # NoTrade
    <3>1. trade'[p] = trade[p] /\ p \notin S /\ trade[p].partner \notin S
      BY <1>3, <2>2
    <3>2. /\ trade[p].state # "NONE" <=> trade[p].partner # None
          /\ trade[p].partner # None =>
               /\ p \in online /\ trade[p].partner # p
               /\ trade[p].partner \in Player
               /\ trade[trade[p].partner].partner = p
      BY Types DEF TradesAgree, PartnersAreMutual
    <3>3. ASSUME trade[p].partner # None PROVE trade'[trade[p].partner].partner = p
      BY <1>3, <3>1, <3>2, <3>3
    <3>4. QED
      BY <3>1, <3>2, <3>3
  <2>3. QED
    BY <2>1, <2>2
<1>6. MapHoldsTheOffers'
  <2> SUFFICES ASSUME NEW i \in Item, NEW p \in Player
               PROVE  tradeItems'[i] = p <=> trade'[p].item = i
    BY DEF MapHoldsTheOffers
  <2>1. tradeItems[i] = p <=> trade[p].item = i
    BY DEF TradesAgree, MapHoldsTheOffers
  <2>2. p # None /\ i # None
    BY TradeAssumption
  <2>3. ASSUME tradeItems'[i] = p PROVE trade'[p].item = i
    <3>1. tradeItems[i] = p /\ p \notin S /\ trade[p].partner \notin S
      BY <1>1, <2>1, <2>2, <2>3
    <3>2. QED
      BY <1>3, <2>1, <3>1
  <2>4. ASSUME trade'[p].item = i PROVE tradeItems'[i] = p
    <3>1. trade'[p] = trade[p] /\ p \notin S /\ trade[p].partner \notin S
      BY <1>3, <2>2, <2>4
    <3>2. tradeItems[i] = p
      BY <2>1, <2>4, <3>1
    <3>3. \A q \in Player : trade[q].item = i => q = p
      BY <2>2, <3>2 DEF TradesAgree, MapHoldsTheOffers
    <3>4. QED
      BY <1>1, <3>1, <3>2, <3>3
  <2>5. QED
    BY <2>3, <2>4
<1>7. StateTellsOffer'
  BY <1>3, <1>4 DEF TradesAgree, StateTellsOffer
<1>8. QED
  BY <1>2, <1>5, <1>6, <1>7 DEF TradesAgree

\* An offer that nothing happened to is still within reach, and apart from the others.
LEMMA OffersKept ==
  ASSUME IInv, TradesAgree', Acyclic(place'),
         \A r \in Player : Offer(r)' # None =>
           /\ Offer(r)' = Offer(r)
           /\ HoldersIn(place', Offer(r)) = HoldersIn(place, Offer(r))
           /\ RootIn(place', Offer(r)) = RootIn(place, Offer(r))
  PROVE  IInv'
<1>1. OfferIsReachable'
  <2> SUFFICES ASSUME NEW p \in Player, Offer(p)' # None PROVE Reaches(p, Offer(p))'
    BY DEF OfferIsReachable
  <2>1. /\ Offer(p)' = Offer(p) /\ RootIn(place', Offer(p)) = RootIn(place, Offer(p))
        /\ Reaches(p, Offer(p))
    BY DEF IInv, Inv, OfferIsReachable
  <2>2. QED
    BY <2>1 DEF Reaches, OwnedBy, Root, RootIn, Holders, HoldersIn, Closed
<1>2. OffersAreDisjoint'
  <2> SUFFICES ASSUME NEW p \in Player, NEW q \in Player, p # q,
                      Offer(p)' # None, Offer(q)' # None
               PROVE  Offer(p)' # Offer(q)' /\ Offer(p)' \notin HoldersIn(place', Offer(q)')
    BY DEF OffersAreDisjoint, Holders, HoldersIn, Closed
  <2>1. /\ Offer(p)' = Offer(p) /\ Offer(q)' = Offer(q)
        /\ HoldersIn(place', Offer(q)) = HoldersIn(place, Offer(q))
    OBVIOUS
  <2>2. Offer(p) # Offer(q) /\ Offer(p) \notin HoldersIn(place, Offer(q))
    BY <2>1, HoldersAre DEF IInv, Inv, OffersAreDisjoint
  <2>3. QED
    BY <2>1, <2>2
<1>3. QED
  BY <1>1, <1>2 DEF IInv, Inv, TradesAgree

LEMMA Agreed == IInv => TradesAgree /\ place \in [Item -> Places] /\ Acyclic(place)
BY Types DEF IInv, Inv, TradesAgree

\* Nothing was moved; some trades are over.
LEMMA OnlyCloses ==
  ASSUME IInv, NEW S \in SUBSET Player, CloseTrades(S), place' = place,
         online' \subseteq Player, version' \in [Item -> {0, 1}], WritingTyped',
         \A p \in online : p \notin online' => p \in S \/ trade[p].partner = None
  PROVE  IInv'
<1>1. TradesAgree'
  BY Agreed, CloseTradesAgrees
<1>2. \A r \in Player : Offer(r)' # None => Offer(r)' = Offer(r)
  BY Agreed, Survivors DEF Offer, TradesAgree
<1>3. QED
  BY <1>1, <1>2, Agreed, OffersKept

\* x was moved, and the trades that this disturbs are over.
LEMMA MoveCloses ==
  ASSUME IInv, NEW x \in Item, RootIn(place, x) # Gone,
         place' \in [Item -> Places], Moved(place, place', x),
         NEW S \in SUBSET Player, \A r \in Player : RemovalCloses(r, x) => r \in S,
         CloseTrades(S), UNCHANGED <<online, version, writing>>
  PROVE  IInv'
<1>1. TradesAgree'
  <2>1. TypeOK
    BY DEF IInv, Inv
  <2>2. online' \subseteq Player /\ version' \in [Item -> {0, 1}] /\ WritingTyped'
    BY <2>1, WritingKept DEF TypeOK
  <2>3. QED
    BY <2>2, Agreed, CloseTradesAgrees
<1>2. Acyclic(place')
  BY Agreed, MoveKeepsAcyclic
<1>3. ASSUME NEW r \in Player, Offer(r)' # None
      PROVE  /\ Offer(r)' = Offer(r)
             /\ HoldersIn(place', Offer(r)) = HoldersIn(place, Offer(r))
             /\ RootIn(place', Offer(r)) = RootIn(place, Offer(r))
  <2>1. Offer(r)' = Offer(r) /\ r \notin S
    BY <1>3, Agreed, Survivors DEF Offer, TradesAgree
  <2>2. /\ Offer(r) \in Item /\ Offer(r) # x
        /\ x \notin HoldersIn(place, Offer(r))
    BY <1>3, <2>1, Undisturbed, Agreed, Types DEF TradesAgree
  <2>3. QED
    BY <1>2, <2>1, <2>2, Agreed, HoldersUntouched, RootUntouched DEF Moved
<1>4. QED
  BY <1>1, <1>2, <1>3, OffersKept

----------------------------------------------------------------------------
(* The steps *)

LEMMA InitEstablishes == Init => IInv
<1> SUFFICES ASSUME Init PROVE IInv
  OBVIOUS
<1>1. TypeOK
  BY DEF Init, TypeOK, NoTrade, Places
<1>2. \A p \in Player : /\ trade[p].state = "NONE" /\ trade[p].partner = None
                        /\ trade[p].item = None /\ Offer(p) = None
  BY DEF Init, NoTrade, Offer
<1>3. PartnersAreMutual /\ StateTellsOffer /\ OfferIsReachable /\ OffersAreDisjoint
  BY <1>2 DEF PartnersAreMutual, StateTellsOffer, OfferIsReachable, OffersAreDisjoint
<1>4. MapHoldsTheOffers
  BY <1>2, TradeAssumption DEF MapHoldsTheOffers, Init
<1>5. Acyclic(place)
  <2>1. \A i \in Item : place[i][1] # "in"
    BY DEF Init, Ground
  <2>2. QED
    BY <1>1, <2>1, Types, HoldersOf, ContainersAreItems DEF Acyclic
<1>6. QED
  BY <1>1, <1>3, <1>4, <1>5 DEF IInv, Inv

LEMMA RequestTradeKeeps ==
  ASSUME IInv, NEW p \in Player, NEW q \in Player, NEW i \in Item, RequestTrade(p, q, i)
  PROVE  IInv'
<1> DEFINE mine == [state |-> "INITIATED", partner |-> q, item |-> i]
           asked == [trade[q] EXCEPT !.state = "ACKNOWLEDGE", !.partner = p]
           yours == IF trade[q].state = "NONE" THEN asked ELSE trade[q]
<1>1. /\ p # q /\ p \in online /\ q \in online /\ Reaches(p, i) /\ ~AlreadyTraded(i)
      /\ trade[p].state = "NONE" \/ (trade[p].state = "ACKNOWLEDGE" /\ trade[p].partner = q)
      /\ trade[q].state = "NONE" \/ trade[q].partner = p
      /\ tradeItems' = [tradeItems EXCEPT ![i] = p]
      /\ UNCHANGED <<online, place, version, writing>>
  BY DEF RequestTrade, StartTrade
<1>2. /\ trade \in [Player -> TradeRecords] /\ tradeItems \in [Item -> Player \cup {None}]
      /\ trade[p] \in TradeRecords /\ trade[q] \in TradeRecords
      /\ p # None /\ q # None /\ i # None
  BY Agreed, Types, TradeAssumption DEF TradesAgree
<1>3. trade' = [trade EXCEPT ![p] = mine, ![q] = yours]
  BY <1>1, <1>2 DEF RequestTrade, StartTrade
<1>4. /\ mine \in TradeRecords /\ mine.state = "INITIATED" /\ mine.partner = q /\ mine.item = i
  BY DEF TradeRecords
<1>5. /\ yours \in TradeRecords /\ yours.partner = p /\ yours.item = trade[q].item
      /\ yours.state = IF trade[q].state = "NONE" THEN "ACKNOWLEDGE" ELSE trade[q].state
  BY <1>1, <1>2 DEF TradeRecords
<1> HIDE DEF mine, yours
<1>6. /\ trade' \in [Player -> TradeRecords]
      /\ trade'[p] = mine /\ trade'[q] = yours
      /\ \A r \in Player \ {p, q} : trade'[r] = trade[r]
  BY <1>1, <1>2, <1>3, <1>4, <1>5
<1>7. /\ trade[p].item = None
      /\ trade[q].state = "NONE" => trade[q].item = None
      /\ trade[p].partner \in {None, q} /\ trade[q].partner \in {None, p}
      /\ \A r \in Player \ {p, q} : trade[r].partner \notin {p, q}
      /\ (trade[q].state = "NONE" <=> trade[q].partner = None)
      /\ \A j \in Item : tradeItems[j] # p
      /\ tradeItems[i] = None
  <2>1. \A r \in Player : trade[r].partner = p => trade[p].partner = r
    BY <1>2 DEF IInv, Inv, PartnersAreMutual
  <2>2. \A r \in Player : trade[r].partner = q => trade[q].partner = r
    BY <1>2 DEF IInv, Inv, PartnersAreMutual
  <2>3. /\ trade[p].state = "NONE" <=> trade[p].partner = None
        /\ trade[q].state = "NONE" <=> trade[q].partner = None
    BY DEF IInv, Inv, PartnersAreMutual
  <2>4. trade[p].item = None /\ (trade[q].state = "NONE" => trade[q].item = None)
    BY <1>1 DEF IInv, StateTellsOffer
  <2>5. \A j \in Item : tradeItems[j] # p
    BY <2>4, TradeAssumption DEF IInv, Inv, MapHoldsTheOffers
  <2>6. tradeItems[i] = None
    BY <1>1 DEF AlreadyTraded
  <2>7. QED
    BY <1>1, <1>2, <2>1, <2>2, <2>3, <2>4, <2>5, <2>6, TradeAssumption
<1>8. TypeOK'
  BY <1>1, <1>2, <1>6, Agreed DEF TypeOK, TradeRecords, TradesAgree, writing
<1>9. PartnersAreMutual'
  <2> SUFFICES ASSUME NEW r \in Player
               PROVE  /\ trade'[r].state # "NONE" <=> trade'[r].partner # None
                      /\ trade'[r].partner # None =>
                           /\ r \in online' /\ trade'[r].partner # r
                           /\ trade'[trade'[r].partner].partner = r
    BY DEF PartnersAreMutual
  <2>1. CASE r = p
    BY <1>1, <1>2, <1>4, <1>5, <1>6, <2>1
  <2>2. CASE r = q
    BY <1>1, <1>2, <1>4, <1>5, <1>6, <1>7, <2>2
  <2>3. CASE r \notin {p, q}
    <3>1. trade'[r] = trade[r] /\ trade[r].partner \notin {p, q}
      BY <1>6, <1>7, <2>3
    <3>2. /\ trade[r].state # "NONE" <=> trade[r].partner # None
          /\ trade[r].partner # None =>
               /\ r \in online /\ trade[r].partner # r
               /\ trade[trade[r].partner].partner = r
          /\ trade[r].partner \in Player \cup {None}
      BY Agreed, Types DEF TradesAgree, PartnersAreMutual
    <3>3. QED
      BY <1>1, <1>6, <3>1, <3>2
  <2>4. QED
    BY <2>1, <2>2, <2>3
<1>10. \A r \in Player : trade'[r].item = IF r = p THEN i ELSE trade[r].item
  BY <1>4, <1>5, <1>6
<1>11. MapHoldsTheOffers'
  <2> SUFFICES ASSUME NEW j \in Item, NEW r \in Player
               PROVE  tradeItems'[j] = r <=> trade'[r].item = j
    BY DEF MapHoldsTheOffers
  <2>1. tradeItems[j] = r <=> trade[r].item = j
    BY DEF IInv, Inv, MapHoldsTheOffers
  <2>2. tradeItems'[j] = IF j = i THEN p ELSE tradeItems[j]
    BY <1>1, <1>2
  <2>3. r # None
    BY TradeAssumption
  <2>4. QED
    BY <1>7, <1>10, <2>1, <2>2, <2>3
<1>12. StateTellsOffer'
  <2> SUFFICES ASSUME NEW r \in Player, trade'[r].state \in {"NONE", "ACKNOWLEDGE"}
               PROVE  trade'[r].item = None
    BY DEF StateTellsOffer
  <2>1. trade[r].state \in {"NONE", "ACKNOWLEDGE"} => trade[r].item = None
    BY DEF IInv, StateTellsOffer
  <2>2. QED
    BY <1>4, <1>5, <1>6, <2>1
<1>13. place' = place /\ \A r \in Player : Offer(r)' = IF r = p THEN i ELSE Offer(r)
  BY <1>1, <1>10 DEF Offer
<1>14. OfferIsReachable'
  <2>1. \A j : Root(j)' = Root(j)
    BY <1>13, HoldersAre
  <2>2. \A r \in Player : \A j : Reaches(r, j)' <=> Reaches(r, j)
    BY <2>1 DEF Reaches, OwnedBy
  <2>3. QED
    BY <1>1, <1>13, <2>2 DEF IInv, Inv, OfferIsReachable
<1>15. OffersAreDisjoint'
  <2>1. ASSUME NEW r \in Player \ {p}, Offer(r) # None
        PROVE  Offer(r) # i /\ i \notin Holders(Offer(r)) /\ Offer(r) \notin Holders(i)
    <3>1. Offer(r) \in Item /\ tradeItems[Offer(r)] = r /\ r # None
      BY <2>1, Agreed, Types, TradeAssumption DEF TradesAgree, MapHoldsTheOffers
    <3>2. QED
      BY <1>1, <3>1 DEF AlreadyTraded
  <2>2. \A j : Holders(j)' = Holders(j)
    BY <1>13 DEF Holders
  <2> SUFFICES ASSUME NEW r \in Player, NEW s \in Player, r # s, Offer(r)' # None, Offer(s)' # None
               PROVE  Offer(r)' # Offer(s)' /\ Offer(r)' \notin Holders(Offer(s)')
    BY <2>2 DEF OffersAreDisjoint
  <2>3. r # p /\ s # p => Offer(r) # Offer(s) /\ Offer(r) \notin Holders(Offer(s))
    BY <1>13 DEF IInv, Inv, OffersAreDisjoint
  <2>4. QED
    BY <1>13, <2>1, <2>3
<1>16. QED
  BY <1>8, <1>9, <1>11, <1>12, <1>13, <1>14, <1>15, Agreed DEF IInv, Inv

LEMMA AcceptFirstKeeps ==
  ASSUME IInv, NEW p \in Player, AcceptFirst(p)
  PROVE  IInv'
<1> DEFINE mine == [trade[p] EXCEPT !.state = "ACCEPT"]
<1>1. /\ trade \in [Player -> TradeRecords] /\ trade[p] \in TradeRecords
      /\ trade[p].partner # None
  BY Agreed, Types DEF TradesAgree, AcceptFirst, CanAccept
<1>2. trade' = [trade EXCEPT ![p] = mine] /\ UNCHANGED <<online, tradeItems, place, version, writing>>
  BY <1>1 DEF AcceptFirst
<1>3. /\ mine \in TradeRecords /\ mine.state = "ACCEPT"
      /\ mine.partner = trade[p].partner /\ mine.item = trade[p].item
  BY <1>1 DEF TradeRecords
<1> HIDE DEF mine
<1>4. /\ trade' \in [Player -> TradeRecords]
      /\ \A r \in Player : /\ trade'[r].partner = trade[r].partner
                           /\ trade'[r].item = trade[r].item
                           /\ trade'[r].state = IF r = p THEN "ACCEPT" ELSE trade[r].state
  BY <1>1, <1>2, <1>3
<1>5. TypeOK'
  BY <1>2, <1>4, Agreed DEF TradesAgree, TypeOK, TradeRecords, writing
<1>6. PartnersAreMutual'
  <2> SUFFICES ASSUME NEW r \in Player
               PROVE  /\ trade'[r].state # "NONE" <=> trade'[r].partner # None
                      /\ trade'[r].partner # None =>
                           /\ r \in online' /\ trade'[r].partner # r
                           /\ trade'[trade'[r].partner].partner = r
    BY DEF PartnersAreMutual
  <2>1. /\ trade[r].state # "NONE" <=> trade[r].partner # None
        /\ trade[r].partner # None =>
             /\ r \in online /\ trade[r].partner # r
             /\ trade[trade[r].partner].partner = r
        /\ trade[r].partner \in Player \cup {None}
    BY Agreed, Types DEF TradesAgree, PartnersAreMutual
  <2>2. QED
    BY <1>1, <1>2, <1>4, <2>1
<1>7. MapHoldsTheOffers' /\ StateTellsOffer'
  BY <1>2, <1>4 DEF IInv, Inv, MapHoldsTheOffers, StateTellsOffer
<1>8. \A r \in Player : Offer(r)' = Offer(r)
  BY <1>4 DEF Offer
<1>9. QED
  BY <1>2, <1>5, <1>6, <1>7, <1>8, Agreed, OffersKept DEF TradesAgree

\* A thing that somebody reaches has not gone.
LEMMA ReachableIsThere ==
  ASSUME IInv, NEW p \in Player, NEW i \in Item, Reaches(p, i)
  PROVE  RootIn(place, i) # Gone
BY HoldersAre DEF Reaches, OwnedBy, Ground, Gone

LEMMA MoveItemKeeps ==
  ASSUME IInv, NEW p \in Player, NEW i \in Item, MoveItem(p, i)
  PROVE  /\ IInv'
         /\ RootIn(place, i) # Gone /\ version' = version
         /\ place' \in [Item -> Places] /\ Moved(place, place', i)
         /\ \E S \in SUBSET Player :
              /\ CloseTrades(S)
              /\ \A r \in Player : RemovalCloses(r, i) => r \in S
              /\ \A r \in Player : AdditionCloses(r, place'[i]) => r \in S
<1> DEFINE Dests == {Ground} \cup Destinations(p) \cup {<<"in", c>> : c \in Container}
<1>1. PICK dest \in Dests :
        /\ dest[1] = "in" => dest[2] # i /\ i \notin Holders(dest[2])
        /\ place' = [place EXCEPT ![i] = dest]
        /\ CloseTrades({r \in Player : RemovalCloses(r, i) \/ AdditionCloses(r, dest)})
  BY DEF MoveItem
<1>2. dest \in Places
  BY DEF Places, Destinations
<1> DEFINE S == {r \in Player : RemovalCloses(r, i) \/ AdditionCloses(r, dest)}
<1>3. place' \in [Item -> Places] /\ place'[i] = dest /\ \A j \in Item \ {i} : place'[j] = place[j]
  BY <1>1, <1>2, Agreed
<1>4. Moved(place, place', i)
  BY <1>1, <1>3, HoldersAre DEF Moved
<1>5. RootIn(place, i) # Gone /\ UNCHANGED <<online, version, writing>>
  BY ReachableIsThere DEF MoveItem
<1>6. S \in SUBSET Player /\ CloseTrades(S) /\ \A r \in Player : RemovalCloses(r, i) => r \in S
  BY <1>1
<1>7. \A r \in Player : AdditionCloses(r, place'[i]) => r \in S
  BY <1>3
<1> HIDE DEF S
<1>8. IInv'
  BY <1>3, <1>4, <1>5, <1>6, MoveCloses
<1>9. QED
  BY <1>3, <1>4, <1>5, <1>6, <1>7, <1>8

LEMMA DestroyItemKeeps ==
  ASSUME IInv, NEW i \in Item, DestroyItem(i)
  PROVE  /\ IInv'
         /\ RootIn(place, i) # Gone /\ version' = version
         /\ place' \in [Item -> Places] /\ Moved(place, place', i)
         /\ \E S \in SUBSET Player :
              /\ CloseTrades(S)
              /\ \A r \in Player : RemovalCloses(r, i) => r \in S
<1> DEFINE S == {r \in Player : RemovalCloses(r, i)}
<1>1. /\ place' = [place EXCEPT ![i] = Gone] /\ CloseTrades(S) /\ Root(i) # Gone
      /\ UNCHANGED <<online, version, writing>>
  BY DEF DestroyItem
<1>2. place' \in [Item -> Places] /\ place'[i] = Gone /\ \A j \in Item \ {i} : place'[j] = place[j]
  BY <1>1, Agreed DEF Places
<1>3. Moved(place, place', i) /\ RootIn(place, i) # Gone
  BY <1>1, <1>2, HoldersAre DEF Moved, Gone
<1>4. S \in SUBSET Player /\ \A r \in Player : RemovalCloses(r, i) => r \in S
  OBVIOUS
<1> HIDE DEF S
<1>5. IInv'
  BY <1>1, <1>2, <1>3, <1>4, MoveCloses
<1>6. QED
  BY <1>1, <1>2, <1>3, <1>4, <1>5

\* What Transfer() does: p's offer moves, q's does too unless it was to go on a stack, and
\* the trades of both and those this disturbs are over.
LEMMA TransferMoves ==
  ASSUME IInv, NEW p \in Player, NEW q \in Player, Transfer(p, q)
  PROVE  /\ Offer(p) \in Item /\ Offer(q) \in Item /\ Offer(p) # Offer(q) /\ p # q
         /\ UNCHANGED <<online, version, writing>>
         /\ \E dest1 \in Destinations(q), dest2 \in Destinations(p) :
              /\ place'[Offer(p)] = dest1
              /\ place'[Offer(q)] = dest2
                   \/ (place'[Offer(q)] = place[Offer(q)] /\ Offer(q) \in Stackable)
              /\ \A j \in Item \ {Offer(p), Offer(q)} : place'[j] = place[j]
         /\ place' \in [Item -> Places]
         /\ \E S \in SUBSET Player :
              /\ CloseTrades(S)
              /\ p \in S /\ q \in S
              /\ \A r \in Player \ {p, q} :
                   RemovalCloses(r, Offer(p)) \/ RemovalCloses(r, Offer(q)) => r \in S
<1> DEFINE a == Offer(p)
           b == Offer(q)
           S == {p, q} \cup (Disturbed(a, p, q) \cup Disturbed(b, p, q))
<1>1. PICK roomP \in Rooms(p), roomQ \in Rooms(q) :
        /\ WouldFit(roomQ, a) /\ WouldFit(roomP, b)
        /\ \E dest1 \in Destinations(q), dest2 \in Destinations(p), second \in SecondMoves(roomP, p) :
             place' = [place EXCEPT ![a] = dest1, ![b] = IF second THEN dest2 ELSE @]
        /\ CloseTrades(S)
  BY DEF Transfer, Over
<1>2. /\ a \in Item /\ b \in Item
  BY <1>1, Agreed, Types DEF WouldFit, TradesAgree
<1>3. p # q
  <2>1. q = trade[p].partner /\ trade[p].partner # None
    BY DEF Transfer, CanAccept
  <2>2. QED
    BY <2>1, Agreed DEF TradesAgree, PartnersAreMutual
<1>4. a # b
  <2>1. a # None /\ b # None
    BY <1>2, TradeAssumption
  <2>2. QED
    BY <1>3, <2>1 DEF IInv, Inv, OffersAreDisjoint
<1>5. PICK dest1 \in Destinations(q), dest2 \in Destinations(p), second \in SecondMoves(roomP, p) :
        place' = [place EXCEPT ![a] = dest1, ![b] = IF second THEN dest2 ELSE @]
  BY <1>1
<1>6. second \in BOOLEAN /\ (second = FALSE => b \in Stackable)
  <2>1. CASE roomP \in {"slot", "offer"}
    BY <2>1 DEF SecondMoves
  <2>2. CASE roomP \notin {"slot", "offer"}
    <3>1. b \in Stackable /\ roomP = "stack"
      BY <1>1, <2>2 DEF WouldFit
    <3>2. CASE OwnedBy(Offer(p), p)
      BY <3>1, <3>2 DEF SecondMoves
    <3>3. CASE ~OwnedBy(Offer(p), p)
      BY <3>1, <3>3 DEF SecondMoves
    <3>4. QED
      BY <3>1, <3>2, <3>3
  <2>3. QED
    BY <2>1, <2>2
<1> HIDE DEF a, b
<1>7. dest1 \in Places /\ dest2 \in Places
  BY DEF Destinations, Places
<1>8. /\ place' \in [Item -> Places] /\ place'[a] = dest1
      /\ place'[b] = dest2 \/ (place'[b] = place[b] /\ b \in Stackable)
      /\ \A j \in Item \ {a, b} : place'[j] = place[j]
  <2>1. place \in [Item -> Places]
    BY Agreed
  <2>2. CASE second = TRUE
    <3>1. place' = [place EXCEPT ![a] = dest1, ![b] = dest2]
      BY <1>5, <2>2
    <3>2. QED
      BY <1>2, <1>4, <1>7, <2>1, <3>1
  <2>3. CASE second = FALSE
    <3>1. place' = [place EXCEPT ![a] = dest1, ![b] = @]
      BY <1>5, <2>3
    <3>2. QED
      BY <1>2, <1>4, <1>6, <1>7, <2>1, <2>3, <3>1
  <2>4. QED
    BY <1>6, <2>2, <2>3
<1>9. /\ S \in SUBSET Player /\ p \in S /\ q \in S
      /\ \A r \in Player \ {p, q} : RemovalCloses(r, a) \/ RemovalCloses(r, b) => r \in S
  BY DEF Disturbed
<1>10. UNCHANGED <<online, version, writing>>
  BY DEF Transfer
<1> HIDE DEF S
<1>11. \E T \in SUBSET Player :
         /\ CloseTrades(T) /\ p \in T /\ q \in T
         /\ \A r \in Player \ {p, q} : RemovalCloses(r, a) \/ RemovalCloses(r, b) => r \in T
  BY <1>1, <1>9
<1>12. QED
  BY <1>2, <1>3, <1>4, <1>8, <1>10, <1>11 DEF a, b

LEMMA OwnPlaces ==
  ASSUME NEW p \in Player, NEW dest \in Destinations(p)
  PROVE  dest \in Places /\ dest[1] # "in"
BY DEF Destinations, Places

LEMMA OfferIsThere ==
  ASSUME IInv, NEW p \in Player, Offer(p) # None
  PROVE  RootIn(place, Offer(p)) # Gone
<1>1. Offer(p) \in Item /\ Reaches(p, Offer(p))
  BY Agreed, Types DEF TradesAgree, IInv, Inv, OfferIsReachable
<1>2. QED
  BY <1>1, ReachableIsThere

LEMMA TransferKeeps ==
  ASSUME IInv, NEW p \in Player, NEW q \in Player, Transfer(p, q)
  PROVE  IInv'
<1> DEFINE a == Offer(p)
           b == Offer(q)
<1>1. /\ a \in Item /\ b \in Item /\ a # b /\ p # q
      /\ UNCHANGED <<online, version, writing>> /\ place' \in [Item -> Places]
      /\ \A j \in Item \ {a, b} : place'[j] = place[j]
      /\ place'[a][1] # "in"
      /\ place'[b] = place[b] \/ place'[b][1] # "in"
      /\ place'[a] \in Places
  BY TransferMoves, OwnPlaces
<1>2. PICK S \in SUBSET Player :
        /\ CloseTrades(S)
        /\ \A r \in Player : r \notin S =>
             r \notin {p, q} /\ ~RemovalCloses(r, a) /\ ~RemovalCloses(r, b)
  BY TransferMoves
<1> DEFINE f == [place EXCEPT ![a] = place'[a]]
<1>3. /\ f \in [Item -> Places] /\ f[a] = place'[a]
      /\ \A j \in Item \ {a} : f[j] = place[j]
      /\ \A j \in Item \ {b} : place'[j] = f[j]
  BY <1>1, Agreed
<1>4. a # None /\ b # None
  BY <1>1, TradeAssumption
<1>5. RootIn(place, a) # Gone /\ RootIn(place, b) # Gone
  BY <1>1, <1>4, OfferIsThere
<1> HIDE DEF a, b, f
<1>6. Moved(place, f, a)
  BY <1>1, <1>3 DEF Moved
<1>7. Acyclic(f)
  BY <1>1, <1>3, <1>6, Agreed, MoveKeepsAcyclic
<1>8. Acyclic(place')
  <2>1. CASE place'[b][1] # "in"
    <3>1. Moved(f, place', b)
      BY <1>3, <2>1 DEF Moved
    <3>2. QED
      BY <1>1, <1>3, <1>7, <3>1, MoveKeepsAcyclic
  <2>2. CASE place'[b] = place[b]
    <3>1. f[b] = place'[b]
      BY <1>1, <1>3, <2>2
    <3>2. \A j \in Item : f[j] = place'[j]
      BY <1>3, <3>1
    <3>3. f = place'
      BY <1>1, <1>3, <3>2
    <3>4. QED
      BY <1>7, <3>3
  <2>3. QED
    BY <1>1, <2>1, <2>2
<1>9. TradesAgree'
  <2>1. online' \subseteq Player /\ version' \in [Item -> {0, 1}] /\ WritingTyped'
    BY <1>1, Agreed, WritingKept DEF TradesAgree, TypeOK
  <2>2. QED
    BY <1>1, <1>2, <2>1, Agreed, CloseTradesAgrees
<1>10. ASSUME NEW r \in Player, Offer(r)' # None
       PROVE  /\ Offer(r)' = Offer(r)
              /\ HoldersIn(place', Offer(r)) = HoldersIn(place, Offer(r))
              /\ RootIn(place', Offer(r)) = RootIn(place, Offer(r))
  <2> DEFINE o == Offer(r)
  <2>1. Offer(r)' = o /\ r \notin S /\ o \in Item
    BY <1>2, <1>10, Agreed, Survivors, Types DEF Offer, TradesAgree
  <2>2. ~RemovalCloses(r, a) /\ ~RemovalCloses(r, b) /\ o # None
    BY <1>2, <1>10, <2>1
  <2>3. /\ o # a /\ a \notin HoldersIn(place, o)
        /\ o # b /\ b \notin HoldersIn(place, o)
    BY <1>1, <1>5, <2>2, Undisturbed
  <2> HIDE DEF o
  <2>4. HoldersIn(f, o) = HoldersIn(place, o) /\ RootIn(f, o) = RootIn(place, o)
    BY <1>1, <1>3, <1>7, <2>1, <2>3, Agreed, HoldersUntouched, RootUntouched
  <2>5. HoldersIn(place', o) = HoldersIn(f, o) /\ RootIn(place', o) = RootIn(f, o)
    BY <1>1, <1>3, <1>7, <1>8, <2>1, <2>3, <2>4, HoldersUntouched, RootUntouched
  <2>6. QED
    BY <2>1, <2>4, <2>5 DEF o
<1>11. QED
  BY <1>8, <1>9, <1>10, OffersKept

\* A change that players are told of.
LEMMA ChangedKeeps ==
  ASSUME IInv, NEW i \in Item, Changed(i), UNCHANGED <<online, place>>, WritingTyped'
  PROVE  IInv'
<1> DEFINE S == {r \in Player : Offer(r) # None /\ ChecksTrade(r, i)}
           new == 1 - version[i]
<1>1. version' = [version EXCEPT ![i] = new] /\ CloseTrades(S)
  BY DEF Changed
<1>2. version \in [Item -> {0, 1}] /\ online \subseteq Player
  BY Agreed DEF TradesAgree, TypeOK
<1>3. new \in {0, 1}
  BY <1>2
<1> HIDE DEF new
<1>4. version' \in [Item -> {0, 1}] /\ S \in SUBSET Player
  BY <1>1, <1>2, <1>3
<1> HIDE DEF S
<1>5. QED
  BY <1>1, <1>2, <1>4, OnlyCloses

\* Nothing but texts changes, or what is being written on.
LEMMA WritingOnlyKeeps ==
  ASSUME IInv, UNCHANGED <<online, trade, tradeItems, place, version>>, WritingTyped'
  PROVE  IInv'
<1>1. TradesAgree'
  <2>1. TypeOK'
    BY Agreed DEF TradesAgree, TypeOK, WritingTyped
  <2>2. QED
    BY <2>1, Agreed DEF TradesAgree, PartnersAreMutual, MapHoldsTheOffers, StateTellsOffer
<1>2. \A r \in Player : Offer(r)' = Offer(r)
  BY DEF Offer
<1>3. QED
  BY <1>1, <1>2, Agreed, OffersKept

LEMMA ChangeItemKeeps ==
  ASSUME IInv, NEW i \in Item, ChangeItem(i)
  PROVE  IInv'
<1>1. Changed(i) /\ UNCHANGED <<online, place, writing>>
  BY DEF ChangeItem
<1>2. WritingTyped'
  BY <1>1, Agreed, WritingKept DEF TradesAgree
<1>3. QED
  BY <1>1, <1>2, ChangedKeeps

LEMMA UseItemKeeps ==
  ASSUME IInv, NEW p \in Player, NEW i \in Item, UseItem(p, i)
  PROVE  IInv'
<1>1. WritingTyped
  BY Agreed DEF TradesAgree, TypeOK, WritingTyped
<1>2. UNCHANGED <<online, trade, tradeItems, place, version, text>>
  BY DEF UseItem
<1>3. WritingTyped'
  BY <1>1, <1>2 DEF UseItem, WritingTyped
<1>4. QED
  BY <1>2, <1>3, WritingOnlyKeeps

\* What p writes on, when its window is answered.
LEMMA PlayerWritesOn ==
  ASSUME IInv, NEW p \in Player, PlayerWriteItem(p)
  PROVE  /\ writeItem[p] \in Item /\ Reaches(p, writeItem[p]) /\ writeItem'[p] = None
         /\ \A j \in Item \ {writeItem[p]} : text'[j] = text[j]
         /\ Changed(writeItem[p]) \/ UNCHANGED <<trade, tradeItems, version>>
         /\ UNCHANGED <<online, place>>
         /\ WritingTyped'
<1>1. WritingTyped
  BY Agreed DEF TradesAgree, TypeOK, WritingTyped
<1>2. /\ writeItem[p] # None /\ Reaches(p, writeItem[p])
      /\ writeItem' = [writeItem EXCEPT ![p] = None]
      /\ Changed(writeItem[p]) \/ UNCHANGED <<trade, tradeItems, version>>
      /\ UNCHANGED <<online, place>>
  BY DEF PlayerWriteItem, Written
<1>3. PICK new \in {0, 1} : text' = [text EXCEPT ![writeItem[p]] = new]
  BY DEF PlayerWriteItem, Written
<1>4. QED
  BY <1>1, <1>2, <1>3 DEF WritingTyped

LEMMA PlayerWriteItemKeeps ==
  ASSUME IInv, NEW p \in Player, PlayerWriteItem(p)
  PROVE  IInv'
<1>1. PICK i \in Item : i = writeItem[p]
  BY PlayerWritesOn
<1>2. CASE Changed(i)
  BY <1>1, <1>2, PlayerWritesOn, ChangedKeeps
<1>3. CASE UNCHANGED <<trade, tradeItems, version>>
  BY <1>3, PlayerWritesOn, WritingOnlyKeeps
<1>4. QED
  BY <1>1, <1>2, <1>3, PlayerWritesOn

LEMMA NextKeeps ==
  ASSUME IInv, Next
  PROVE  IInv'
<1>1. /\ online \subseteq Player /\ version \in [Item -> {0, 1}]
      /\ UNCHANGED writing => WritingTyped'
  BY Agreed, WritingKept DEF TradesAgree, TypeOK
<1>2. ASSUME NEW p \in Player, NEW q \in Player, NEW i \in Item, RequestTrade(p, q, i)
      PROVE  IInv'
  BY <1>2, RequestTradeKeeps
<1>3. ASSUME NEW p \in Player, NEW q \in Player, Transfer(p, q) PROVE IInv'
  BY <1>3, TransferKeeps
<1>4. ASSUME NEW p \in Player, NEW q \in Player, TransferFails(p, q) PROVE IInv'
  <2>1. {p, q} \cup {} \in SUBSET Player /\ CloseTrades({p, q} \cup {})
    BY <1>4 DEF TransferFails, Over
  <2>2. UNCHANGED <<online, place, version, writing>>
    BY <1>4 DEF TransferFails
  <2>3. QED
    BY <1>1, <2>1, <2>2, OnlyCloses
<1>5. ASSUME NEW p \in Player, AcceptFirst(p) PROVE IInv'
  BY <1>5, AcceptFirstKeeps
<1>6. ASSUME NEW p \in Player, CloseTrade(p) \/ Move(p) PROVE IInv'
  <2>1. /\ {p} \in SUBSET Player /\ CloseTrades({p})
        /\ UNCHANGED <<online, place, version, writing>>
    BY <1>6 DEF CloseTrade, Move
  <2>2. QED
    BY <1>1, <2>1, OnlyCloses
<1>7. ASSUME NEW p \in Player, Logout(p) PROVE IInv'
  <2> DEFINE S == IF trade[p].partner # None THEN {p} ELSE {}
  <2>1. /\ S \in SUBSET Player /\ CloseTrades(S)
        /\ online' = online \ {p} /\ UNCHANGED <<place, version, text>>
        /\ writeItem' = [writeItem EXCEPT ![p] = None]
    BY <1>7 DEF Logout
  <2>2. \A r \in online : r \notin online' => r \in S \/ trade[r].partner = None
    BY <2>1
  <2>3. WritingTyped'
    BY <2>1, Agreed DEF TradesAgree, TypeOK, WritingTyped
  <2> HIDE DEF S
  <2>4. QED
    BY <1>1, <2>1, <2>2, <2>3, OnlyCloses
<1>8. ASSUME NEW p \in Player, Login(p) PROVE IInv'
  <2>1. online' = online \cup {p} /\ UNCHANGED <<trade, tradeItems, place, version, writing>>
    BY <1>8 DEF Login
  <2>2. TradesAgree'
    BY <2>1, Agreed
       DEF TradesAgree, TypeOK, PartnersAreMutual, MapHoldsTheOffers, StateTellsOffer, writing
  <2>3. \A r \in Player : Offer(r)' = Offer(r)
    BY <2>1 DEF Offer
  <2>4. QED
    BY <2>1, <2>2, <2>3, Agreed, OffersKept
<1>9. ASSUME NEW p \in Player, NEW i \in Item, MoveItem(p, i) PROVE IInv'
  BY <1>9, MoveItemKeeps
<1>10. ASSUME NEW i \in Item, ChangeItem(i) \/ DestroyItem(i) PROVE IInv'
  BY <1>10, ChangeItemKeeps, DestroyItemKeeps
<1>11. ASSUME NEW p \in Player, NEW i \in Item, UseItem(p, i) PROVE IInv'
  BY <1>11, UseItemKeeps
<1>12. ASSUME NEW p \in Player, PlayerWriteItem(p) PROVE IInv'
  BY <1>12, PlayerWriteItemKeeps
<1>13. QED
  BY <1>2, <1>3, <1>4, <1>5, <1>6, <1>7, <1>8, <1>9, <1>10, <1>11, <1>12 DEF Next

LEMMA StepKeeps == IInv /\ [Next]_vars => IInv'
<1> SUFFICES ASSUME IInv, [Next]_vars PROVE IInv'
  OBVIOUS
<1>1. CASE UNCHANGED vars
  <2>1. TradesAgree'
    BY <1>1, Agreed
       DEF vars, writing, TradesAgree, TypeOK, PartnersAreMutual, MapHoldsTheOffers, StateTellsOffer
  <2>2. place' = place /\ \A r \in Player : Offer(r)' = Offer(r)
    BY <1>1 DEF vars, Offer
  <2>3. QED
    BY <2>1, <2>2, Agreed, OffersKept
<1>2. QED
  BY <1>1, NextKeeps

LEMMA Invariance == Spec => []IInv
BY InitEstablishes, StepKeeps, PTL DEF Spec


----------------------------------------------------------------------------
(* What is on offer *)

\* Who trades with whom and what is on offer: a trade has two sides that are online, the
\* map holds exactly the offers, each is within reach of its owner and in no other.
THEOREM TradeIsSafe == Spec => []Inv
<1>1. IInv => Inv
  BY DEF IInv
<1>2. QED
  BY <1>1, Invariance, PTL

\* j is the offer of p or in it, before the step or after it.
PartOfOffer(p, j) ==
  \/ j = Offer(p)
  \/ Offer(p) \in HoldersIn(place, j)
  \/ Offer(p) \in HoldersIn(place', j)

StaysAsItIs(j) == place'[j] = place[j] /\ version'[j] = version[j]

\* An offer that a move of x does not call off neither is x nor gets x.
LEMMA MovedIsNoPart ==
  ASSUME IInv, NEW x \in Item, RootIn(place, x) # Gone,
         place' \in [Item -> Places], Moved(place, place', x),
         NEW p \in Player, Offer(p) # None,
         ~RemovalCloses(p, x), ~AdditionCloses(p, place'[x])
  PROVE  ~PartOfOffer(p, x)
<1>1. x # Offer(p) /\ Offer(p) \notin HoldersIn(place, x)
  BY Undisturbed
<1>2. ASSUME Offer(p) \in HoldersIn(place', x) PROVE FALSE
  <2>1. place'[x][1] = "in"
    BY <1>2, HoldersOf
  <2>2. PICK d \in Container : place'[x] = <<"in", d>>
    BY <2>1, PlaceIn
  <2>3. Offer(p) \in {d} \cup HoldersIn(place, d)
    BY <1>2, <2>2, Agreed, MoveKeepsAcyclic
  <2>4. AdditionCloses(p, place'[x])
    BY <2>2, <2>3, HoldersAre DEF AdditionCloses
  <2>5. QED
    BY <2>4
<1>3. QED
  BY <1>1, <1>2 DEF PartOfOffer

LEMMA MoveLeavesOffers ==
  ASSUME IInv, NEW x \in Item, RootIn(place, x) # Gone, version' = version,
         place' \in [Item -> Places], Moved(place, place', x),
         NEW S \in SUBSET Player, CloseTrades(S),
         \A r \in Player : RemovalCloses(r, x) => r \in S,
         \A r \in Player : AdditionCloses(r, place'[x]) => r \in S,
         NEW p \in Player, Offer(p) # None, trade'[p].item = Offer(p),
         NEW j \in Item, PartOfOffer(p, j)
  PROVE  StaysAsItIs(j)
<1>1. p \notin S
  BY Agreed, Survivors DEF TradesAgree
<1>2. j # x
  BY <1>1, MovedIsNoPart
<1>3. QED
  BY <1>2 DEF Moved, StaysAsItIs

LEMMA TransferLeavesOffers ==
  ASSUME IInv, NEW p \in Player, NEW q \in Player, Transfer(p, q),
         NEW r \in Player, Offer(r) # None, trade'[r].item = Offer(r),
         NEW j \in Item, PartOfOffer(r, j)
  PROVE  StaysAsItIs(j)
<1> DEFINE a == Offer(p)
           b == Offer(q)
<1>1. /\ a \in Item /\ b \in Item
      /\ version' = version /\ place' \in [Item -> Places]
      /\ \A k \in Item \ {a, b} : place'[k] = place[k]
      /\ place'[a][1] # "in"
      /\ place'[b] = place[b] \/ place'[b][1] # "in"
  BY TransferMoves, OwnPlaces
<1>2. PICK S \in SUBSET Player :
        /\ CloseTrades(S)
        /\ p \in S /\ q \in S
        /\ \A s \in Player \ {p, q} : RemovalCloses(s, a) \/ RemovalCloses(s, b) => s \in S
  BY TransferMoves
<1>3. r \notin S
  BY <1>2, Agreed, Survivors DEF TradesAgree
<1>4. r # p /\ r # q /\ ~RemovalCloses(r, a) /\ ~RemovalCloses(r, b)
  BY <1>2, <1>3
<1>5. RootIn(place, a) # Gone /\ RootIn(place, b) # Gone
  <2>1. a # None /\ b # None
    BY <1>1, TradeAssumption
  <2>2. QED
    BY <2>1, OfferIsThere
<1>6. /\ Offer(r) # a /\ Offer(r) \notin HoldersIn(place, a)
      /\ Offer(r) # b /\ Offer(r) \notin HoldersIn(place, b)
  BY <1>1, <1>4, <1>5, Undisturbed
<1>7. j # a
  <2>1. HoldersIn(place', a) = {}
    BY <1>1, HoldersOf
  <2>2. QED
    BY <1>6, <2>1 DEF PartOfOffer
<1>8. j = b => place'[b] = place[b]
  <2>1. SUFFICES ASSUME j = b, place'[b][1] # "in" PROVE FALSE
    BY <1>1
  <2>2. HoldersIn(place', b) = {}
    BY <1>1, <2>1, HoldersOf
  <2>3. QED
    BY <1>6, <2>1, <2>2 DEF PartOfOffer
<1>9. QED
  BY <1>1, <1>7, <1>8 DEF StaysAsItIs

LEMMA ChangeLeavesOffers ==
  ASSUME IInv, NEW x \in Item, Changed(x), place' = place,
         NEW p \in Player, Offer(p) # None, trade'[p].item = Offer(p),
         NEW j \in Item, PartOfOffer(p, j)
  PROVE  StaysAsItIs(j)
<1> DEFINE S == {r \in Player : Offer(r) # None /\ ChecksTrade(r, x)}
           new == 1 - version[x]
<1>1. version' = [version EXCEPT ![x] = new] /\ CloseTrades(S)
  BY DEF Changed
<1>2. S \in SUBSET Player
  OBVIOUS
<1>3. p \notin S
  <2> HIDE DEF S
  <2>1. QED
    BY <1>1, <1>2, Agreed, Survivors DEF TradesAgree
<1>4. ~ChecksTrade(p, x)
  BY <1>3
<1>5. j # x
  BY <1>1, <1>4, HoldersAre DEF PartOfOffer, ChecksTrade
<1>6. version \in [Item -> {0, 1}]
  BY DEF IInv, Inv, TypeOK
<1> HIDE DEF new
<1>7. QED
  BY <1>1, <1>5, <1>6 DEF StaysAsItIs

LEMMA NextLeavesOffers ==
  ASSUME IInv, Next,
         NEW p \in Player, Offer(p) # None, trade'[p].item = Offer(p),
         NEW j \in Item, PartOfOffer(p, j)
  PROVE  StaysAsItIs(j)
<1>1. CASE place' = place /\ version' = version
  BY <1>1 DEF StaysAsItIs
<1>2. ASSUME NEW q \in Player, NEW x \in Item, MoveItem(q, x) PROVE StaysAsItIs(j)
  BY <1>2, MoveItemKeeps, MoveLeavesOffers
<1>3. ASSUME NEW x \in Item, DestroyItem(x) PROVE StaysAsItIs(j)
  <2>1. place'[x] = Gone
    BY <1>3, Agreed DEF DestroyItem, Places
  <2>2. \A r \in Player : ~AdditionCloses(r, place'[x])
    BY <2>1 DEF AdditionCloses, Gone
  <2>3. QED
    BY <1>3, <2>2, DestroyItemKeeps, MoveLeavesOffers
<1>4. ASSUME NEW q \in Player, NEW r \in Player, Transfer(q, r) PROVE StaysAsItIs(j)
  BY <1>4, TransferLeavesOffers
<1>5. ASSUME NEW x \in Item, Changed(x), place' = place PROVE StaysAsItIs(j)
  BY <1>5, ChangeLeavesOffers
<1>6. ASSUME NEW x \in Item, ChangeItem(x) PROVE StaysAsItIs(j)
  BY <1>5, <1>6 DEF ChangeItem
<1>7. ASSUME NEW q \in Player, PlayerWriteItem(q) PROVE StaysAsItIs(j)
  <2>1. PICK x \in Item : x = writeItem[q]
    BY <1>7, PlayerWritesOn
  <2>2. QED
    BY <1>1, <1>5, <1>7, <2>1, PlayerWritesOn
<1>8. ASSUME NEW q \in Player, NEW r \in Player,
             \/ \E x \in Item : RequestTrade(q, r, x)
             \/ TransferFails(q, r) \/ AcceptFirst(q) \/ CloseTrade(q)
             \/ \E x \in Item : UseItem(q, x)
             \/ Move(q) \/ Logout(q) \/ Login(q)
      PROVE  place' = place /\ version' = version
  BY <1>8 DEF RequestTrade, TransferFails, AcceptFirst, CloseTrade, UseItem, Move, Logout, Login
<1>9. QED
  BY <1>1, <1>2, <1>3, <1>4, <1>6, <1>7, <1>8 DEF Next

\* A text changes only when somebody who reaches the item answers its window.
LEMMA TextIsWritten ==
  ASSUME IInv, Next, NEW j \in Item, text'[j] # text[j]
  PROVE  \E q \in Player : PlayerWriteItem(q) /\ Writes(q, j) /\ Reaches(q, j)
<1>1. ASSUME NEW q \in Player, PlayerWriteItem(q) PROVE Writes(q, j) /\ Reaches(q, j)
  <2>1. j = writeItem[q]
    BY <1>1, PlayerWritesOn
  <2>2. QED
    BY <1>1, <2>1, PlayerWritesOn DEF Writes
<1>2. ASSUME NEW q \in Player, NEW r \in Player, NEW x \in Item,
             RequestTrade(q, r, x) \/ Transfer(q, r) \/ TransferFails(q, r)
      PROVE  text' = text
  BY <1>2 DEF RequestTrade, Transfer, TransferFails, writing
<1>3. ASSUME NEW q \in Player, AcceptFirst(q) \/ CloseTrade(q) \/ Move(q) \/ Logout(q) \/ Login(q)
      PROVE  text' = text
  BY <1>3 DEF AcceptFirst, CloseTrade, Move, Logout, Login, writing
<1>4. ASSUME NEW q \in Player, NEW x \in Item,
             MoveItem(q, x) \/ UseItem(q, x)
      PROVE  text' = text
  BY <1>4 DEF MoveItem, UseItem, writing
<1>5. text' # text
  OBVIOUS
<1>6. \E q \in Player : PlayerWriteItem(q)
  <2>1. ASSUME NEW x \in Item, ChangeItem(x) \/ DestroyItem(x) PROVE text' = text
    BY <2>1 DEF ChangeItem, DestroyItem, writing
  <2>2. QED
    BY <1>2, <1>3, <1>4, <1>5, <2>1 DEF Next
<1>7. QED
  BY <1>1, <1>6

\* Who reaches something in p's offer is p, unless the offer lies on the ground.
LEMMA OwnerReachesOffer ==
  ASSUME IInv, NEW p \in Player, NEW q \in Player, Offer(p) # None,
         NEW j \in Item, j = Offer(p) \/ Offer(p) \in HoldersIn(place, j), Reaches(q, j)
  PROVE  Root(Offer(p)) = Ground \/ q = p
<1>1. Offer(p) \in Item /\ Reaches(p, Offer(p))
  BY Agreed, Types DEF TradesAgree, IInv, Inv, OfferIsReachable
<1>2. Root(j) = Root(Offer(p))
  BY Agreed, RootOfHolder, HoldersAre
<1>3. \A s, t \in {"slot", "pack"} : <<s, p>> = <<t, q>> => p = q
  OBVIOUS
<1>4. QED
  BY <1>1, <1>2, <1>3 DEF Reaches, OwnedBy

\* As long as a trade goes on nothing takes its item, or anything in it, from where it is, or
\* changes its count or its kind, and nothing is put into it; what its owner has nobody else
\* writes on.
THEOREM OffersAreLeftAlone == Spec => OfferStaysAsItIs
<1>1. IInv /\ [Next]_vars =>
        [\A p \in Player :
           \A i \in Item, j \in Item :
             (Offer(p) = i /\ trade'[p].item = i
                /\ (j = i \/ j \in Contents(i) \/ j \in Contents(i)')) =>
               /\ place'[j] = place[j] /\ version'[j] = version[j]
               /\ text'[j] # text[j] => Root(i) = Ground \/ Writes(p, j)]_vars
  <2> SUFFICES ASSUME IInv, Next, NEW p \in Player, NEW i \in Item, NEW j \in Item,
                      Offer(p) = i, trade'[p].item = i,
                      j = i \/ j \in Contents(i) \/ j \in Contents(i)'
               PROVE  /\ place'[j] = place[j] /\ version'[j] = version[j]
                      /\ text'[j] # text[j] => Root(i) = Ground \/ Writes(p, j)
    BY DEF vars
  <2>1. Offer(p) # None
    BY TradeAssumption
  <2>2. PartOfOffer(p, j)
    BY HoldersAre DEF PartOfOffer, Contents
  <2>3. StaysAsItIs(j)
    BY <2>1, <2>2, NextLeavesOffers
  <2>4. ASSUME text'[j] # text[j] PROVE Root(i) = Ground \/ Writes(p, j)
    <3>1. PICK q \in Player : PlayerWriteItem(q) /\ Writes(q, j) /\ Reaches(q, j)
      BY <2>4, TextIsWritten
    <3>2. place' = place
      BY <3>1, PlayerWritesOn
    <3>3. j = Offer(p) \/ Offer(p) \in HoldersIn(place, j)
      BY <2>2, <3>2 DEF PartOfOffer
    <3>4. Root(Offer(p)) = Ground \/ q = p
      BY <2>1, <3>1, <3>3, OwnerReachesOffer
    <3>5. QED
      BY <3>1, <3>4
  <2>5. QED
    BY <2>3, <2>4 DEF StaysAsItIs
<1>2. QED
  BY <1>1, Invariance, PTL DEF Spec, OfferStaysAsItIs

\* Either both items change hands or none does, unless the second is to go on a stack.
THEOREM BothOrNothing == Spec => SwapOrNothing
<1>1. IInv /\ [Next]_vars =>
        [\A p, q \in Player :
           (Transfer(p, q) /\ place' # place /\ Offer(q) \notin Stackable) =>
             place'[Offer(p)] \in Destinations(q) /\ place'[Offer(q)] \in Destinations(p)]_vars
  <2> SUFFICES ASSUME IInv, NEW p \in Player, NEW q \in Player, Transfer(p, q),
                      Offer(q) \notin Stackable
               PROVE  place'[Offer(p)] \in Destinations(q) /\ place'[Offer(q)] \in Destinations(p)
    OBVIOUS
  <2>1. QED
    BY TransferMoves
<1>2. QED
  BY <1>1, Invariance, PTL DEF Spec, SwapOrNothing

=============================================================================
