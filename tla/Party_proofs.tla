----------------------------- MODULE Party_proofs -----------------------------
(****************************************************************************)
(* Parties, for any players, levels and areas: the inductive invariant that *)
(* players and parties agree with each other, party by party; that every    *)
(* handler keeps it; and what follows for members, invitations and shared   *)
(* experience.                                                              *)
(****************************************************************************)
EXTENDS Party, Lists_proofs

PlayerRecords ==
  [online : BOOLEAN, party : Address \cup {None}, invitePartyList : SUBSET Address,
   level : Levels \cup {0}, area : Areas \cup {None}, points : {"none", "recent", "old"}]

PartyRecords ==
  [leader : Player \cup {None}, memberList : Seq(Player), inviteList : SUBSET Player,
   sharedExpActive : BOOLEAN, sharedExpEnabled : BOOLEAN]

\* The players and the list of invited players of the party r at g agree.  Nobody but
\* a leader that invited itself is both in a party and invited to it.
Agrees(pl, g, r) ==
  /\ \A x \in Player : pl[x].party = g <=> x \in Everybody(r)
  /\ \A x \in r.inviteList : g \in pl[x].invitePartyList
  /\ ~SelfInvites =>
       \A x \in Player : /\ g \in pl[x].invitePartyList => x \in r.inviteList
                         /\ x \in r.inviteList => x \notin Everybody(r)

\* What SharedExperienceIsDue says of one party.
DueFor(r, pl) ==
  r.sharedExpActive =>
    /\ r.sharedExpEnabled => CanEnable(r, pl, {"recent", "old"})
    /\ CanEnable(r, pl, {"recent"}) => r.sharedExpEnabled

\* A leader and different members.
Ranks(r) ==
  /\ r.leader \in Player
  /\ IsInjective(r.memberList)
  /\ r.leader \notin ToSet(r.memberList)

PartyGood(pl, g, r) ==
  /\ Agrees(pl, g, r)
  /\ r = NoParty \/ (Ranks(r) /\ DueFor(r, pl) /\ ~DisbandParty(r))

Typed(pl, pa) == pl \in [Player -> PlayerRecords] /\ pa \in [Address -> PartyRecords]

\* Whoever is not online has no part in any of this.
OfflineIsOut(pl) ==
  \A x \in Player : ~pl[x].online => pl[x].party = None /\ pl[x].invitePartyList = {}

\* All of it, but for the party at g.
GoodBut(pl, pa, g) ==
  /\ Typed(pl, pa) /\ OfflineIsOut(pl)
  /\ \A h \in Address \ {g} : PartyGood(pl, h, pa[h])

Good(pl, pa) ==
  /\ Typed(pl, pa) /\ OfflineIsOut(pl)
  /\ \A g \in Address : PartyGood(pl, g, pa[g])

IInv == Good(player, party)

-----------------------------------------------------------------------------
(* Shared experience *)

LEMMA Named ==
  /\ None \notin Player /\ None \notin Address /\ None \notin Areas
  /\ SelfInvites \in BOOLEAN
  /\ NoParty \in PartyRecords /\ Offline \in PlayerRecords
  /\ Everybody(NoParty) = {None}
<1>1. ToSet(<<>>) = {}
  BY DEF ToSet
<1>2. <<>> \in Seq(Player)
  OBVIOUS
<1> QED BY <1>1, <1>2, PartyAssumption
        DEF NoParty, Offline, PartyRecords, PlayerRecords, Everybody

LEMMA PartyFields ==
  ASSUME NEW r \in PartyRecords
  PROVE  /\ r.leader \in Player \cup {None} /\ r.memberList \in Seq(Player)
         /\ r.inviteList \subseteq Player
         /\ r.sharedExpActive \in BOOLEAN /\ r.sharedExpEnabled \in BOOLEAN
         /\ ToSet(r.memberList) \subseteq Player
         /\ r.leader \in Everybody(r) /\ ToSet(r.memberList) \subseteq Everybody(r)
<1>1. r.memberList \in Seq(Player)
  BY DEF PartyRecords
<1>2. ToSet(r.memberList) \subseteq Player
  BY <1>1 DEF ToSet
<1> QED BY <1>1, <1>2 DEF PartyRecords, Everybody

LEMMA PlayerFields ==
  ASSUME NEW x \in PlayerRecords
  PROVE  /\ x.online \in BOOLEAN /\ x.party \in Address \cup {None}
         /\ x.invitePartyList \subseteq Address
         /\ x.level \in Levels \cup {0} /\ x.area \in Areas \cup {None}
         /\ x.points \in {"none", "recent", "old"}
BY DEF PlayerRecords

\* Who qualifies depends on the leader, the members and what they are.
LEMMA SameQualify ==
  ASSUME NEW r, NEW t, NEW pl, NEW pl2, NEW good,
         t.leader = r.leader, t.memberList = r.memberList,
         \A q \in Everybody(r) : /\ pl2[q].level = pl[q].level /\ pl2[q].area = pl[q].area
                                 /\ pl2[q].points = pl[q].points
  PROVE  CanEnable(t, pl2, good) <=> CanEnable(r, pl, good)
<1>1. Everybody(t) = Everybody(r) /\ r.leader \in Everybody(r)
  BY DEF Everybody
<1>2. {pl2[q].level : q \in Everybody(t)} = {pl[q].level : q \in Everybody(r)}
  BY <1>1
<1>3. \A q \in Everybody(r) : CanUseSharedExperience(t, pl2, q, good)
                                <=> CanUseSharedExperience(r, pl, q, good)
  BY <1>1, <1>2 DEF CanUseSharedExperience
<1> QED BY <1>1, <1>3 DEF CanEnable

LEMMA SameDue ==
  ASSUME NEW r, NEW t, NEW pl, NEW pl2,
         t.leader = r.leader, t.memberList = r.memberList,
         t.sharedExpActive = r.sharedExpActive, t.sharedExpEnabled = r.sharedExpEnabled,
         \A q \in Everybody(r) : /\ pl2[q].level = pl[q].level /\ pl2[q].area = pl[q].area
                                 /\ pl2[q].points = pl[q].points,
         DueFor(r, pl)
  PROVE  DueFor(t, pl2)
BY SameQualify DEF DueFor

LEMMA RecentIsGood ==
  ASSUME NEW r, NEW pl, CanEnable(r, pl, {"recent"})
  PROVE  CanEnable(r, pl, {"recent", "old"})
BY DEF CanEnable, CanUseSharedExperience

\* What was recent is old now, for some.
LEMMA AgedIsDue ==
  ASSUME NEW r, NEW pl, NEW pl2,
         \A q \in Everybody(r) :
           /\ pl2[q].level = pl[q].level /\ pl2[q].area = pl[q].area
           /\ pl2[q].points = pl[q].points \/ (pl[q].points = "recent" /\ pl2[q].points = "old"),
         DueFor(r, pl)
  PROVE  DueFor(r, pl2)
<1>1. r.leader \in Everybody(r)
  BY DEF Everybody
<1>2. {pl2[q].level : q \in Everybody(r)} = {pl[q].level : q \in Everybody(r)}
  OBVIOUS
<1>3. CanEnable(r, pl2, {"recent"}) => CanEnable(r, pl, {"recent"})
  BY <1>1, <1>2 DEF CanEnable, CanUseSharedExperience
<1>4. CanEnable(r, pl, {"recent", "old"}) => CanEnable(r, pl2, {"recent", "old"})
  BY <1>1, <1>2 DEF CanEnable, CanUseSharedExperience
<1> QED BY <1>3, <1>4 DEF DueFor

LEMMA UpdatedIs ==
  ASSUME NEW r \in PartyRecords, NEW pl
  PROVE  /\ Updated(r, pl) \in PartyRecords
         /\ Updated(r, pl).leader = r.leader /\ Updated(r, pl).memberList = r.memberList
         /\ Updated(r, pl).inviteList = r.inviteList
         /\ Updated(r, pl).sharedExpActive = r.sharedExpActive
         /\ Everybody(Updated(r, pl)) = Everybody(r)
         /\ DueFor(Updated(r, pl), pl)
<1> DEFINE t == [r EXCEPT !.sharedExpEnabled = CanEnable(r, pl, {"recent"})]
<1>0. CanEnable(r, pl, {"recent"}) \in BOOLEAN
  BY DEF CanEnable
<1>1. /\ t \in PartyRecords /\ t.leader = r.leader /\ t.memberList = r.memberList
      /\ t.inviteList = r.inviteList /\ t.sharedExpActive = r.sharedExpActive
      /\ t.sharedExpEnabled = CanEnable(r, pl, {"recent"})
  BY <1>0 DEF PartyRecords
<1> HIDE DEF t
<1>2. \A good \in {{"recent"}, {"recent", "old"}} :
        CanEnable(t, pl, good) <=> CanEnable(r, pl, good)
  BY <1>1, SameQualify
<1>3. DueFor(t, pl)
  BY <1>0, <1>1, <1>2, RecentIsGood DEF DueFor
<1>4. Updated(r, pl) = IF r.sharedExpActive THEN t ELSE r
  BY DEF Updated, t
<1>5. ~r.sharedExpActive => DueFor(r, pl)
  BY DEF DueFor
<1> QED BY <1>1, <1>3, <1>4, <1>5 DEF Everybody

-----------------------------------------------------------------------------
(* A party that a step leaves alone *)

\* What the step does to players does not matter to the party r at g.
SameFor(g, r, pl, pl2) ==
  \A x \in Player :
    /\ pl2[x].party = g <=> pl[x].party = g
    /\ x \in r.inviteList => g \in pl2[x].invitePartyList
    /\ g \in pl2[x].invitePartyList => g \in pl[x].invitePartyList
    /\ pl[x].party = g => /\ pl2[x].level = pl[x].level /\ pl2[x].area = pl[x].area
                          /\ pl2[x].points = pl[x].points

LEMMA LeftAlone ==
  ASSUME NEW g, NEW r \in PartyRecords, NEW pl, NEW pl2,
         PartyGood(pl, g, r), SameFor(g, r, pl, pl2)
  PROVE  PartyGood(pl2, g, r)
<1>1. Agrees(pl2, g, r)
  BY PartyFields DEF PartyGood, Agrees, SameFor
<1>2. ASSUME r # NoParty
      PROVE  DueFor(r, pl2)
  <2>1. \A q \in Everybody(r) : q \in Player /\ pl[q].party = g
    BY <1>2, PartyFields DEF PartyGood, Agrees, Ranks, Everybody
  <2> QED BY <1>2, <2>1, SameDue DEF PartyGood, SameFor
<1> QED BY <1>1, <1>2 DEF PartyGood

\* NoParty is good where no player knows of a party.
LEMMA NobodyThere ==
  ASSUME NEW g, NEW pl,
         \A x \in Player : pl[x].party # g,
         ~SelfInvites => \A x \in Player : g \notin pl[x].invitePartyList
  PROVE  PartyGood(pl, g, NoParty)
<1>1. NoParty.inviteList = {}
  BY DEF NoParty
<1> QED BY <1>1, Named DEF PartyGood, Agrees

-----------------------------------------------------------------------------
(* The end of a party *)

\* What players lose, and only that.
Shrinks(pl, pl2) ==
  \A x \in Player : /\ pl2[x].online = pl[x].online
                    /\ pl2[x].party \in {pl[x].party, None}
                    /\ pl2[x].invitePartyList \subseteq pl[x].invitePartyList

LEMMA ShrinksOn ==
  ASSUME NEW pl, NEW pl2, NEW pl3, Shrinks(pl, pl2), Shrinks(pl2, pl3)
  PROVE  Shrinks(pl, pl3)
BY DEF Shrinks

LEMMA StillOut ==
  ASSUME NEW pl, NEW pl2, OfflineIsOut(pl), Shrinks(pl, pl2)
  PROVE  OfflineIsOut(pl2)
BY DEF OfflineIsOut, Shrinks

\* The party r at g can end: leaveParty() has the leader forget it first.
Disbandable(pl, g, r) ==
  \A x \in Player :
    /\ pl[x].party = g => x \in Everybody(r)
    /\ x \in Everybody(r) => pl[x].party \in {g, None}
    /\ ~SelfInvites /\ g \in pl[x].invitePartyList => x \in r.inviteList

LEMMA DisbandedIsGood ==
  ASSUME NEW s, NEW g \in Address, GoodBut(s.player, s.party, g),
         Disbandable(s.player, g, s.party[g])
  PROVE  /\ Good(Disbanded(s, g).player, Disbanded(s, g).party)
         /\ Shrinks(s.player, Disbanded(s, g).player)
<1> DEFINE r == s.party[g]
           Uninvite(p) == IF p \in r.inviteList
                          THEN [s.player[p] EXCEPT !.invitePartyList = @ \ {g}]
                          ELSE s.player[p]
           Forget(p) == IF p \in Everybody(r)
                        THEN [Uninvite(p) EXCEPT !.party = None, !.points = "none"]
                        ELSE Uninvite(p)
           pl == s.player
           pl2 == [p \in Player |-> Forget(p)]
           pa2 == [s.party EXCEPT ![g] = NoParty]
<1>1. Disbanded(s, g).player = pl2 /\ Disbanded(s, g).party = pa2
  BY DEF Disbanded
<1>2. ASSUME NEW p \in Player
      PROVE  /\ pl2[p] \in PlayerRecords
             /\ pl2[p].online = pl[p].online
             /\ pl2[p].level = pl[p].level /\ pl2[p].area = pl[p].area
             /\ pl2[p].party = IF p \in Everybody(r) THEN None ELSE pl[p].party
             /\ p \notin Everybody(r) => pl2[p].points = pl[p].points
             /\ pl2[p].invitePartyList = IF p \in r.inviteList THEN pl[p].invitePartyList \ {g}
                                         ELSE pl[p].invitePartyList
  <2>1. pl[p] \in PlayerRecords
    BY DEF GoodBut, Typed
  <2>2. /\ Uninvite(p) \in PlayerRecords
        /\ Uninvite(p).online = pl[p].online
        /\ Uninvite(p).level = pl[p].level /\ Uninvite(p).area = pl[p].area
        /\ Uninvite(p).party = pl[p].party /\ Uninvite(p).points = pl[p].points
        /\ Uninvite(p).invitePartyList = IF p \in r.inviteList
                                        THEN pl[p].invitePartyList \ {g}
                                        ELSE pl[p].invitePartyList
    BY <2>1 DEF PlayerRecords
  <2> HIDE DEF Uninvite, r, pl
  <2>3. /\ Forget(p) \in PlayerRecords
        /\ Forget(p).online = Uninvite(p).online
        /\ Forget(p).level = Uninvite(p).level /\ Forget(p).area = Uninvite(p).area
        /\ Forget(p).party = IF p \in Everybody(r) THEN None ELSE Uninvite(p).party
        /\ p \notin Everybody(r) => Forget(p).points = Uninvite(p).points
        /\ Forget(p).invitePartyList = Uninvite(p).invitePartyList
    BY <2>2 DEF PlayerRecords
  <2> HIDE DEF Forget
  <2> QED BY <2>2, <2>3
<1>3. pa2 \in [Address -> PartyRecords] /\ pa2[g] = NoParty
      /\ \A h \in Address \ {g} : pa2[h] = s.party[h]
  BY Named DEF GoodBut, Typed
<1>4. pl2 \in [Player -> PlayerRecords]
  <2> HIDE DEF Forget
  <2>1. \A p \in Player : pl2[p] = Forget(p)
    OBVIOUS
  <2>2. \A p \in Player : Forget(p) \in PlayerRecords
    BY <1>2, <2>1
  <2> QED BY <2>2
<1> HIDE DEF pl2, pa2, Forget, Uninvite
<1>5. Shrinks(pl, pl2)
  BY <1>2 DEF Shrinks
<1>6. OfflineIsOut(pl2)
  BY <1>5, StillOut DEF GoodBut
<1>7. ASSUME NEW h \in Address \ {g}
      PROVE  PartyGood(pl2, h, pa2[h])
  <2>1. PartyGood(pl, h, s.party[h]) /\ s.party[h] \in PartyRecords
    BY DEF GoodBut, Typed
  <2>2. SameFor(h, s.party[h], pl, pl2)
    <3>1. \A x \in s.party[h].inviteList : h \in pl[x].invitePartyList
      BY <2>1 DEF PartyGood, Agrees
    <3>2. h # None
      BY Named
    <3>3. \A x \in Player : x \in Everybody(r) => pl[x].party \in {g, None}
      BY DEF Disbandable
    <3> QED BY <1>2, <3>1, <3>2, <3>3 DEF SameFor
  <2> QED BY <1>3, <2>1, <2>2, LeftAlone
<1>8. PartyGood(pl2, g, pa2[g])
  <2>1. \A x \in Player : pl2[x].party # g
    BY <1>2, Named DEF Disbandable
  <2>2. ~SelfInvites => \A x \in Player : g \notin pl2[x].invitePartyList
    BY <1>2 DEF Disbandable
  <2> QED BY <1>3, <2>1, <2>2, NobodyThere
<1> QED BY <1>1, <1>3, <1>4, <1>5, <1>6, <1>7, <1>8 DEF Good, Typed

\* The check of every operation that takes somebody away.
LEMMA DisbandedIfEmptyIsGood ==
  ASSUME NEW s, NEW g \in Address, GoodBut(s.player, s.party, g),
         Agrees(s.player, g, s.party[g]),
         Ranks(s.party[g]), DueFor(s.party[g], s.player)
  PROVE  /\ Good(DisbandedIfEmpty(s, g).player, DisbandedIfEmpty(s, g).party)
         /\ Shrinks(s.player, DisbandedIfEmpty(s, g).player)
<1>1. CASE DisbandParty(s.party[g])
  <2>1. Disbandable(s.player, g, s.party[g])
    BY DEF Agrees, Disbandable
  <2> QED BY <1>1, <2>1, DisbandedIsGood DEF DisbandedIfEmpty
<1>2. CASE ~DisbandParty(s.party[g])
  <2>1. PartyGood(s.player, g, s.party[g])
    BY <1>2 DEF PartyGood
  <2>2. Good(s.player, s.party)
    BY <2>1 DEF Good, GoodBut
  <2> QED BY <1>2, <2>2 DEF DisbandedIfEmpty, Shrinks
<1> QED BY <1>1, <1>2

-----------------------------------------------------------------------------
(* Those who leave *)

LEMMA GoodParty ==
  ASSUME NEW pl, NEW pa, Good(pl, pa), NEW g \in Address
  PROVE  /\ GoodBut(pl, pa, g) /\ PartyGood(pl, g, pa[g]) /\ pa[g] \in PartyRecords
         /\ pa[g] # NoParty => Ranks(pa[g]) /\ DueFor(pa[g], pl)
BY DEF Good, GoodBut, Typed, PartyGood

\* Whoever is in a party or invited to one is so to a party that is there.
LEMMA PartyIsThere ==
  ASSUME NEW pl, NEW pa, Good(pl, pa), NEW p \in Player, NEW g \in Address,
         pl[p].party = g \/ p \in pa[g].inviteList
  PROVE  pa[g] # NoParty
<1>1. pl[p].party = g => p \in Everybody(pa[g])
  BY DEF Good, PartyGood, Agrees
<1>2. NoParty.inviteList = {}
  BY DEF NoParty
<1> QED BY <1>1, <1>2, Named

LEMMA UninvitedIsGood ==
  ASSUME NEW s, Good(s.player, s.party), NEW p \in Player, NEW g \in Address
  PROVE  Good(Uninvited(s, g, p).player, Uninvited(s, g, p).party)
<1> SUFFICES ASSUME p \in s.party[g].inviteList
             PROVE  Good(Uninvited(s, g, p).player, Uninvited(s, g, p).party)
  BY DEF Uninvited
<1> DEFINE pl == s.player
           r == s.party[g]
           q == [pl[p] EXCEPT !.invitePartyList = @ \ {g}]
           t == [r EXCEPT !.inviteList = @ \ {p}]
           pl2 == [s.player EXCEPT ![p].invitePartyList = @ \ {g}]
           pa2 == [s.party EXCEPT ![g].inviteList = @ \ {p}]
           u == [player |-> pl2, party |-> pa2]
<1>1. Uninvited(s, g, p) = DisbandedIfEmpty(u, g)
  BY DEF Uninvited
<1>2. pl \in [Player -> PlayerRecords] /\ s.party \in [Address -> PartyRecords]
  BY DEF Good, Typed
<1>3. /\ q \in PlayerRecords /\ q.online = pl[p].online /\ q.party = pl[p].party
      /\ q.invitePartyList = pl[p].invitePartyList \ {g}
      /\ q.level = pl[p].level /\ q.area = pl[p].area /\ q.points = pl[p].points
  BY <1>2 DEF PlayerRecords
<1>4. /\ t \in PartyRecords /\ t.leader = r.leader /\ t.memberList = r.memberList
      /\ t.inviteList = r.inviteList \ {p}
      /\ t.sharedExpActive = r.sharedExpActive /\ t.sharedExpEnabled = r.sharedExpEnabled
  BY <1>2 DEF PartyRecords
<1>5. pl2 = [pl EXCEPT ![p] = q] /\ pa2 = [s.party EXCEPT ![g] = t]
  OBVIOUS
<1> HIDE DEF q, t
<1>6. /\ pl2 \in [Player -> PlayerRecords] /\ pl2[p] = q
      /\ \A x \in Player \ {p} : pl2[x] = pl[x]
  BY <1>2, <1>3, <1>5
<1>7. /\ pa2 \in [Address -> PartyRecords] /\ pa2[g] = t
      /\ \A h \in Address \ {g} : pa2[h] = s.party[h]
  BY <1>2, <1>4, <1>5
<1>8. u.player = pl2 /\ u.party = pa2
  OBVIOUS
<1> HIDE DEF pl2, pa2, u
<1>9. Shrinks(pl, pl2)
  BY <1>3, <1>6 DEF Shrinks
<1>10. r # NoParty
  BY PartyIsThere
<1>11. GoodBut(pl2, pa2, g)
  <2>1. OfflineIsOut(pl2)
    BY <1>9, StillOut DEF Good
  <2>2. ASSUME NEW h \in Address \ {g}
        PROVE  PartyGood(pl2, h, pa2[h])
    <3>1. PartyGood(pl, h, s.party[h]) /\ s.party[h] \in PartyRecords
      BY <1>2 DEF Good
    <3>2. SameFor(h, s.party[h], pl, pl2)
      BY <1>3, <1>6, <3>1 DEF SameFor, PartyGood, Agrees
    <3> QED BY <1>7, <3>1, <3>2, LeftAlone
  <2> QED BY <1>6, <1>7, <2>1, <2>2 DEF GoodBut, Typed
<1>12. Agrees(pl2, g, t) /\ Ranks(t) /\ DueFor(t, pl2)
  <2>1. PartyGood(pl, g, r) /\ Ranks(r) /\ DueFor(r, pl)
    BY <1>10, GoodParty
  <2>2. Everybody(t) = Everybody(r)
    BY <1>4 DEF Everybody
  <2>3. Agrees(pl2, g, t)
    <3>1. Agrees(pl, g, r)
      BY <2>1 DEF PartyGood
    <3>2. r.inviteList \subseteq Player
      BY <1>2, PartyFields
    <3> HIDE DEF pl, r
    <3>3. \A x \in Player : pl2[x].party = g <=> x \in Everybody(t)
      BY <1>3, <1>6, <2>2, <3>1 DEF Agrees
    <3>4. \A x \in t.inviteList : g \in pl2[x].invitePartyList
      BY <1>4, <1>6, <3>1, <3>2 DEF Agrees
    <3>5. ASSUME ~SelfInvites, NEW x \in Player
          PROVE  /\ g \in pl2[x].invitePartyList => x \in t.inviteList
                 /\ x \in t.inviteList => x \notin Everybody(t)
      BY <1>3, <1>4, <1>6, <2>2, <3>1, <3>5 DEF Agrees
    <3> QED BY <3>3, <3>4, <3>5 DEF Agrees
  <2>4. Ranks(t)
    BY <1>4, <2>1 DEF Ranks
  <2>5. \A x \in Player : /\ pl2[x].level = pl[x].level /\ pl2[x].area = pl[x].area
                          /\ pl2[x].points = pl[x].points
    BY <1>3, <1>6
  <2>6. Everybody(r) \subseteq Player
    BY <1>2, <2>1, PartyFields DEF Everybody, Ranks
  <2>7. DueFor(t, pl2)
    BY <1>4, <2>1, <2>5, <2>6, SameDue
  <2> QED BY <2>3, <2>4, <2>7
<1> QED BY <1>1, <1>7, <1>8, <1>11, <1>12, DisbandedIfEmptyIsGood

LEMMA PassedIs ==
  ASSUME NEW r \in PartyRecords, NEW pl, Ranks(r), NEW q \in ToSet(r.memberList)
  PROVE  /\ Passed(r, pl, q) \in PartyRecords
         /\ Ranks(Passed(r, pl, q)) /\ DueFor(Passed(r, pl, q), pl)
         /\ Passed(r, pl, q).leader = q
         /\ Passed(r, pl, q).memberList # <<>>
         /\ Everybody(Passed(r, pl, q)) = Everybody(r)
         /\ ToSet(Passed(r, pl, q).memberList) = (ToSet(r.memberList) \ {q}) \cup {r.leader}
         /\ Passed(r, pl, q).inviteList = r.inviteList
<1> DEFINE rest == RemoveFirst(r.memberList, q)
           list == <<r.leader>> \o rest
           t == [r EXCEPT !.leader = q, !.memberList = list]
<1>1. r.memberList \in Seq(Player) /\ r.leader \in Player /\ q \in Player
  BY PartyFields DEF Ranks
<1>2. rest \in Seq(Player) /\ IsInjective(rest) /\ ToSet(rest) = ToSet(r.memberList) \ {q}
  BY <1>1, RemovedFirst DEF Ranks
<1> HIDE DEF rest
<1>3. r.leader \notin ToSet(rest)
  BY <1>2 DEF Ranks
<1>4. /\ list \in Seq(Player) /\ list # <<>> /\ IsInjective(list)
      /\ ToSet(list) = ToSet(rest) \cup {r.leader}
  BY <1>1, <1>2, <1>3, Prefixed
<1> HIDE DEF list
<1>5. t \in PartyRecords /\ t.leader = q /\ t.memberList = list /\ t.inviteList = r.inviteList
  BY <1>1, <1>4 DEF PartyRecords
<1>6. Passed(r, pl, q) = Updated(t, pl)
  BY DEF Passed, t, list, rest
<1> HIDE DEF t
<1>7. q \notin ToSet(list)
  BY <1>2, <1>4 DEF Ranks
<1>8. Everybody(t) = Everybody(r)
  BY <1>2, <1>4, <1>5 DEF Everybody
<1> QED BY <1>1, <1>2, <1>4, <1>5, <1>6, <1>7, <1>8, UpdatedIs DEF Ranks

LEMMA LeftIsGood ==
  ASSUME NEW s, Good(s.player, s.party), NEW p \in Player, s.player[p].party # None
  PROVE  /\ Good(Left(s, p).player, Left(s, p).party)
         /\ Shrinks(s.player, Left(s, p).player)
         /\ Left(s, p).player[p].party = None
<1> DEFINE pl == s.player
           g == s.player[p].party
           r == s.party[g]
           alone == r.leader = p /\ (r.memberList = <<>>
                                     \/ (Len(r.memberList) = 1 /\ r.inviteList = {}))
           passed == IF r.leader = p /\ ~alone THEN Passed(r, s.player, Head(r.memberList)) ELSE r
           pl2 == [s.player EXCEPT ![p].party = None, ![p].points = "none"]
           t == [passed EXCEPT !.memberList = RemoveFirst(@, p), !.inviteList = @ \ {p}]
           rest == Updated(t, pl2)
           left == [player |-> pl2, party |-> [s.party EXCEPT ![g] = rest]]
           q == [pl[p] EXCEPT !.party = None, !.points = "none"]
<1>1. Left(s, p) = IF alone THEN Disbanded(left, g) ELSE DisbandedIfEmpty(left, g)
  BY DEF Left
<1>2. pl \in [Player -> PlayerRecords] /\ s.party \in [Address -> PartyRecords]
  BY DEF Good, Typed
<1>3. g \in Address
  BY <1>2, PlayerFields
<1>4. r \in PartyRecords /\ r # NoParty
  BY <1>2, <1>3, PartyIsThere
<1>5. PartyGood(pl, g, r) /\ Ranks(r) /\ Agrees(pl, g, r)
  BY <1>3, <1>4, GoodParty DEF PartyGood
<1>6. /\ q \in PlayerRecords /\ q.online = pl[p].online /\ q.party = None
      /\ q.invitePartyList = pl[p].invitePartyList
  BY <1>2 DEF PlayerRecords
<1>7. pl2 = [pl EXCEPT ![p] = q]
  BY <1>2
<1> HIDE DEF q
<1>8. /\ pl2 \in [Player -> PlayerRecords] /\ pl2[p] = q
      /\ \A x \in Player \ {p} : pl2[x] = pl[x]
  BY <1>2, <1>6, <1>7
<1> HIDE DEF pl2
<1>9. p \in Everybody(r) /\ Everybody(r) \subseteq Player
  BY <1>4, <1>5, PartyFields DEF Agrees, Ranks, Everybody
<1>10. /\ passed \in PartyRecords /\ Ranks(passed)
       /\ Everybody(passed) = Everybody(r) /\ passed.inviteList = r.inviteList
       /\ alone => passed = r
       /\ ~alone => passed.leader # p
  <2>1. CASE r.leader = p /\ ~alone
    <3> DEFINE h == Head(r.memberList)
    <3>1. r.memberList \in Seq(Player) /\ r.memberList # <<>>
      BY <1>4, <2>1, PartyFields
    <3>2. h \in ToSet(r.memberList)
      BY <3>1 DEF ToSet
    <3>3. h # p
      BY <1>5, <2>1, <3>2 DEF Ranks
    <3>4. passed = Passed(r, s.player, h)
      BY <2>1
    <3> HIDE DEF h, passed, r, pl
    <3> DEFINE u == Passed(r, s.player, h)
    <3>5. /\ u \in PartyRecords /\ Ranks(u) /\ u.leader = h
          /\ Everybody(u) = Everybody(r) /\ u.inviteList = r.inviteList
      BY <1>4, <1>5, <3>2, PassedIs
    <3> HIDE DEF u
    <3> QED BY <2>1, <3>3, <3>4, <3>5 DEF u
  <2>2. CASE ~(r.leader = p /\ ~alone)
    BY <1>4, <1>5, <2>2
  <2> QED BY <2>1, <2>2
<1> HIDE DEF passed
<1>11. /\ t \in PartyRecords /\ t.leader = passed.leader
       /\ t.memberList = RemoveFirst(passed.memberList, p)
       /\ t.inviteList = r.inviteList \ {p}
       /\ IsInjective(t.memberList)
       /\ ToSet(t.memberList) = ToSet(passed.memberList) \ {p}
  <2>1. passed.memberList \in Seq(Player) /\ IsInjective(passed.memberList)
    BY <1>10, PartyFields DEF Ranks
  <2> DEFINE list == RemoveFirst(passed.memberList, p)
  <2>2. /\ list \in Seq(Player) /\ IsInjective(list)
        /\ ToSet(list) = ToSet(passed.memberList) \ {p}
    BY <2>1, RemovedFirst
  <2>3. t = [passed EXCEPT !.memberList = list, !.inviteList = @ \ {p}]
    BY <1>10 DEF PartyRecords
  <2> HIDE DEF list, t
  <2>4. /\ t \in PartyRecords /\ t.leader = passed.leader /\ t.memberList = list
        /\ t.inviteList = passed.inviteList \ {p}
    BY <1>10, <2>2, <2>3 DEF PartyRecords
  <2> QED BY <1>10, <2>2, <2>4 DEF list
<1> HIDE DEF t
<1>12. /\ rest \in PartyRecords /\ rest.leader = passed.leader
       /\ rest.memberList = t.memberList /\ rest.inviteList = r.inviteList \ {p}
       /\ Everybody(rest) = Everybody(t)
       /\ DueFor(rest, pl2)
  BY <1>11, UpdatedIs
<1> HIDE DEF rest
<1> DEFINE pa2 == [s.party EXCEPT ![g] = rest]
<1>13. left.player = pl2 /\ left.party = pa2
  OBVIOUS
<1>14. /\ pa2 \in [Address -> PartyRecords] /\ pa2[g] = rest
       /\ \A h \in Address \ {g} : pa2[h] = s.party[h]
  BY <1>2, <1>3, <1>12
<1> HIDE DEF left, pa2
<1>15. Shrinks(pl, pl2)
  BY <1>6, <1>8 DEF Shrinks
<1>16. GoodBut(pl2, pa2, g)
  <2>1. OfflineIsOut(pl2)
    BY <1>15, StillOut DEF Good
  <2>2. ASSUME NEW h \in Address \ {g}
        PROVE  PartyGood(pl2, h, pa2[h])
    <3>1. PartyGood(pl, h, s.party[h]) /\ s.party[h] \in PartyRecords
      BY <1>2 DEF Good
    <3>2. h # None /\ h # pl[p].party
      BY Named
    <3>3. \A x \in s.party[h].inviteList : h \in pl[x].invitePartyList
      BY <3>1 DEF PartyGood, Agrees
    <3>4. SameFor(h, s.party[h], pl, pl2)
      BY <1>6, <1>8, <3>2, <3>3 DEF SameFor
    <3> QED BY <1>14, <3>1, <3>4, LeftAlone
  <2> QED BY <1>8, <1>14, <2>1, <2>2 DEF GoodBut, Typed
<1>17. ~SelfInvites => \A x \in Player : g \in pl2[x].invitePartyList => x \in rest.inviteList
  <2>1. ~SelfInvites => p \notin r.inviteList
    BY <1>5, <1>9 DEF Agrees
  <2> QED BY <1>5, <1>6, <1>8, <1>12, <2>1 DEF Agrees
<1>18. CASE alone
  <2>1. Everybody(rest) = Everybody(r)
    <3>1. p \notin ToSet(r.memberList)
      BY <1>5, <1>18 DEF Ranks
    <3> QED BY <1>10, <1>11, <1>12, <1>18, <3>1 DEF Everybody
  <2>2. Disbandable(pl2, g, rest)
    BY <1>5, <1>6, <1>8, <1>17, <2>1, Named DEF Agrees, Disbandable
  <2>3. /\ Good(Disbanded(left, g).player, Disbanded(left, g).party)
        /\ Shrinks(pl2, Disbanded(left, g).player)
    BY <1>3, <1>13, <1>14, <1>16, <2>2, DisbandedIsGood
  <2>4. Left(s, p) = Disbanded(left, g)
    BY <1>1, <1>18
  <2> DEFINE u == Left(s, p)
  <2>10. Good(u.player, u.party) /\ Shrinks(pl2, u.player)
    BY <2>3, <2>4
  <2>11. Shrinks(pl, u.player)
    BY <1>15, <2>10, ShrinksOn
  <2>12. u.player[p].party = None
    BY <1>6, <1>8, <2>10 DEF Shrinks
  <2> QED BY <2>10, <2>11, <2>12
<1>19. CASE ~alone
  <2>1. Everybody(rest) = Everybody(r) \ {p}
    BY <1>10, <1>11, <1>12, <1>19 DEF Everybody
  <2>2. Ranks(rest)
    BY <1>10, <1>11, <1>12 DEF Ranks
  <2>3. Agrees(pl2, g, rest)
    <3>1. \A x \in Player : pl2[x].party = g <=> x \in Everybody(rest)
      BY <1>3, <1>5, <1>6, <1>8, <2>1, Named DEF Agrees
    <3>2. r.inviteList \subseteq Player
      BY <1>4, PartyFields
    <3>3. \A x \in rest.inviteList : g \in pl2[x].invitePartyList
      BY <1>5, <1>8, <1>12, <3>2 DEF Agrees
    <3>4. ~SelfInvites => \A x \in Player : x \in rest.inviteList => x \notin Everybody(rest)
      BY <1>5, <1>12, <2>1 DEF Agrees
    <3> QED BY <1>17, <3>1, <3>3, <3>4 DEF Agrees
  <2>4. /\ Good(DisbandedIfEmpty(left, g).player, DisbandedIfEmpty(left, g).party)
        /\ Shrinks(pl2, DisbandedIfEmpty(left, g).player)
    BY <1>3, <1>12, <1>13, <1>14, <1>16, <2>2, <2>3, DisbandedIfEmptyIsGood
  <2>5. Left(s, p) = DisbandedIfEmpty(left, g)
    BY <1>1, <1>19
  <2> DEFINE u == Left(s, p)
  <2>10. Good(u.player, u.party) /\ Shrinks(pl2, u.player)
    BY <2>4, <2>5
  <2>11. Shrinks(pl, u.player)
    BY <1>15, <2>10, ShrinksOn
  <2>12. u.player[p].party = None
    BY <1>6, <1>8, <2>10 DEF Shrinks
  <2> QED BY <2>10, <2>11, <2>12
<1> QED BY <1>18, <1>19

LEMMA ClearedIsGood ==
  ASSUME NEW s, Good(s.player, s.party), NEW p \in Player
  PROVE  /\ Good(Cleared(s, p).player, Cleared(s, p).party)
         /\ Shrinks(s.player, Cleared(s, p).player)
         /\ Cleared(s, p).player[p].invitePartyList = {}
<1> DEFINE pl == s.player
           pa == s.party
           t(g) == [s.party[g] EXCEPT !.inviteList = @ \ {p}]
           rest == [g \in Address |-> t(g)]
           invited == {g \in s.player[p].invitePartyList : p \in s.party[g].inviteList}
           ended == {g \in invited : DisbandParty(rest[g])}
           InEnded(q) == \E g \in ended : q \in Everybody(rest[g])
           Forget(q) == IF InEnded(q)
                        THEN [s.player[q] EXCEPT !.party = None, !.points = "none"]
                        ELSE s.player[q]
           New(q) == IF q = p THEN [Forget(q) EXCEPT !.invitePartyList = {}] ELSE Forget(q)
           pl2 == [q \in Player |-> New(q)]
           pa2 == [g \in Address |-> IF g \in ended THEN NoParty
                                     ELSE IF g \in invited THEN rest[g] ELSE s.party[g]]
<1>1. Cleared(s, p).player = pl2 /\ Cleared(s, p).party = pa2
  BY DEF Cleared
<1>2. pl \in [Player -> PlayerRecords] /\ pa \in [Address -> PartyRecords]
  BY DEF Good, Typed
<1>3. invited \subseteq Address /\ ended \subseteq invited
  BY <1>2, PlayerFields
<1>4. ASSUME NEW g \in Address
      PROVE  /\ rest[g] \in PartyRecords /\ rest[g].leader = pa[g].leader
             /\ rest[g].memberList = pa[g].memberList
             /\ rest[g].inviteList = pa[g].inviteList \ {p}
             /\ rest[g].sharedExpActive = pa[g].sharedExpActive
             /\ rest[g].sharedExpEnabled = pa[g].sharedExpEnabled
             /\ Everybody(rest[g]) = Everybody(pa[g])
  <2>1. pa[g] \in PartyRecords /\ rest[g] = t(g)
    BY <1>2
  <2> HIDE DEF rest
  <2>2. /\ t(g) \in PartyRecords /\ t(g).leader = pa[g].leader
        /\ t(g).memberList = pa[g].memberList
        /\ t(g).inviteList = pa[g].inviteList \ {p}
        /\ t(g).sharedExpActive = pa[g].sharedExpActive
        /\ t(g).sharedExpEnabled = pa[g].sharedExpEnabled
    BY <2>1 DEF PartyRecords
  <2> HIDE DEF t
  <2> QED BY <2>1, <2>2 DEF Everybody
<1>5. \A g \in Address : Agrees(pl, g, pa[g])
  BY DEF Good, PartyGood
<1>6. \A q \in Player : InEnded(q) => pl[q].party \in ended
  <2> HIDE DEF rest, ended, pl, pa
  <2> QED BY <1>3, <1>4, <1>5 DEF Agrees
<1>7. \A q \in Player : pl[q].party \in ended => InEnded(q)
  <2> HIDE DEF rest, ended, pl, pa
  <2> QED BY <1>3, <1>4, <1>5 DEF Agrees
<1> HIDE DEF rest, t
<1>8. ASSUME NEW q \in Player
      PROVE  /\ pl2[q] \in PlayerRecords /\ pl2[q].online = pl[q].online
             /\ pl2[q].level = pl[q].level /\ pl2[q].area = pl[q].area
             /\ pl2[q].party = IF pl[q].party \in ended THEN None ELSE pl[q].party
             /\ pl[q].party \notin ended => pl2[q].points = pl[q].points
             /\ pl2[q].invitePartyList = IF q = p THEN {} ELSE pl[q].invitePartyList
  <2>1. InEnded(q) <=> pl[q].party \in ended
    BY <1>6, <1>7
  <2>2. pl[q] \in PlayerRecords
    BY <1>2
  <2> HIDE DEF ended, InEnded
  <2>3. /\ Forget(q) \in PlayerRecords /\ Forget(q).online = pl[q].online
        /\ Forget(q).level = pl[q].level /\ Forget(q).area = pl[q].area
        /\ Forget(q).party = IF pl[q].party \in ended THEN None ELSE pl[q].party
        /\ pl[q].party \notin ended => Forget(q).points = pl[q].points
        /\ Forget(q).invitePartyList = pl[q].invitePartyList
    BY <2>1, <2>2 DEF PlayerRecords
  <2> HIDE DEF Forget
  <2>4. /\ New(q) \in PlayerRecords /\ New(q).online = Forget(q).online
        /\ New(q).level = Forget(q).level /\ New(q).area = Forget(q).area
        /\ New(q).party = Forget(q).party /\ New(q).points = Forget(q).points
        /\ New(q).invitePartyList = IF q = p THEN {} ELSE Forget(q).invitePartyList
    BY <2>3 DEF PlayerRecords
  <2> HIDE DEF New
  <2> QED BY <2>3, <2>4
<1>9. pl2 \in [Player -> PlayerRecords]
  <2>1. \A q \in Player : pl2[q] = New(q)
    OBVIOUS
  <2> HIDE DEF New
  <2>2. \A q \in Player : New(q) \in PlayerRecords
    BY <1>8, <2>1
  <2> QED BY <2>2
<1>10. /\ pa2 \in [Address -> PartyRecords]
       /\ \A g \in Address : pa2[g] = IF g \in ended THEN NoParty
                                      ELSE IF g \in invited THEN rest[g] ELSE pa[g]
  BY <1>2, <1>4, Named
<1> HIDE DEF pl2, pa2, pl, pa, InEnded, New, Forget
<1>11. \A g \in Address : g \in invited <=> g \in pl[p].invitePartyList /\ p \in pa[g].inviteList
  BY DEF pl, pa
<1>12. \A g \in ended : rest[g].inviteList = {}
  BY DEF DisbandParty
<1>13. \A g \in invited \ ended : ~DisbandParty(rest[g])
  OBVIOUS
<1> HIDE DEF invited, ended
<1>14. Shrinks(pl, pl2)
  BY <1>8 DEF Shrinks
<1>15. OfflineIsOut(pl2)
  BY <1>14, StillOut DEF Good, pl
<1>16. ASSUME NEW g \in Address, g \notin invited
       PROVE  PartyGood(pl2, g, pa2[g])
  <2>1. PartyGood(pl, g, pa[g]) /\ pa[g] \in PartyRecords
    BY <1>2 DEF Good, pl, pa
  <2>2. \A x \in Player : x \in pa[g].inviteList => x # p /\ g \in pl[x].invitePartyList
    BY <1>5, <1>11, <1>16 DEF Agrees
  <2>3. SameFor(g, pa[g], pl, pl2)
    BY <1>3, <1>8, <1>16, <2>2, Named DEF SameFor
  <2> QED BY <1>3, <1>10, <1>16, <2>1, <2>3, LeftAlone
<1>17. ASSUME NEW g \in invited, g \notin ended
       PROVE  PartyGood(pl2, g, pa2[g])
  <2>0. g \in Address /\ pa2[g] = rest[g]
    BY <1>3, <1>10, <1>17
  <2>1. PartyGood(pl, g, pa[g]) /\ pa[g] \in PartyRecords /\ pa[g] # NoParty
    BY <1>2, <1>11, <2>0, PartyIsThere DEF Good, pl, pa
  <2>2. Ranks(pa[g]) /\ DueFor(pa[g], pl)
    BY <2>1 DEF PartyGood
  <2>3. Ranks(rest[g])
    BY <1>4, <2>0, <2>2 DEF Ranks
  <2>4. pa[g].inviteList \subseteq Player /\ Everybody(pa[g]) \subseteq Player
    BY <2>1, <2>2, PartyFields DEF Ranks, Everybody
  <2>5. Agrees(pl2, g, rest[g])
    <3>1. \A x \in Player : pl2[x].party = g <=> x \in Everybody(rest[g])
      BY <1>4, <1>5, <1>8, <1>17, <2>0, Named DEF Agrees
    <3>2. \A x \in rest[g].inviteList : g \in pl2[x].invitePartyList
      BY <1>4, <1>5, <1>8, <2>0, <2>4 DEF Agrees
    <3>3. ASSUME ~SelfInvites, NEW x \in Player
          PROVE  /\ g \in pl2[x].invitePartyList => x \in rest[g].inviteList
                 /\ x \in rest[g].inviteList => x \notin Everybody(rest[g])
      BY <1>4, <1>5, <1>8, <2>0, <3>3 DEF Agrees
    <3> QED BY <3>1, <3>2, <3>3 DEF Agrees
  <2>6. \A x \in Everybody(pa[g]) : /\ pl2[x].level = pl[x].level /\ pl2[x].area = pl[x].area
                                    /\ pl2[x].points = pl[x].points
    BY <1>5, <1>8, <1>17, <2>0, <2>4 DEF Agrees
  <2>7. DueFor(rest[g], pl2)
    BY <1>4, <2>0, <2>2, <2>6, SameDue
  <2> QED BY <1>13, <1>17, <2>0, <2>3, <2>5, <2>7 DEF PartyGood
<1>18. ASSUME NEW g \in ended
       PROVE  PartyGood(pl2, g, pa2[g])
  <2>1. g \in Address /\ g \in invited /\ pa2[g] = NoParty
    BY <1>3, <1>10
  <2>2. \A x \in Player : pl2[x].party # g
    BY <1>8, <2>1, Named
  <2>3. pa[g].inviteList \subseteq {p}
    BY <1>4, <1>12, <2>1
  <2>4. ~SelfInvites => \A x \in Player : g \notin pl2[x].invitePartyList
    BY <1>5, <1>8, <2>1, <2>3 DEF Agrees
  <2> QED BY <2>1, <2>2, <2>4, NobodyThere
<1>19. Good(pl2, pa2)
  BY <1>9, <1>10, <1>15, <1>16, <1>17, <1>18 DEF Good, Typed
<1>20. pl2[p].invitePartyList = {}
  BY <1>8
<1> QED BY <1>1, <1>14, <1>19, <1>20 DEF pl

-----------------------------------------------------------------------------
(* The handlers *)

\* A step that is about one party.
LEMMA OneParty ==
  ASSUME NEW pl, NEW pa, Good(pl, pa), NEW pl2 \in [Player -> PlayerRecords], NEW g \in Address,
         OfflineIsOut(pl2), NEW t \in PartyRecords, PartyGood(pl2, g, t),
         \A h \in Address \ {g} : SameFor(h, pa[h], pl, pl2)
  PROVE  Good(pl2, [pa EXCEPT ![g] = t])
<1> DEFINE pa2 == [pa EXCEPT ![g] = t]
<1>1. pa \in [Address -> PartyRecords] /\ \A h \in Address : PartyGood(pl, h, pa[h])
  BY DEF Good, Typed
<1>2. /\ pa2 \in [Address -> PartyRecords] /\ pa2[g] = t
      /\ \A h \in Address \ {g} : pa2[h] = pa[h]
  BY <1>1
<1> HIDE DEF pa2
<1>3. \A h \in Address \ {g} : PartyGood(pl2, h, pa2[h])
  BY <1>1, <1>2, LeftAlone
<1>4. \A h \in Address : PartyGood(pl2, h, pa2[h])
  BY <1>2, <1>3
<1>5. Good(pl2, pa2)
  BY <1>2, <1>4 DEF Good, Typed
<1> QED BY <1>5 DEF pa2

LEMMA NoPartyTouched ==
  ASSUME NEW pl, NEW pa, Good(pl, pa), NEW pl2 \in [Player -> PlayerRecords],
         OfflineIsOut(pl2), \A h \in Address : SameFor(h, pa[h], pl, pl2)
  PROVE  Good(pl2, pa)
<1>1. pa \in [Address -> PartyRecords] /\ \A h \in Address : PartyGood(pl, h, pa[h])
  BY DEF Good, Typed
<1>2. \A h \in Address : PartyGood(pl2, h, pa[h])
  BY <1>1, LeftAlone
<1> QED BY <1>1, <1>2 DEF Good, Typed

LEMMA InviteIsSafe ==
  ASSUME IInv, NEW p \in Player, NEW q \in Player, Invite(p, q)
  PROVE  IInv'
<1> PICK g \in Address :
      /\ IF player[p].party # None
         THEN g = player[p].party /\ party[g].leader = p
         ELSE party[g] = NoParty
      /\ q \notin party[g].inviteList
      /\ player' = [player EXCEPT ![p].party = g, ![q].invitePartyList = @ \cup {g}]
      /\ party' = [party EXCEPT ![g].leader = p, ![g].inviteList = @ \cup {q}]
  BY DEF Invite
<1>0. /\ p = q => SelfInvites
      /\ player[p].online /\ player[q].online /\ player[q].party = None
  BY DEF Invite
<1> DEFINE r == party[g]
           t == [r EXCEPT !.leader = p, !.inviteList = @ \cup {q}]
           pl1 == [player EXCEPT ![p].party = g]
           pl2 == [pl1 EXCEPT ![q].invitePartyList = @ \cup {g}]
           m == [player[p] EXCEPT !.party = g]
           n == [pl1[q] EXCEPT !.invitePartyList = @ \cup {g}]
<1>1. player \in [Player -> PlayerRecords] /\ party \in [Address -> PartyRecords]
  BY DEF IInv, Good, Typed
<1>2. player' = pl2 /\ party' = [party EXCEPT ![g] = t]
  BY <1>1
<1>3. /\ m \in PlayerRecords /\ m.party = g /\ m.online = player[p].online
      /\ m.invitePartyList = player[p].invitePartyList
      /\ m.level = player[p].level /\ m.area = player[p].area /\ m.points = player[p].points
  BY <1>1 DEF PlayerRecords
<1>4. pl1 = [player EXCEPT ![p] = m]
  BY <1>1
<1> HIDE DEF m
<1>5. /\ pl1 \in [Player -> PlayerRecords] /\ pl1[p] = m
      /\ \A x \in Player \ {p} : pl1[x] = player[x]
  BY <1>1, <1>3, <1>4
<1> HIDE DEF pl1
<1>6. /\ n \in PlayerRecords /\ n.party = pl1[q].party /\ n.online = pl1[q].online
      /\ n.invitePartyList = pl1[q].invitePartyList \cup {g}
      /\ n.level = pl1[q].level /\ n.area = pl1[q].area /\ n.points = pl1[q].points
  BY <1>5 DEF PlayerRecords
<1>7. pl2 = [pl1 EXCEPT ![q] = n]
  BY <1>5
<1> HIDE DEF n
<1>8. /\ pl2 \in [Player -> PlayerRecords] /\ pl2[q] = n
      /\ \A x \in Player \ {q} : pl2[x] = pl1[x]
  BY <1>5, <1>6, <1>7
<1> HIDE DEF pl2
<1>9. \A x \in Player :
        /\ pl2[x].online = player[x].online
        /\ pl2[x].party = IF x = p THEN g ELSE player[x].party
        /\ pl2[x].invitePartyList = IF x = q THEN player[x].invitePartyList \cup {g}
                                    ELSE player[x].invitePartyList
        /\ pl2[x].level = player[x].level /\ pl2[x].area = player[x].area
        /\ pl2[x].points = player[x].points
  <2>1. \A x \in Player :
          /\ pl1[x].online = player[x].online
          /\ pl1[x].party = IF x = p THEN g ELSE player[x].party
          /\ pl1[x].invitePartyList = player[x].invitePartyList
          /\ pl1[x].level = player[x].level /\ pl1[x].area = player[x].area
          /\ pl1[x].points = player[x].points
    BY <1>3, <1>5
  <2> TAKE x \in Player
  <2>2. CASE x = q
    BY <1>6, <1>8, <2>1, <2>2
  <2>3. CASE x # q
    BY <1>8, <2>1, <2>3
  <2> QED BY <2>2, <2>3
<1>10. /\ t \in PartyRecords /\ t.leader = p /\ t.memberList = r.memberList
       /\ t.inviteList = r.inviteList \cup {q}
       /\ t.sharedExpActive = r.sharedExpActive /\ t.sharedExpEnabled = r.sharedExpEnabled
  BY <1>1 DEF PartyRecords
<1> HIDE DEF t
<1>11. OfflineIsOut(pl2)
  BY <1>0, <1>9 DEF OfflineIsOut, IInv, Good
<1>12. /\ PartyGood(player, g, r) /\ r \in PartyRecords /\ Agrees(player, g, r)
       /\ IF player[p].party # None THEN g = player[p].party /\ r.leader = p ELSE r = NoParty
       /\ q \notin r.inviteList
  BY <1>1 DEF IInv, Good, PartyGood
<1> HIDE DEF r
<1>13. player[p].party \in {g, None} /\ r.inviteList \subseteq Player
  BY <1>12, PartyFields
<1>14. /\ ToSet(t.memberList) = ToSet(r.memberList)
       /\ IsInjective(t.memberList) /\ p \notin ToSet(t.memberList)
       /\ \A x \in Player : x \in Everybody(t) <=> x = p \/ x \in Everybody(r)
  <2>1. CASE player[p].party # None
    <3>1. r.leader = p /\ player[p].party = g
      BY <1>12, <2>1
    <3>2. Ranks(r)
      BY <3>1, <1>12, Named DEF PartyGood, NoParty
    <3> QED BY <1>10, <3>1, <3>2 DEF Ranks, Everybody
  <2>2. CASE player[p].party = None
    <3>1. r = NoParty
      BY <1>12, <2>2
    <3>2. t.memberList = <<>> /\ r.memberList = <<>>
      BY <1>10, <3>1 DEF NoParty
    <3>3. IsInjective(<<>>) /\ ToSet(<<>>) = {}
      BY DEF IsInjective, ToSet
    <3>4. Everybody(r) = {None} /\ Everybody(t) = {p}
      BY <1>10, <3>1, <3>2, <3>3, Named DEF Everybody
    <3> QED BY <3>2, <3>3, <3>4, Named
  <2> QED BY <2>1, <2>2
<1>15. Ranks(t)
  BY <1>10, <1>14 DEF Ranks
<1>16. Agrees(pl2, g, t)
  <2>1. \A x \in Player : pl2[x].party = g <=> x \in Everybody(t)
    BY <1>9, <1>12, <1>14 DEF Agrees
  <2>2. ASSUME NEW x \in t.inviteList
        PROVE  g \in pl2[x].invitePartyList
    BY <1>9, <1>10, <1>12, <1>13 DEF Agrees
  <2>3. ASSUME ~SelfInvites, NEW x \in Player
        PROVE  /\ g \in pl2[x].invitePartyList => x \in t.inviteList
               /\ x \in t.inviteList => x \notin Everybody(t)
    <3>1. g \in pl2[x].invitePartyList => x \in t.inviteList
      BY <1>9, <1>10, <1>12, <2>3 DEF Agrees
    <3>2. q \notin Everybody(t)
      BY <1>0, <1>12, <1>14, <2>3, Named DEF Agrees
    <3>3. p \notin r.inviteList
      <4>1. CASE player[p].party # None
        BY <1>12, <2>3, <4>1 DEF Agrees
      <4>2. CASE player[p].party = None
        <5>1. r.inviteList = {}
          BY <1>12, <4>2 DEF NoParty
        <5> QED BY <5>1
      <4> QED BY <4>1, <4>2
    <3>4. x \in r.inviteList => x \notin Everybody(t)
      BY <1>12, <1>14, <2>3, <3>3 DEF Agrees
    <3> QED BY <1>10, <3>1, <3>2, <3>4
  <2> QED BY <2>1, <2>2, <2>3 DEF Agrees
<1>17. DueFor(t, pl2)
  <2>1. CASE player[p].party # None
    <3>1. r.leader = p /\ DueFor(r, player) /\ Ranks(r)
      BY <2>1, <1>12, Named DEF PartyGood, NoParty
    <3>2. Everybody(r) \subseteq Player
      BY <1>12, <3>1, PartyFields DEF Everybody, Ranks
    <3>3. \A x \in Everybody(r) :
            /\ pl2[x].level = player[x].level /\ pl2[x].area = player[x].area
            /\ pl2[x].points = player[x].points
      BY <1>9, <3>2
    <3>4. /\ t.leader = r.leader /\ t.memberList = r.memberList
          /\ t.sharedExpActive = r.sharedExpActive /\ t.sharedExpEnabled = r.sharedExpEnabled
      BY <1>10, <3>1
    <3> QED BY <3>1, <3>3, <3>4, SameDue
  <2>2. CASE player[p].party = None
    <3>1. ~r.sharedExpActive
      BY <1>12, <2>2 DEF NoParty
    <3> QED BY <1>10, <3>1 DEF DueFor
  <2> QED BY <2>1, <2>2
<1>18. ~DisbandParty(t)
  BY <1>10 DEF DisbandParty
<1>19. PartyGood(pl2, g, t)
  BY <1>15, <1>16, <1>17, <1>18 DEF PartyGood
<1>20. ASSUME NEW h \in Address \ {g}
       PROVE  SameFor(h, party[h], player, pl2)
  <2>1. \A x \in party[h].inviteList : h \in player[x].invitePartyList
    BY DEF IInv, Good, PartyGood, Agrees
  <2> QED BY <1>9, <1>13, <2>1, Named DEF SameFor
<1>21. Good(pl2, [party EXCEPT ![g] = t])
  BY <1>8, <1>10, <1>11, <1>19, <1>20, OneParty DEF IInv
<1> QED BY <1>2, <1>21 DEF IInv, r

LEMMA JoinIsSafe ==
  ASSUME IInv, NEW p \in Player, NEW leader \in Player, Join(p, leader)
  PROVE  IInv'
<1> DEFINE g == player[leader].party
           r == party[g]
           q == [player[p] EXCEPT !.party = g, !.invitePartyList = @ \ {g}]
           pl2 == [player EXCEPT ![p].party = g, ![p].invitePartyList = @ \ {g}]
           t == [r EXCEPT !.memberList = Append(@, p), !.inviteList = @ \ {p}]
           u == Updated(t, pl2)
<1>0. /\ player[p].online /\ player[p].party = None
      /\ g # None /\ p \in r.inviteList
      /\ player' = pl2
  BY DEF Join, IsInviting
<1>1. player \in [Player -> PlayerRecords] /\ party \in [Address -> PartyRecords]
  BY DEF IInv, Good, Typed
<1>2. g \in Address
  BY <1>0, <1>1, PlayerFields
<1>3. party' = [party EXCEPT ![g] = u]
  BY DEF Join
<1>4. /\ q \in PlayerRecords /\ q.party = g /\ q.online = player[p].online
      /\ q.invitePartyList = player[p].invitePartyList \ {g}
  BY <1>1, <1>2 DEF PlayerRecords
<1>5. pl2 = [player EXCEPT ![p] = q]
  BY <1>1
<1> HIDE DEF q
<1>6. /\ pl2 \in [Player -> PlayerRecords] /\ pl2[p] = q
      /\ \A x \in Player \ {p} : pl2[x] = player[x]
  BY <1>1, <1>4, <1>5
<1> HIDE DEF pl2
<1>7. /\ PartyGood(player, g, r) /\ r \in PartyRecords /\ Agrees(player, g, r) /\ Ranks(r)
      /\ \A h \in Address : \A x \in party[h].inviteList : h \in player[x].invitePartyList
  BY <1>0, <1>1, <1>2, PartyIsThere DEF IInv, Good, PartyGood, Agrees
<1> HIDE DEF g, r
<1>8. p \notin Everybody(r)
  BY <1>0, <1>2, <1>7, Named DEF Agrees
<1>9. r.memberList \in Seq(Player) /\ r.inviteList \subseteq Player
  BY <1>7, PartyFields
<1> DEFINE list == Append(r.memberList, p)
<1>10. /\ list \in Seq(Player) /\ list # <<>> /\ IsInjective(list)
       /\ ToSet(list) = ToSet(r.memberList) \cup {p}
  BY <1>7, <1>8, <1>9, Appended DEF Ranks, Everybody
<1>11. t = [r EXCEPT !.memberList = list, !.inviteList = @ \ {p}]
  BY <1>7 DEF PartyRecords
<1> HIDE DEF list, t
<1>12. /\ t \in PartyRecords /\ t.leader = r.leader /\ t.memberList = list
       /\ t.inviteList = r.inviteList \ {p}
  BY <1>7, <1>10, <1>11 DEF PartyRecords
<1>13. Everybody(t) = Everybody(r) \cup {p}
  BY <1>10, <1>12 DEF Everybody
<1>14. Ranks(t)
  BY <1>7, <1>8, <1>10, <1>12 DEF Ranks, Everybody
<1>15. /\ u \in PartyRecords /\ u.leader = t.leader /\ u.memberList = t.memberList
       /\ u.inviteList = t.inviteList /\ Everybody(u) = Everybody(t) /\ DueFor(u, pl2)
  BY <1>12, UpdatedIs
<1> HIDE DEF u
<1>16. Ranks(u) /\ ~DisbandParty(u)
  BY <1>10, <1>12, <1>14, <1>15 DEF Ranks, DisbandParty
<1>17. Agrees(pl2, g, u)
  <2>1. \A x \in Player : pl2[x].party = g <=> x \in Everybody(u)
    BY <1>4, <1>6, <1>7, <1>13, <1>15 DEF Agrees
  <2>2. ASSUME NEW x \in u.inviteList
        PROVE  g \in pl2[x].invitePartyList
    BY <1>6, <1>7, <1>9, <1>12, <1>15 DEF Agrees
  <2>3. ASSUME ~SelfInvites, NEW x \in Player
        PROVE  /\ g \in pl2[x].invitePartyList => x \in u.inviteList
               /\ x \in u.inviteList => x \notin Everybody(u)
    BY <1>4, <1>6, <1>7, <1>12, <1>13, <1>15, <2>3 DEF Agrees
  <2> QED BY <2>1, <2>2, <2>3 DEF Agrees
<1>18. PartyGood(pl2, g, u)
  BY <1>15, <1>16, <1>17 DEF PartyGood
<1>19. OfflineIsOut(pl2)
  BY <1>0, <1>4, <1>6 DEF OfflineIsOut, IInv, Good
<1>20. ASSUME NEW h \in Address \ {g}
       PROVE  SameFor(h, party[h], player, pl2)
  BY <1>0, <1>4, <1>6, <1>7, Named DEF SameFor
<1>21. Good(pl2, [party EXCEPT ![g] = u])
  BY <1>2, <1>6, <1>15, <1>18, <1>19, <1>20, OneParty DEF IInv
<1> QED BY <1>0, <1>3, <1>21 DEF IInv

LEMMA RevokeIsSafe ==
  ASSUME IInv, NEW p \in Player, NEW q \in Player, Revoke(p, q)
  PROVE  IInv'
<1> DEFINE g == player[p].party
           u == Uninvited(State, g, q)
<1>1. g # None /\ player' = u.player /\ party' = u.party
  BY DEF Revoke, IsInviting, Becomes
<1>2. g \in Address
  BY <1>1, PlayerFields DEF IInv, Good, Typed
<1>3. State.player = player /\ State.party = party
  BY DEF State
<1> HIDE DEF g
<1>4. Good(u.player, u.party)
  BY <1>2, <1>3, UninvitedIsGood DEF IInv
<1> QED BY <1>1, <1>4 DEF IInv

LEMMA PassLeadershipIsSafe ==
  ASSUME IInv, NEW p \in Player, NEW q \in Player, PassLeadership(p, q)
  PROVE  IInv'
<1> DEFINE g == player[p].party
           r == party[g]
           u == Passed(r, player, q)
<1>0. /\ p # q /\ g # None /\ player[q].party = g /\ r.leader = p /\ player' = player
  BY DEF PassLeadership
<1>1. player \in [Player -> PlayerRecords] /\ party \in [Address -> PartyRecords]
  BY DEF IInv, Good, Typed
<1>2. g \in Address
  BY <1>0, <1>1, PlayerFields
<1>3. party' = [party EXCEPT ![g] = u]
  BY <1>1, <1>2 DEF PassLeadership
<1>4. Agrees(player, g, r) /\ r \in PartyRecords /\ Ranks(r)
  BY <1>1, <1>2, PartyIsThere DEF IInv, Good, PartyGood
<1> HIDE DEF g, r
<1>5. q \in ToSet(r.memberList)
  BY <1>0, <1>4 DEF Agrees, Everybody
<1>6. /\ u \in PartyRecords /\ Ranks(u) /\ DueFor(u, player) /\ u.memberList # <<>>
      /\ Everybody(u) = Everybody(r) /\ u.inviteList = r.inviteList
  BY <1>4, <1>5, PassedIs
<1> HIDE DEF u
<1>7. PartyGood(player, g, u)
  BY <1>4, <1>6 DEF PartyGood, Agrees, DisbandParty
<1>8. ASSUME NEW h \in Address
      PROVE  SameFor(h, party[h], player, player)
  BY DEF SameFor, IInv, Good, PartyGood, Agrees
<1>9. OfflineIsOut(player)
  BY DEF IInv, Good
<1>10. Good(player, [party EXCEPT ![g] = u])
  BY <1>1, <1>2, <1>6, <1>7, <1>8, <1>9, OneParty DEF IInv
<1> QED BY <1>0, <1>3, <1>10 DEF IInv

LEMMA LeaveIsSafe ==
  ASSUME IInv, NEW p \in Player, Leave(p)
  PROVE  IInv'
<1> DEFINE u == Left(State, p)
<1>1. player[p].party # None /\ player' = u.player /\ party' = u.party
  BY DEF Leave, Becomes
<1>2. State.player = player /\ State.party = party
  BY DEF State
<1>3. Good(u.player, u.party)
  BY <1>1, <1>2, LeftIsGood DEF IInv
<1> QED BY <1>1, <1>3 DEF IInv

LEMMA EnableSharedExperienceIsSafe ==
  ASSUME IInv, NEW p \in Player, NEW active \in BOOLEAN, EnableSharedExperience(p, active)
  PROVE  IInv'
<1> DEFINE g == player[p].party
           r == party[g]
           t == [r EXCEPT !.sharedExpActive = active]
           u == Updated(t, player)
<1>0. g # None /\ player' = player
  BY DEF EnableSharedExperience
<1>1. player \in [Player -> PlayerRecords] /\ party \in [Address -> PartyRecords]
  BY DEF IInv, Good, Typed
<1>2. g \in Address
  BY <1>0, <1>1, PlayerFields
<1>3. party' = [party EXCEPT ![g] = u]
  BY <1>1, <1>2 DEF EnableSharedExperience
<1>4. Agrees(player, g, r) /\ r \in PartyRecords /\ Ranks(r) /\ ~DisbandParty(r)
  BY <1>1, <1>2, PartyIsThere DEF IInv, Good, PartyGood
<1> HIDE DEF g, r
<1>5. /\ t \in PartyRecords /\ t.leader = r.leader /\ t.memberList = r.memberList
      /\ t.inviteList = r.inviteList
  BY <1>4 DEF PartyRecords
<1> HIDE DEF t
<1>6. /\ u \in PartyRecords /\ u.leader = r.leader /\ u.memberList = r.memberList
      /\ u.inviteList = r.inviteList /\ DueFor(u, player)
  BY <1>5, UpdatedIs
<1> HIDE DEF u
<1>7. PartyGood(player, g, u)
  BY <1>4, <1>6 DEF PartyGood, Agrees, DisbandParty, Everybody, Ranks
<1>8. ASSUME NEW h \in Address
      PROVE  SameFor(h, party[h], player, player)
  BY DEF SameFor, IInv, Good, PartyGood, Agrees
<1>9. OfflineIsOut(player)
  BY DEF IInv, Good
<1>10. Good(player, [party EXCEPT ![g] = u])
  BY <1>1, <1>2, <1>6, <1>7, <1>8, <1>9, OneParty DEF IInv
<1> QED BY <1>0, <1>3, <1>10 DEF IInv

\* A player out of everything may become anything that is.
LEMMA OutIsReplaced ==
  ASSUME NEW pl, NEW pa, Good(pl, pa), NEW p \in Player, NEW q \in PlayerRecords,
         pl[p].party = None, pl[p].invitePartyList = {},
         q.party = None, q.invitePartyList = {}
  PROVE  Good([pl EXCEPT ![p] = q], pa)
<1> DEFINE pl2 == [pl EXCEPT ![p] = q]
<1>1. pl \in [Player -> PlayerRecords]
  BY DEF Good, Typed
<1>2. /\ pl2 \in [Player -> PlayerRecords] /\ pl2[p] = q
      /\ \A x \in Player \ {p} : pl2[x] = pl[x]
  BY <1>1
<1> HIDE DEF pl2
<1>3. OfflineIsOut(pl2)
  BY <1>2 DEF OfflineIsOut, Good
<1>4. ASSUME NEW h \in Address
      PROVE  SameFor(h, pa[h], pl, pl2)
  <2>1. \A x \in pa[h].inviteList : h \in pl[x].invitePartyList
    BY DEF Good, PartyGood, Agrees
  <2> QED BY <1>2, <2>1, Named DEF SameFor
<1>5. Good(pl2, pa)
  BY <1>2, <1>3, <1>4, NoPartyTouched
<1> QED BY <1>5 DEF pl2

LEMMA LoginIsSafe ==
  ASSUME IInv, NEW p \in Player, Login(p)
  PROVE  IInv'
<1> PICK level \in Levels, area \in Areas :
      player' = [player EXCEPT ![p] =
        [Offline EXCEPT !.online = TRUE, !.level = level, !.area = area]]
  BY DEF Login
<1> DEFINE q == [Offline EXCEPT !.online = TRUE, !.level = level, !.area = area]
<1>1. q \in PlayerRecords /\ q.party = None /\ q.invitePartyList = {}
  BY DEF Offline, PlayerRecords
<1> HIDE DEF q
<1>2. player[p].party = None /\ player[p].invitePartyList = {} /\ party' = party
  BY DEF Login, IInv, Good, OfflineIsOut
<1>3. Good([player EXCEPT ![p] = q], party)
  BY <1>1, <1>2, OutIsReplaced DEF IInv
<1> QED BY <1>2, <1>3 DEF IInv, q

LEMMA DisappearIsSafe ==
  ASSUME IInv, NEW p \in Player, Disappear(p)
  PROVE  IInv'
<1> DEFINE cleared == Cleared(State, p)
           s == IF cleared.player[p].party = None THEN cleared ELSE Left(cleared, p)
           u == [s EXCEPT !.player[p] = Offline]
           pl2 == [s.player EXCEPT ![p] = Offline]
<1>1. player' = u.player /\ party' = u.party
  BY DEF Disappear, Becomes
<1>2. State.player = player /\ State.party = party
  BY DEF State
<1>3. Good(cleared.player, cleared.party) /\ cleared.player[p].invitePartyList = {}
  BY <1>2, ClearedIsGood DEF IInv
<1>4. cleared = [player |-> cleared.player, party |-> cleared.party]
  BY DEF Cleared
<1> HIDE DEF cleared
<1>5. /\ Good(s.player, s.party) /\ s.player[p].party = None
      /\ s.player[p].invitePartyList = {}
  <2>1. CASE cleared.player[p].party = None
    BY <1>3, <2>1
  <2>2. CASE cleared.player[p].party # None
    <3>1. /\ Good(Left(cleared, p).player, Left(cleared, p).party)
          /\ Left(cleared, p).player[p].party = None
          /\ Shrinks(cleared.player, Left(cleared, p).player)
      BY <1>3, <2>2, LeftIsGood
    <3>2. Left(cleared, p).player[p].invitePartyList = {}
      BY <1>3, <3>1 DEF Shrinks
    <3> QED BY <2>2, <3>1, <3>2
  <2> QED BY <2>1, <2>2
<1>6. s = [player |-> s.player, party |-> s.party]
  <2>1. Left(cleared, p) = [player |-> Left(cleared, p).player, party |-> Left(cleared, p).party]
    BY DEF Left, Disbanded, DisbandedIfEmpty
  <2> QED BY <1>4, <2>1
<1> HIDE DEF s
<1>7. u.player = pl2 /\ u.party = s.party
  BY <1>6
<1> HIDE DEF u
<1>8. Good(pl2, s.party)
  <2>1. Offline.party = None /\ Offline.invitePartyList = {}
    BY DEF Offline
  <2> QED BY <1>5, <2>1, Named, OutIsReplaced
<1> QED BY <1>1, <1>7, <1>8 DEF IInv

\* What changes about a player and leaves parties and invitations alone.
LEMMA UpdateForIsSafe ==
  ASSUME IInv, NEW p \in Player, NEW q \in PlayerRecords,
         q.online = player[p].online, q.party = player[p].party,
         q.invitePartyList = player[p].invitePartyList,
         UpdateFor(p, [player EXCEPT ![p] = q])
  PROVE  IInv'
<1> DEFINE pl2 == [player EXCEPT ![p] = q]
           g == player[p].party
           u == Updated(party[g], pl2)
<1>1. player \in [Player -> PlayerRecords] /\ party \in [Address -> PartyRecords]
  BY DEF IInv, Good, Typed
<1>2. /\ pl2 \in [Player -> PlayerRecords] /\ pl2[p] = q
      /\ \A x \in Player \ {p} : pl2[x] = player[x]
  BY <1>1
<1>3. /\ player' = pl2
      /\ party' = IF pl2[p].party = None THEN party
                  ELSE [party EXCEPT ![pl2[p].party] = Updated(@, pl2)]
  BY DEF UpdateFor
<1> HIDE DEF pl2
<1>4. OfflineIsOut(pl2)
  BY <1>2 DEF OfflineIsOut, IInv, Good
<1>5. ASSUME NEW h \in Address, h # g
      PROVE  SameFor(h, party[h], player, pl2)
  <2>1. \A x \in party[h].inviteList : h \in player[x].invitePartyList
    BY DEF IInv, Good, PartyGood, Agrees
  <2> QED BY <1>2, <1>5, <2>1 DEF SameFor
<1>6. CASE g = None
  <2>1. party' = party
    BY <1>2, <1>3, <1>6
  <2>2. \A h \in Address : SameFor(h, party[h], player, pl2)
    BY <1>5, <1>6, Named
  <2>3. Good(pl2, party)
    BY <1>2, <1>4, <2>2, NoPartyTouched DEF IInv
  <2> QED BY <1>3, <2>1, <2>3 DEF IInv
<1>7. CASE g # None
  <2>1. g \in Address
    BY <1>1, <1>7, PlayerFields
  <2> DEFINE r == party[g]
  <2>2. party' = [party EXCEPT ![g] = u]
    BY <1>1, <1>2, <1>3, <1>7, <2>1
  <2>3. Agrees(player, g, r) /\ r \in PartyRecords /\ Ranks(r) /\ ~DisbandParty(r)
    BY <1>1, <2>1, PartyIsThere DEF IInv, Good, PartyGood
  <2>4. /\ u \in PartyRecords /\ u.leader = r.leader /\ u.memberList = r.memberList
        /\ u.inviteList = r.inviteList /\ DueFor(u, pl2) /\ Everybody(u) = Everybody(r)
    BY <2>3, UpdatedIs
  <2>5. \A x \in Player : /\ pl2[x].party = player[x].party
                          /\ pl2[x].invitePartyList = player[x].invitePartyList
    BY <1>2
  <2> HIDE DEF u, r
  <2>6. Agrees(pl2, g, u)
    <3>1. r.inviteList \subseteq Player
      BY <2>3, PartyFields
    <3> HIDE DEF g
    <3> QED BY <2>3, <2>4, <2>5, <3>1 DEF Agrees
  <2>7. PartyGood(pl2, g, u)
    BY <2>3, <2>4, <2>6 DEF PartyGood, Ranks, DisbandParty
  <2> HIDE DEF g
  <2>8. Good(pl2, [party EXCEPT ![g] = u])
    BY <1>2, <1>4, <1>5, <2>1, <2>4, <2>7, OneParty DEF IInv
  <2> QED BY <1>3, <2>2, <2>8 DEF IInv
<1> QED BY <1>6, <1>7

LEMMA MoveIsSafe ==
  ASSUME IInv, NEW p \in Player, Move(p)
  PROVE  IInv'
<1> PICK area \in Areas : UpdateFor(p, [player EXCEPT ![p].area = area])
  BY DEF Move
<1> DEFINE q == [player[p] EXCEPT !.area = area]
<1>1. player \in [Player -> PlayerRecords]
  BY DEF IInv, Good, Typed
<1>2. /\ q \in PlayerRecords /\ q.online = player[p].online /\ q.party = player[p].party
      /\ q.invitePartyList = player[p].invitePartyList
  BY <1>1 DEF PlayerRecords
<1>3. [player EXCEPT ![p].area = area] = [player EXCEPT ![p] = q]
  BY <1>1
<1> HIDE DEF q
<1> QED BY <1>2, <1>3, UpdateForIsSafe

LEMMA AdvanceIsSafe ==
  ASSUME IInv, NEW p \in Player, Advance(p)
  PROVE  IInv'
<1> PICK level \in Levels : UpdateFor(p, [player EXCEPT ![p].level = level])
  BY DEF Advance
<1> DEFINE q == [player[p] EXCEPT !.level = level]
<1>1. player \in [Player -> PlayerRecords]
  BY DEF IInv, Good, Typed
<1>2. /\ q \in PlayerRecords /\ q.online = player[p].online /\ q.party = player[p].party
      /\ q.invitePartyList = player[p].invitePartyList
  BY <1>1 DEF PlayerRecords
<1>3. [player EXCEPT ![p].level = level] = [player EXCEPT ![p] = q]
  BY <1>1
<1> HIDE DEF q
<1> QED BY <1>2, <1>3, UpdateForIsSafe

LEMMA PointsAreSafe ==
  ASSUME IInv, NEW p \in Player, AddPoints(p) \/ ClearPoints(p)
  PROVE  IInv'
<1> PICK points \in {"none", "recent"} : UpdateFor(p, [player EXCEPT ![p].points = points])
  BY DEF AddPoints, ClearPoints
<1> DEFINE q == [player[p] EXCEPT !.points = points]
<1>1. player \in [Player -> PlayerRecords]
  BY DEF IInv, Good, Typed
<1>2. /\ q \in PlayerRecords /\ q.online = player[p].online /\ q.party = player[p].party
      /\ q.invitePartyList = player[p].invitePartyList
  BY <1>1 DEF PlayerRecords
<1>3. [player EXCEPT ![p].points = points] = [player EXCEPT ![p] = q]
  BY <1>1
<1> HIDE DEF q
<1> QED BY <1>2, <1>3, UpdateForIsSafe

LEMMA PointsAgeIsSafe ==
  ASSUME IInv, NEW p \in Player, PointsAge(p)
  PROVE  IInv'
<1> DEFINE q == [player[p] EXCEPT !.points = "old"]
           pl2 == [player EXCEPT ![p].points = "old"]
<1>1. player \in [Player -> PlayerRecords] /\ party \in [Address -> PartyRecords]
  BY DEF IInv, Good, Typed
<1>2. /\ q \in PlayerRecords /\ q.online = player[p].online /\ q.party = player[p].party
      /\ q.invitePartyList = player[p].invitePartyList /\ q.level = player[p].level
      /\ q.area = player[p].area /\ q.points = "old"
  BY <1>1 DEF PlayerRecords
<1>3. pl2 = [player EXCEPT ![p] = q] /\ player' = pl2 /\ party' = party
      /\ player[p].points = "recent"
  BY <1>1 DEF PointsAge
<1> HIDE DEF q
<1>4. /\ pl2 \in [Player -> PlayerRecords] /\ pl2[p] = q
      /\ \A x \in Player \ {p} : pl2[x] = player[x]
  BY <1>1, <1>2, <1>3
<1> HIDE DEF pl2
<1>5. OfflineIsOut(pl2)
  BY <1>2, <1>4 DEF OfflineIsOut, IInv, Good
<1>6. \A x \in Player :
        /\ pl2[x].party = player[x].party
        /\ pl2[x].invitePartyList = player[x].invitePartyList
        /\ pl2[x].level = player[x].level /\ pl2[x].area = player[x].area
        /\ pl2[x].points = player[x].points
             \/ (player[x].points = "recent" /\ pl2[x].points = "old")
  BY <1>2, <1>3, <1>4
<1>7. ASSUME NEW h \in Address
      PROVE  PartyGood(pl2, h, party[h])
  <2> DEFINE r == party[h]
  <2>1. PartyGood(player, h, r) /\ r \in PartyRecords
    BY <1>1 DEF IInv, Good
  <2> HIDE DEF r
  <2>2. Agrees(pl2, h, r)
    <3>1. r.inviteList \subseteq Player
      BY <2>1, PartyFields
    <3> QED BY <1>6, <2>1, <3>1 DEF PartyGood, Agrees
  <2>3. Ranks(r) /\ DueFor(r, player) => DueFor(r, pl2)
    <3> HAVE Ranks(r) /\ DueFor(r, player)
    <3>1. Everybody(r) \subseteq Player
      BY <2>1, PartyFields DEF Ranks, Everybody
    <3> QED BY <1>6, <3>1, AgedIsDue
  <2>4. PartyGood(pl2, h, r)
    BY <2>1, <2>2, <2>3 DEF PartyGood
  <2> QED BY <2>4 DEF r
<1>8. Good(pl2, party)
  BY <1>1, <1>4, <1>5, <1>7 DEF Good, Typed
<1> QED BY <1>3, <1>8 DEF IInv

-----------------------------------------------------------------------------
LEMMA InitIsSafe == Init => IInv
<1> SUFFICES ASSUME Init PROVE IInv
  OBVIOUS
<1>1. player \in [Player -> PlayerRecords] /\ party \in [Address -> PartyRecords]
  BY Named DEF Init
<1>2. Offline.party = None /\ Offline.invitePartyList = {}
  BY DEF Offline
<1>3. \A x \in Player : player[x].party = None /\ player[x].invitePartyList = {}
  BY <1>2 DEF Init
<1>4. ASSUME NEW g \in Address
      PROVE  PartyGood(player, g, party[g])
  <2>1. party[g] = NoParty
    BY DEF Init
  <2>2. /\ \A x \in Player : player[x].party # g
        /\ \A x \in Player : g \notin player[x].invitePartyList
    BY <1>3, Named
  <2> QED BY <2>1, <2>2, NobodyThere
<1> QED BY <1>1, <1>3, <1>4 DEF IInv, Good, Typed, OfflineIsOut

LEMMA StepIsSafe == IInv /\ [Next]_vars => IInv'
<1> SUFFICES ASSUME IInv, [Next]_vars PROVE IInv'
  OBVIOUS
<1>1. CASE Next
  <2> PICK p \in Player :
        \/ \E q \in Player : Invite(p, q) \/ Join(p, q) \/ Revoke(p, q) \/ PassLeadership(p, q)
        \/ Leave(p) \/ Login(p) \/ Disappear(p)
        \/ \E active \in BOOLEAN : EnableSharedExperience(p, active)
        \/ Move(p) \/ Advance(p) \/ AddPoints(p) \/ ClearPoints(p) \/ PointsAge(p)
    BY <1>1 DEF Next
  <2>1. CASE \E q \in Player : Invite(p, q) \/ Join(p, q) \/ Revoke(p, q) \/ PassLeadership(p, q)
    BY <2>1, InviteIsSafe, JoinIsSafe, RevokeIsSafe, PassLeadershipIsSafe
  <2>2. CASE Leave(p) \/ Login(p) \/ Disappear(p)
    BY <2>2, LeaveIsSafe, LoginIsSafe, DisappearIsSafe
  <2>3. CASE \E active \in BOOLEAN : EnableSharedExperience(p, active)
    BY <2>3, EnableSharedExperienceIsSafe
  <2>4. CASE Move(p) \/ Advance(p) \/ AddPoints(p) \/ ClearPoints(p) \/ PointsAge(p)
    BY <2>4, MoveIsSafe, AdvanceIsSafe, PointsAreSafe, PointsAgeIsSafe
  <2> QED BY <2>1, <2>2, <2>3, <2>4
<1>2. CASE UNCHANGED vars
  BY <1>2 DEF vars, IInv
<1> QED BY <1>1, <1>2

LEMMA AlwaysGood == Spec => []IInv
<1> QED BY InitIsSafe, StepIsSafe, PTL DEF Spec

LEMMA LiveIsGood ==
  ASSUME IInv, NEW g \in Live
  PROVE  /\ g \in Address /\ party[g] \in PartyRecords /\ Agrees(player, g, party[g])
         /\ Ranks(party[g]) /\ DueFor(party[g], player) /\ ~DisbandParty(party[g])
BY DEF IInv, Good, Typed, PartyGood, Live, NoParty

LEMMA MembershipFollows ==
  ASSUME IInv
  PROVE  MembershipIsMutual
<1>1. ASSUME NEW p \in Player, player[p].party # None
      PROVE  player[p].party \in Live /\ p \in Everybody(party[player[p].party])
  <2>1. player[p].party \in Address
    BY <1>1, PlayerFields DEF IInv, Good, Typed
  <2>2. p \in Everybody(party[player[p].party])
    BY <2>1 DEF IInv, Good, PartyGood, Agrees
  <2>3. party[player[p].party] # NoParty
    BY <2>1, PartyIsThere DEF IInv
  <2>4. Ranks(party[player[p].party])
    BY <2>1, <2>3 DEF IInv, Good, PartyGood
  <2> QED BY <2>1, <2>2, <2>4, Named DEF Ranks, Live
<1>2. ASSUME NEW g \in Live
      PROVE  /\ \A p \in Everybody(party[g]) : player[p].party = g /\ player[p].online
             /\ IsInjective(<<party[g].leader>> \o party[g].memberList)
  <2> DEFINE r == party[g]
  <2>1. /\ g \in Address /\ r \in PartyRecords /\ Agrees(player, g, r) /\ Ranks(r)
    BY LiveIsGood
  <2> HIDE DEF r
  <2>2. Everybody(r) \subseteq Player /\ r.memberList \in Seq(Player)
    BY <2>1, PartyFields DEF Everybody, Ranks
  <2>3. \A p \in Everybody(r) : player[p].party = g
    BY <2>1, <2>2 DEF Agrees
  <2>4. \A p \in Everybody(r) : player[p].online
    BY <2>1, <2>2, <2>3, Named DEF IInv, Good, OfflineIsOut
  <2>5. IsInjective(<<r.leader>> \o r.memberList)
    BY <2>1, <2>2, Prefixed DEF Ranks
  <2> QED BY <2>3, <2>4, <2>5 DEF r
<1> QED BY <1>1, <1>2 DEF MembershipIsMutual

LEMMA TypesFollow ==
  ASSUME IInv
  PROVE  TypeOK
BY DEF IInv, Good, Typed, TypeOK, PlayerRecords, PartyRecords

LEMMA InvitedFollow ==
  ASSUME IInv
  PROVE  InvitedPlayersKnow
<1> SUFFICES ASSUME NEW g \in Live, NEW p \in party[g].inviteList
             PROVE  player[p].online /\ g \in player[p].invitePartyList
  BY DEF InvitedPlayersKnow
<1>1. g \in player[p].invitePartyList
  BY LiveIsGood DEF Agrees
<1>2. p \in Player
  BY LiveIsGood, PartyFields
<1> QED BY <1>1, <1>2 DEF IInv, Good, OfflineIsOut

\* Even where a leader may invite itself: a player's party and the parties' lists
\* agree, an invited player knows and is online, no party outlives its purpose.
THEOREM PartiesAreSound ==
  Spec => [](TypeOK /\ MembershipIsMutual /\ InvitedPlayersKnow /\ PartyHasAPurpose)
<1>1. IInv => TypeOK /\ MembershipIsMutual /\ InvitedPlayersKnow
  BY TypesFollow, MembershipFollows, InvitedFollow
<1>2. IInv => PartyHasAPurpose
  BY LiveIsGood DEF PartyHasAPurpose
<1> QED BY <1>1, <1>2, AlwaysGood, PTL

\* Inv: where nobody invites itself, nobody remembers an invitation that its party
\* does not, through joins, revocations, logouts and the end of parties.
THEOREM PartyIsSafe ==
  ASSUME SelfInvites = FALSE
  PROVE  Spec => []Inv
<1>1. IInv => InvitationsAreGood
  <2> SUFFICES ASSUME IInv, NEW p \in Player, NEW g \in player[p].invitePartyList
               PROVE  p \in party[g].inviteList
    BY DEF InvitationsAreGood
  <2>1. g \in Address
    BY PlayerFields DEF IInv, Good, Typed
  <2>2. Agrees(player, g, party[g])
    BY <2>1 DEF IInv, Good, PartyGood
  <2> QED BY <2>2 DEF Agrees
<1>2. IInv => TypeOK /\ MembershipIsMutual /\ InvitedPlayersKnow
  BY TypesFollow, MembershipFollows, InvitedFollow
<1>3. IInv => PartyHasAPurpose
  BY LiveIsGood DEF PartyHasAPurpose
<1>4. IInv => Inv
  BY <1>1, <1>2, <1>3 DEF Inv, InvitationsAreMutual
<1> QED BY <1>4, AlwaysGood, PTL

\* SharedExperienceIsDue: though computed only when something changes, shared
\* experience is in effect exactly when it is due, but for points that grew old.
THEOREM SharedExperienceFollows == Spec => []SharedExperienceIsDue
<1>1. IInv => SharedExperienceIsDue
  BY LiveIsGood DEF SharedExperienceIsDue, DueFor
<1> QED BY <1>1, AlwaysGood, PTL

=============================================================================
