-------------------------------- MODULE Party --------------------------------
(****************************************************************************)
(* Parties (party.cpp, and the playerXxxParty functions of game.cpp).  A    *)
(* party points at its leader, members and invited players, and each of     *)
(* them points back at the party; a party deletes itself when nobody but    *)
(* its leader is left.  Shared experience is switched on by the leader and  *)
(* is in effect only while every member qualifies, which is computed when   *)
(* something that matters to it changes and not when it is used.            *)
(*                                                                          *)
(* Every handler is one task of the dispatcher, and so one step.  A Party   *)
(* is named after its address, which is free again once it is deleted.      *)
(****************************************************************************)
EXTENDS Integers, SequencesExt, FiniteSetsExt

CONSTANTS
  Player,
  Address,      \* where Party objects can be: bounds the parties at a time
  None,         \* the NULL pointer
  Levels,       \* the levels players may have
  Areas,        \* parts of the map more than 30 tiles from each other
  SelfInvites   \* FALSE: nobody invites itself, which the code does not refuse

ASSUME PartyAssumption ==
  /\ None \notin Player \cup Address \cup Areas
  /\ Levels \subseteq Nat \ {0} /\ Levels # {}
  /\ Areas # {}
  /\ SelfInvites \in BOOLEAN

VARIABLES
  player,       \* per player: online, party, invitePartyList, level, area, points
  party         \* per address: leader (None: no object there), the lists, the flags

vars == <<player, party>>

NoParty == [leader |-> None, memberList |-> <<>>, inviteList |-> {},
            sharedExpActive |-> FALSE, sharedExpEnabled |-> FALSE]

\* points: the entry in the party's pointMap
Offline ==
  [online |-> FALSE, party |-> None, invitePartyList |-> {}, level |-> 0, area |-> None,
   points |-> "none"]

Init ==
  /\ player = [p \in Player |-> Offline]
  /\ party = [g \in Address |-> NoParty]

Everybody(r) == ToSet(r.memberList) \cup {r.leader}

State == [player |-> player, party |-> party]

Becomes(s) == player' = s.player /\ party' = s.party

----------------------------------------------------------------------------
(* Shared experience *)

\* The level one must have: two thirds of the highest, rounded up.
MinLevel(levels) == LET highest == Max(levels) IN (2 * highest + 2) \div 3

CanUseSharedExperience(r, players, p, good) ==
  /\ r.memberList # <<>>
  /\ players[p].level >= MinLevel({players[q].level : q \in Everybody(r)})
  /\ players[p].area = players[r.leader].area
  /\ players[p].points \in good

CanEnable(r, players, good) ==
  \A p \in Everybody(r) : CanUseSharedExperience(r, players, p, good)

\* updateSharedExperience() of the party r.
Updated(r, players) ==
  IF r.sharedExpActive
  THEN [r EXCEPT !.sharedExpEnabled = CanEnable(r, players, {"recent"})] ELSE r

\* The same for the party of p, if it has one, once p is as in `players'.
UpdateFor(p, players) ==
  /\ player' = players
  /\ party' = IF players[p].party = None THEN party
              ELSE [party EXCEPT ![players[p].party] = Updated(@, players)]

----------------------------------------------------------------------------
(* The operations of a Party, from one state to the next *)

DisbandParty(r) == r.memberList = <<>> /\ r.inviteList = {}

\* Mutant: the invited players are not told.
DisbandedSilently(s, g) ==
  LET r == s.party[g]
  IN  [player |-> [p \in Player |->
         IF p \in Everybody(r)
         THEN [s.player[p] EXCEPT !.party = None, !.points = "none"] ELSE s.player[p]],
       party |-> [s.party EXCEPT ![g] = NoParty]]

\* disband(): leader, members and invited players forget the party.
Disbanded(s, g) ==
  LET r == s.party[g]
      Forget(p) ==
        LET q == IF p \in r.inviteList
                 THEN [s.player[p] EXCEPT !.invitePartyList = @ \ {g}] ELSE s.player[p]
        IN  IF p \in Everybody(r) THEN [q EXCEPT !.party = None, !.points = "none"] ELSE q
  IN  [player |-> [p \in Player |-> Forget(p)],
       party |-> [s.party EXCEPT ![g] = NoParty]]

DisbandedIfEmpty(s, g) == IF DisbandParty(s.party[g]) THEN Disbanded(s, g) ELSE s

\* passPartyLeadership(): the old leader becomes the first member.
Passed(r, players, p) ==
  Updated([r EXCEPT !.leader = p, !.memberList = <<r.leader>> \o RemoveFirst(@, p)], players)

\* leaveParty(): a leader passes the leadership on first, unless the party ends.
Left(s, p) ==
  LET g == s.player[p].party
      r == s.party[g]
      alone == r.leader = p /\ (r.memberList = <<>>
                                \/ (Len(r.memberList) = 1 /\ r.inviteList = {}))
      passed == IF r.leader = p /\ ~alone THEN Passed(r, s.player, Head(r.memberList)) ELSE r
      players == [s.player EXCEPT ![p].party = None, ![p].points = "none"]
      rest == Updated([passed EXCEPT !.memberList = RemoveFirst(@, p),
                                     !.inviteList = @ \ {p}], players)
      left == [player |-> players, party |-> [s.party EXCEPT ![g] = rest]]
  IN  IF alone THEN Disbanded(left, g) ELSE DisbandedIfEmpty(left, g)

\* removeInvite(), which does nothing unless p is on the list (called through the
\* pointer to a deleted party, it is taken to find that it is not).
Uninvited(s, g, p) ==
  IF p \notin s.party[g].inviteList THEN s
  ELSE DisbandedIfEmpty(
         [player |-> [s.player EXCEPT ![p].invitePartyList = @ \ {g}],
          party |-> [s.party EXCEPT ![g].inviteList = @ \ {p}]], g)

\* clearPartyInvitations(): the player forgets them, then removeInvite() of every party.
Cleared(s, p) ==
  LET rest == [g \in Address |-> [s.party[g] EXCEPT !.inviteList = @ \ {p}]]
      invited == {g \in s.player[p].invitePartyList : p \in s.party[g].inviteList}
      ended == {g \in invited : DisbandParty(rest[g])}
      Forget(q) == IF \E g \in ended : q \in Everybody(rest[g])
                   THEN [s.player[q] EXCEPT !.party = None, !.points = "none"] ELSE s.player[q]
  IN  [player |-> [q \in Player |->
         IF q = p THEN [Forget(q) EXCEPT !.invitePartyList = {}] ELSE Forget(q)],
       party |-> [g \in Address |->
         IF g \in ended THEN NoParty ELSE IF g \in invited THEN rest[g] ELSE s.party[g]]]

----------------------------------------------------------------------------
(* What players ask for: playerInviteToParty() and so on *)

IsInviting(p, q) ==
  /\ player[p].party # None
  /\ party[player[p].party].leader = p
  /\ q \in party[player[p].party].inviteList

\* The first invitation makes the party.  Nothing keeps p from inviting itself.
Invite(p, q) ==
  /\ p = q => SelfInvites
  /\ player[p].online /\ player[q].online
  /\ ~IsInviting(q, p)
  /\ player[q].party = None
  /\ \E g \in Address :
       /\ IF player[p].party # None
          THEN g = player[p].party /\ party[g].leader = p
          ELSE party[g] = NoParty
       /\ q \notin party[g].inviteList
       /\ player' = [player EXCEPT ![p].party = g, ![q].invitePartyList = @ \cup {g}]
       /\ party' = [party EXCEPT ![g].leader = p, ![g].inviteList = @ \cup {q}]

\* Mutant: a newcomer is counted in without asking what it has done so far.
JoinWithoutUpdate(p, leader) ==
  /\ player[p].online /\ player[leader].online
  /\ IsInviting(leader, p)
  /\ player[p].party = None
  /\ LET g == player[leader].party
     IN  /\ player' = [player EXCEPT ![p].party = g, ![p].invitePartyList = @ \ {g}]
         /\ party' = [party EXCEPT ![g].memberList = Append(@, p), ![g].inviteList = @ \ {p}]

Join(p, leader) ==
  /\ player[p].online /\ player[leader].online
  /\ IsInviting(leader, p)
  /\ player[p].party = None
  /\ LET g == player[leader].party
         players == [player EXCEPT ![p].party = g, ![p].invitePartyList = @ \ {g}]
         joined == [party[g] EXCEPT !.memberList = Append(@, p), !.inviteList = @ \ {p}]
     IN  /\ player' = players
         /\ party' = [party EXCEPT ![g] = Updated(joined, players)]

Revoke(p, q) ==
  /\ player[p].online /\ player[q].online
  /\ IsInviting(p, q)
  /\ Becomes(Uninvited(State, player[p].party, q))

PassLeadership(p, q) ==
  /\ player[p].online /\ player[q].online /\ p # q
  /\ player[p].party # None /\ player[q].party = player[p].party
  /\ party[player[p].party].leader = p
  /\ party' = [party EXCEPT ![player[p].party] = Passed(@, player, q)]
  /\ UNCHANGED player

\* Refused while in a fight.
Leave(p) ==
  /\ player[p].online /\ player[p].party # None
  /\ Becomes(Left(State, p))

EnableSharedExperience(p, active) ==
  /\ player[p].online /\ player[p].party # None
  /\ LET g == player[p].party
     IN  /\ party[g].leader = p /\ party[g].sharedExpActive # active
         /\ party' = [party EXCEPT ![g] = Updated([@ EXCEPT !.sharedExpActive = active], player)]
  /\ UNCHANGED player

----------------------------------------------------------------------------
(* What happens to players *)

Login(p) ==
  /\ ~player[p].online
  /\ \E level \in Levels, area \in Areas :
       player' = [player EXCEPT ![p] =
         [Offline EXCEPT !.online = TRUE, !.level = level, !.area = area]]
  /\ UNCHANGED party

\* onCreatureDisappear(): clearPartyInvitations(), then leaveParty().  The Player
\* object of the next login is a new one.
Disappear(p) ==
  /\ player[p].online
  /\ LET cleared == Cleared(State, p)
         s == IF cleared.player[p].party = None THEN cleared ELSE Left(cleared, p)
     IN  Becomes([s EXCEPT !.player[p] = Offline])

Move(p) ==
  /\ player[p].online
  /\ \E area \in Areas \ {player[p].area} :
       UpdateFor(p, [player EXCEPT ![p].area = area])

Advance(p) ==
  /\ player[p].online
  /\ \E level \in Levels :
       level > player[p].level /\ UpdateFor(p, [player EXCEPT ![p].level = level])

\* addPlayerHealedMember(), addPlayerDamageMonster().
AddPoints(p) ==
  /\ player[p].party # None /\ player[p].points # "recent"
  /\ UpdateFor(p, [player EXCEPT ![p].points = "recent"])

\* onIdleStatus().
ClearPoints(p) ==
  /\ player[p].points # "none"
  /\ UpdateFor(p, [player EXCEPT ![p].points = "none"])

\* getInFightTicks() go by.
PointsAge(p) ==
  /\ player[p].points = "recent"
  /\ player' = [player EXCEPT ![p].points = "old"]
  /\ UNCHANGED party

Next ==
  \E p \in Player :
    \/ \E q \in Player : Invite(p, q) \/ Join(p, q) \/ Revoke(p, q) \/ PassLeadership(p, q)
    \/ Leave(p) \/ Login(p) \/ Disappear(p)
    \/ \E active \in BOOLEAN : EnableSharedExperience(p, active)
    \/ Move(p) \/ Advance(p) \/ AddPoints(p) \/ ClearPoints(p) \/ PointsAge(p)

Spec == Init /\ [][Next]_vars

----------------------------------------------------------------------------
Live == {g \in Address : party[g].leader # None}

\* The type invariant.
TypeOK ==
  /\ player \in [Player ->
       [online : BOOLEAN, party : Address \cup {None}, invitePartyList : SUBSET Address,
        level : Levels \cup {0},
        area : Areas \cup {None}, points : {"none", "recent", "old"}]]
  /\ party \in [Address ->
       [leader : Player \cup {None}, memberList : Seq(Player), inviteList : SUBSET Player,
        sharedExpActive : BOOLEAN, sharedExpEnabled : BOOLEAN]]

\* A player's party is the one it leads or is a member of, once; the party is there,
\* and everybody in it is online.
MembershipIsMutual ==
  /\ \A p \in Player : player[p].party # None =>
       player[p].party \in Live /\ p \in Everybody(party[player[p].party])
  /\ \A g \in Live :
       /\ \A p \in Everybody(party[g]) : player[p].party = g /\ player[p].online
       /\ IsInjective(<<party[g].leader>> \o party[g].memberList)

\* Whoever is on a party's list of invited players knows, and is still online.
InvitedPlayersKnow ==
  \A g \in Live : \A p \in party[g].inviteList :
    player[p].online /\ g \in player[p].invitePartyList

\* Nobody remembers an invitation that the party does not, or that comes from a party
\* that was deleted: logging out calls removeInvite() of every party remembered.  Not
\* so for a leader that invited itself: leaveParty() takes it off the list only.
InvitationsAreGood ==
  \A p \in Player : \A g \in player[p].invitePartyList : p \in party[g].inviteList

\* Players and parties agree on who is invited, through joins, revocations, logouts
\* and the end of the party.
InvitationsAreMutual == InvitedPlayersKnow /\ InvitationsAreGood

\* A party has a member or an invited player besides its leader.
PartyHasAPurpose == \A g \in Live : ~DisbandParty(party[g])

\* Who is in which party, and who may join it, for the lifetime of the Party objects.
Inv == TypeOK /\ MembershipIsMutual /\ InvitationsAreMutual /\ PartyHasAPurpose

\* Shared experience is in effect only while everybody qualifies but for the age of
\* what they did, and is not held back when everybody does.
SharedExperienceIsDue ==
  \A g \in Live : party[g].sharedExpActive =>
    /\ party[g].sharedExpEnabled => CanEnable(party[g], player, {"recent", "old"})
    /\ CanEnable(party[g], player, {"recent"}) => party[g].sharedExpEnabled
=============================================================================
