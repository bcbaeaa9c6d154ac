------------------------------- MODULE WaitList -------------------------------
(****************************************************************************)
(* The waiting list of a full server (waitlist.cpp), as ProtocolGame::login *)
(* uses it.  A client that is turned away is told its place and when to try *)
(* again; its entry is kept for 15 seconds longer than that.  A place on    *)
(* the server is reserved for everybody further ahead, and premium clients  *)
(* stand before the others.                                                 *)
(*                                                                          *)
(* Time is counted in units of 5 seconds, of which all the times of the     *)
(* list are multiples; `timeout' and `retry' are what is left of them.      *)
(****************************************************************************)
EXTENDS Integers, FiniteSets, Lists

CONSTANTS
  Client,       \* account, address and name, of those there are: what findClient() compares
  Staff,        \* those who can always log in
  Patient,      \* those who come back when they were told to
  Account,      \* which accounts there are: TRUE is premium
  MaxPlayers    \* getMaxPlayersOnline()

ASSUME WaitListAssumption ==
  /\ IsFiniteSet(Client)
  /\ Staff \subseteq Client
  /\ Patient \subseteq Client
  /\ Account \subseteq BOOLEAN
  /\ MaxPlayers \in Nat

VARIABLES
  waitList,     \* the entries: whose, whether premium, and how long they last
  status,       \* per client: "away", "told" to come back, "online"
  told          \* per client that was told: its place (-1: none), when to retry

wvars == <<waitList, status, told>>

Margin == 3     \* "15 seconds longer than expected retry attempt"

WaitListInit ==
  /\ waitList = <<>>
  /\ status = [c \in Client |-> "away"]
  /\ told = [c \in Client |-> [place |-> -1, retry |-> 0]]

PlayersOnline == {c \in Client : status[c] = "online"}

----------------------------------------------------------------------------
(* The list *)

Places == 1..Len(waitList)

\* Where c stands in list, -1 if nowhere.
FindClient(list, c) ==
  IF \E i \in 1..Len(list) : list[i].client = c
  THEN CHOOSE i \in 1..Len(list) : list[i].client = c
  ELSE -1

GetTime(slot) ==
  CASE slot < 5 -> 1 [] slot < 10 -> 2 [] slot < 20 -> 4 [] slot < 50 -> 12 [] OTHER -> 24

\* Mutant: the entry lasts only until the retry is expected.
TimeOutAtRetry(slot) == GetTime(slot)

GetTimeOut(slot) == GetTime(slot) + Margin

CleanUp(list) == Only(list, [client : Client, premium : BOOLEAN, timeout : Nat \ {0}])

\* Mutant: the list is not looked at while there is room.
EnoughRoom == Cardinality(PlayersOnline) < MaxPlayers

\* "no waiting list and enough room"
NoWaiting == waitList = <<>> /\ Cardinality(PlayersOnline) < MaxPlayers

\* "should be able to login now"
HasPlace(slot) == Cardinality(PlayersOnline) + slot <= MaxPlayers

Entry(c, premium, slot) == [client |-> c, premium |-> premium, timeout |-> GetTimeOut(slot)]

\* Mutant: the last to come stands first.
InsertFirst(list, c, premium) == <<Entry(c, premium, 1)>> \o list

\* A premium client goes before the first that is not premium, and nowhere if
\* there is none; the others go to the end.
Insert(list, c, premium) ==
  LET others == {i \in 1..Len(list) : ~list[i].premium}
      first == CHOOSE i \in others : \A j \in others : i <= j
  IN  IF ~premium THEN Append(list, Entry(c, premium, Len(list) + 1))
      ELSE IF others = {} THEN list
      ELSE InsertAt(list, first, Entry(c, premium, first))

----------------------------------------------------------------------------
(* clientLogin(), and what login() does with the answer *)

\* Let in: the player may still fail to load or be stopped by a script.
GetsIn(c, list) ==
  /\ waitList' = list
  /\ \E result \in {"online", "away"} : status' = [status EXCEPT ![c] = result]
  /\ told' = [told EXCEPT ![c] = [place |-> -1, retry |-> 0]]

\* "You are at place ... on the waiting list", and the time to wait.
TurnedAway(c, list) ==
  LET slot == FindClient(list, c)
  IN  /\ waitList' = list
      /\ status' = [status EXCEPT ![c] = "told"]
      /\ told' = [told EXCEPT ![c] = [place |-> slot, retry |-> GetTime(slot)]]

LoginAlways(c) ==
  /\ c \in Staff /\ status[c] # "online"
  /\ GetsIn(c, waitList)

LoginAtOnce(c) ==
  /\ c \notin Staff /\ status[c] # "online"
  /\ NoWaiting
  /\ GetsIn(c, waitList)

LoginFromList(c) ==
  /\ c \notin Staff /\ status[c] # "online"
  /\ ~NoWaiting
  /\ \E list \in {CleanUp(waitList)} :
       LET slot == FindClient(list, c)
       IN  /\ slot # -1 /\ HasPlace(slot)
           /\ GetsIn(c, RemoveAt(list, slot))

\* "let them wait a bit longer"
WaitLonger(c) ==
  /\ c \notin Staff /\ status[c] # "online"
  /\ ~NoWaiting
  /\ \E list \in {CleanUp(waitList)} :
       LET slot == FindClient(list, c)
       IN  /\ slot # -1 /\ ~HasPlace(slot)
           /\ TurnedAway(c, [list EXCEPT ![slot].timeout = GetTimeOut(slot)])

JoinList(c) ==
  /\ c \notin Staff /\ status[c] # "online"
  /\ ~NoWaiting
  /\ \E list \in {CleanUp(waitList)} :
       /\ FindClient(list, c) = -1
       /\ \E premium \in Account : TurnedAway(c, Insert(list, c, premium))

ClientLogin(c) == LoginAtOnce(c) \/ LoginFromList(c) \/ WaitLonger(c) \/ JoinList(c)

----------------------------------------------------------------------------
(* The clients and the clock *)

Logout(c) ==
  /\ status[c] = "online"
  /\ status' = [status EXCEPT ![c] = "away"]
  /\ UNCHANGED <<waitList, told>>

GiveUp(c) ==
  /\ status[c] = "told" /\ c \notin Patient
  /\ status' = [status EXCEPT ![c] = "away"]
  /\ told' = [told EXCEPT ![c] = [place |-> -1, retry |-> 0]]
  /\ UNCHANGED waitList

\* Five seconds pass.  Patient clients are less than 15 seconds late; for the
\* others it is enough to know that they are.
Tick ==
  /\ \A c \in Patient : status[c] = "told" => told[c].retry > 1 - Margin
  /\ waitList' = [i \in Places |->
       [waitList[i] EXCEPT !.timeout = IF @ > 0 THEN @ - 1 ELSE 0]]
  /\ told' = [c \in Client |->
       [told[c] EXCEPT !.retry = IF status[c] = "told" /\ @ > -Margin THEN @ - 1 ELSE @]]
  /\ UNCHANGED status

WaitListNext ==
  \/ \E c \in Client : LoginAlways(c) \/ ClientLogin(c) \/ Logout(c) \/ GiveUp(c)
  \/ Tick

WaitListSpec == WaitListInit /\ [][WaitListNext]_wvars

\* Time passes, patient clients come back, and nobody plays for ever.
FairWaitListSpec ==
  /\ WaitListSpec
  /\ WF_wvars(Tick)
  /\ \A c \in Patient : WF_wvars(status[c] = "told" /\ told[c].retry <= 0 /\ ClientLogin(c))
  /\ \A c \in Client : WF_wvars(Logout(c))

----------------------------------------------------------------------------
\* The type invariant, and one entry per client.
WaitListTypeOK ==
  /\ waitList \in Seq([client : Client \ Staff, premium : Account, timeout : Nat])
  /\ \A i, j \in Places : waitList[i].client = waitList[j].client => i = j
  /\ status \in [Client -> {"away", "told", "online"}]
  /\ told \in [Client -> [place : {-1} \cup (Nat \ {0}), retry : Int]]

\* No premium client stands behind one that is not.
PremiumFirst ==
  \A i, j \in Places : (waitList[i].premium /\ ~waitList[j].premium) => i < j

\* A client that was given a place and is not 15 seconds late finds an entry that
\* has not timed out.
PlaceIsKept ==
  \A c \in Client :
    (status[c] = "told" /\ told[c].place # -1 /\ told[c].retry > -Margin) =>
      \E i \in Places : waitList[i].client = c /\ waitList[i].timeout > 0

\* One entry per client, in the right order, as long as the client was told.
WaitListInv == WaitListTypeOK /\ PremiumFirst /\ PlaceIsKept

\* The places of the clients still ahead are kept free: with whoever is let in,
\* the server has room for everybody who stood before and has not timed out.
Waiting(c) ==
  LET list == CleanUp(waitList)
      slot == FindClient(list, c)
  IN  IF slot = -1 THEN Len(list) ELSE slot - 1

RoomForThoseAhead ==
  [][\A c \in Client \ Staff :
       (status[c] # "online" /\ status'[c] = "online") =>
         Cardinality(PlayersOnline') + Waiting(c) <= MaxPlayers]_wvars

\* Nobody whose entry is still good is overtaken on the list, except by a premium
\* client that joins it.
NobodyIsOvertaken ==
  [][LET list == CleanUp(waitList)
     IN  \A n, m \in 1..Len(waitList') :
           LET before == FindClient(list, waitList'[n].client)
               after == FindClient(list, waitList'[m].client)
           IN  (n < m /\ waitList'[n].timeout > 0 /\ after # -1) =>
                 \/ before # -1 /\ before < after
                 \/ waitList'[n].premium /\ ~waitList'[m].premium]_wvars

\* Nobody has a right to go first: no premium client waits, none of the staff plays.
NoPrivilege ==
  /\ \A i \in Places : ~waitList[i].premium
  /\ \A c \in Staff : status[c] # "online"

\* A patient client that was given a place gets its turn, whatever the others do,
\* unless premium clients and staff keep going before it.
WaitingGetsIn ==
  <>[]NoPrivilege =>
    \A c \in Patient : (status[c] = "told" /\ told[c].place # -1) ~> status[c] # "told"

\* The comment in the code on how long an entry is kept, for every client that is
\* told to come back.
RetryInTimeFindsPlace ==
  \A c \in Client :
    (status[c] = "told" /\ told[c].retry > -Margin) =>
      \E i \in Places : waitList[i].client = c /\ waitList[i].timeout > 0
=============================================================================
