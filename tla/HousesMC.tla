------------------------------ MODULE HousesMC -------------------------------
(* Two players.  Shop: the market with two offers.  Home: a house with rent in which     *)
(* things are left.  Post: the same with mail.  Guests: a house with a bed and a list of  *)
(* guests.  Street: two houses.                                                           *)
EXTENDS Houses, TLC

CONSTANTS p1, p2, o1, o2, h1, h2

MCPlayer == {p1, p2}
MCId == {o1, o2}
MCHouse == {h1, h2}

MCScenes ==
  { [houses |-> {}, beds |-> {}, deeds |-> {}],
    [houses |-> {h1}, beds |-> {}, deeds |-> {"sell", "give", "rent", "store"}],
    [houses |-> {h1}, beds |-> {}, deeds |-> {"give", "rent", "store", "mail"}],
    [houses |-> {h1}, beds |-> {h1}, deeds |-> {"sell", "give", "guests"}],
    [houses |-> MCHouse, beds |-> {}, deeds |-> {"sell", "rent"}] }

Symmetry == Permutations(MCPlayer) \cup Permutations(MCId)
=============================================================================
