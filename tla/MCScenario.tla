----------------------------- MODULE MCScenario -----------------------------
(* Files that change a few things of the default scenario *)
EXTENDS Scenario

PatternSizes ==
    [t \in Types |-> CASE t = "flagship" -> 3
                       [] t \in {"carrier", "destroyer"} -> 2
                       [] OTHER -> 1]

Numbers == {10, 20, 40, 130}
Rocks == {<<5, 5>>, <<-1, 3>>}

Fleets == [side : {"republic"}, type : {"flagship", "fighter"}, n : {2}]
    \cup [side : {"cis"}, type : {"carrier"}, n : {-1}]
    \cup [side : {"cis"}, type : {"bomber"}, n : {3}]

ByHand == {[type |-> "carrier", side |-> "cis", pos |-> <<4, 5>>],
           [type |-> "fighter", side |-> "republic", pos |-> <<5, 5>>],
           [type |-> "elite", side |-> "cis", pos |-> <<130, 5>>]}

Modes == {"corners", "edges", "random", "line", "scattered"}
RandomNumbers == {<<0, 39>>, <<59, 7>>}
=============================================================================
