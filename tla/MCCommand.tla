----------------------------- MODULE MCCommand -----------------------------
(* Finite instances of Command *)
EXTENDS Command

Empty == <<>>
OneShip == <<1>>
Second == [p \in {2} |-> 1]
Mixed == {[side |-> 1, kind |-> "fighter"], [side |-> 2, kind |-> "bomber"]}
=============================================================================
