---------------------------- MODULE MCEngagement ----------------------------
(* Small engagements: a battleship with a squadron against one enemy *)
EXTENDS Engagement

U(t, s, p) == [type |-> t, side |-> s, pos |-> p]
Line == {0, 4, 7, 12, 20}
Starts == {<<U("destroyer", 1, 4), U("bomber", 1, 7), U("flagship", 2, 12)>>,
           <<U("flagship", 1, 0), U("fighter", 1, 4), U("elite", 2, 20)>>,
           <<U("carrier", 1, 0), U("elite", 1, 4), U("bomber", 2, 12)>>}
Newcomers == {U("fighter", 1, 7), U("bomber", 2, 12), U("elite", 0, 4)}
=============================================================================
