----------------------------- MODULE MCConsole -----------------------------
(* A command that changes how the others are served, one that ends the      *)
(* simulation and is a console's last, a query, and one that is refused.    *)
EXTENDS Console

MCCommands ==
    {Command(op, 0) : op \in {"freeze", "getspeed", "end"}} \cup {Command("setspeed", -1)}
=============================================================================
