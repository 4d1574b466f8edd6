-------------------------- MODULE MCRailwayDeployer -------------------------
(* Instances of RailwayDeployer for TLC; tenants and ids are numbers. *)
EXTENDS RailwayDeployer, TLC

(* Ids are random and only compared: let tenant n draw 10n + 1, 10n + 2... *)
DrawnInOrder ==
    /\ \A x, y \in ServiceIds :
         x < y /\ x \div 10 = y \div 10 /\ y \in drawn => x \in drawn
    /\ \A s \in ServiceIds : Exists(s) => services[s].tenant = s \div 10
=============================================================================
