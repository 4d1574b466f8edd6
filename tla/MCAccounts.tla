----------------------------- MODULE MCAccounts ----------------------------
(* Instances of Accounts for TLC; ids and tokens are numbers. *)
EXTENDS Accounts, TLC

(* User ids, tokens and tenant ids are random: it is enough to look at the *)
(* behaviours that draw them in increasing order.                          *)
InOrder(S) == \A x, y \in S : x < y /\ y \in drawn => x \in drawn

DrawnInOrder == InOrder(UserIds) /\ InOrder(Tokens) /\ InOrder(Tenants)

Symmetry == Permutations(Handlers) \cup Permutations(Emails)
                \cup Permutations(Passwords)
=============================================================================
