-------------------------- MODULE MCIdentityTokens --------------------------
(* Values of the constants of IdentityTokens for TLC. *)
EXTENDS IdentityTokens

(* The tags of a capability token, and of one that has none. *)
OneFrame == [base |-> "secret", chain |-> <<NoText>>]
MCTags == {OneFrame, EmptyTag}

(* State constraint: histories of at most MaxComposed chains. *)
CONSTANT MaxComposed
Bounded == Cardinality(composed) <= MaxComposed
=============================================================================
