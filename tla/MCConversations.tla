-------------------------- MODULE MCConversations --------------------------
(***************************************************************************)
(* Conversations with three exchanges that overlap in every way and are    *)
(* interchangeable, and stores of no, one and two interactions.            *)
(***************************************************************************)
EXTENDS Conversations, TLC

User(text)   == [system |-> FALSE, text |-> text]
System(text) == [system |-> TRUE, text |-> text]

MCBodies == {
  Opaque,
  [ok |-> TRUE, msgs |-> <<User(Given)>>],
  [ok |-> TRUE, msgs |-> <<System(Plain), System(Given)>>],
  [ok |-> TRUE, msgs |-> <<System(NotText), System(Given)>>]}

MCChatRequests == {
  [json |-> FALSE, system |-> None, history |-> <<>>],
  [json |-> TRUE, system |-> Plain, history |-> <<System(Given)>>],
  [json |-> TRUE, system |-> None, history |-> <<User(Given)>>]}

MCSymmetry == Permutations(Exchanges)
=============================================================================
