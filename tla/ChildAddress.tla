---------------------------- MODULE ChildAddress ----------------------------
(***************************************************************************)
(* Where a factory's child lives: a pure function of the factory, the      *)
(* template and a salt, which every SDK and every wallet computes for      *)
(* itself.  A byte string of fixed-width fields is the tuple of the fields,*)
(* and Poseidon2 is taken to have no collisions.                           *)
(***************************************************************************)
EXTENDS Integers

CONSTANTS
  Token,                \* the addresses that factories make children for
  Rank                  \* their order as byte strings

ASSUME RankAssumption ==
  /\ Rank \in [Token -> Int]
  /\ \A a, b \in Token : Rank[a] = Rank[b] => a = b

Poseidon2(bytes) == [poseidon2 |-> bytes]

DomainTag == "pyde-child:"

\* The salt in front of the template.
SwappedPreimage(parent, template, salt) == <<DomainTag, parent, salt, template>>

ChildPreimage(parent, template, salt) == <<DomainTag, parent, template, salt>>

ChildAddr(parent, template, salt) ==
  Poseidon2(ChildPreimage(parent, template, salt))

\* The addresses in the order they are given.
GivenOrder(a, b) == <<a, b>>

UnorderedPairEncoding(a, b) == IF Rank[a] <= Rank[b] THEN <<a, b>> ELSE <<b, a>>

SaltOfUnorderedPair(a, b) == Poseidon2(UnorderedPairEncoding(a, b))

\* Salt::of a counter: its one borsh value.
SaltOf(n) == Poseidon2(<<n>>)
=============================================================================
