---------------------------- MODULE MCSharedSite ----------------------------
(* Stretches of code for SharedSite.                                         *)
EXTENDS SharedSite

P(c, r) == [checks |-> c, range |-> r]

(* "cave" and "nop" share a signature; "pair" has two patches, the second of *)
(* which runs over the end of the first, located by bytes further on.        *)
GuardedPlaces == 1..8
GuardedSeq == [o \in {"cave", "nop", "pair"} |->
  CASE o = "cave" -> <<P(1..4, 1..3)>>
    [] o = "nop" -> <<P(1..4, 2..3)>>
    [] o = "pair" -> <<P({4, 5}, 5..6), P({8}, 6..7)>>]

(* Two caves that run past the end of their signatures, into one another.    *)
LoosePlaces == 1..4
LooseSeq == [o \in {"first", "second"} |->
  CASE o = "first" -> <<P({1}, 1..3)>>
    [] o = "second" -> <<P({4}, 3..4)>>]
=============================================================================
