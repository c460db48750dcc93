---------------------------- MODULE MCFlyString ----------------------------
(* FlyString for TLC: the texts are short character sequences, so that  *)
(* two texts can share a prefix ("a" and "ab") and to_lowercase can map  *)
(* one text onto another ("A" to "a").                                   *)
EXTENDS FlyString, TLC

MCContents == {<<"a">>, <<"A">>, <<"a", "b">>}

Symmetry == Permutations(Impls) \cup Permutations(Strs) \cup Permutations(Flys)
=============================================================================
