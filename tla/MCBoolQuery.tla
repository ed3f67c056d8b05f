---------------------------- MODULE MCBoolQuery ----------------------------
(* Every query of up to 6 tokens over two words, in the three modes, with  *)
(* every text of up to 3 words.                                            *)
EXTENDS BoolMeaning, TLC

AllModes == {"all", "any", "bool"}

Exchange == Permutations(Words)
=============================================================================
