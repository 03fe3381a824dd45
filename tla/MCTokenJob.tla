----------------------------- MODULE MCTokenJob -----------------------------
(* Instances of TokenJob for TLC: an FT and an NFT on one host.              *)
EXTENDS TokenJob, TLC

CONSTANTS f1, n1, h1, h2

MCTypeOf == [t \in Tokens |-> IF t = f1 THEN "ft" ELSE "nft"]
HandlerSymmetry == Permutations(Handlers)
=============================================================================
