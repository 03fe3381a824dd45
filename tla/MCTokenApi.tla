----------------------------- MODULE MCTokenApi -----------------------------
(* Instances of TokenApi for TLC.                                            *)
EXTENDS TokenApi

\* The FT's URL, with and without a locale.
FtUrls == {[number |-> 1, locale |-> FALSE], [number |-> 1, locale |-> TRUE]}
\* The second NFT of a contract, with a locale.
LocalizedUrls == {[number |-> 2, locale |-> TRUE]}
=============================================================================
