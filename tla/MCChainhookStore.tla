-------------------------- MODULE MCChainhookStore --------------------------
(* Instances of ChainhookStore for TLC: a tree of blocks with forks, some of  *)
(* which take the deployments with them.                                     *)
EXTENDS ChainhookStore, TLC

CONSTANTS
  nft, ft, sft, wrap,      \* a contract of each standard, and one of none
  n1, n2, f1, s1, s2, w1,      \* their tokens; the number of w1 is no bigint
  owner, other,            \* the principal that deploys the four, and another
  a1, a2, a3, b2, c1, c2, d2

MCContractOf == [t \in Tokens |-> CASE t = f1 -> ft [] t \in {s1, s2} -> sft [] t = w1 -> wrap [] OTHER -> nft]
MCTokenOne == (nft :> n1) @@ (ft :> f1) @@ (sft :> s1) @@ (wrap :> w1)
MCDeployer == [k \in Contracts |-> owner]

Interface(functions, fts, nfts) ==
  [functions |-> functions, fungible |-> fts, nonFungible |-> nfts]
\* The last has an FT's functions, except that its transfer names the sender last,
\* and a SIP-009 interface without a token.
MCAbi ==
  (nft :> Interface(NftTraitFunctions \cup {Function("mint", <<>>)}, 0, 1))
  @@ (ft :> Interface(FtTraitFunctions \cup {Function("mint", <<"uint128">>)}, 1, 0))
  @@ (sft :> Interface(SftTraitFunctions, 1, 1))
  @@ (wrap :> Interface({f \in FtTraitFunctions : f.name # "transfer"} \cup NftTraitFunctions
                        \cup {Function("transfer", <<"principal", "uint128", "principal", "buffer">>)}, 1, 0))

Tx(success, sender, deploys, events) ==
  [success |-> success, sender |-> sender, deploys |-> deploys, events |-> events]
Ok(deploys, events) == Tx(TRUE, owner, deploys, events)
Log(k, value) == [type |-> "SmartContractEvent", contract |-> k, value |-> value]
Update(k, S, m) ==
  [topic |-> "token-metadata-update", contract |-> k, class |-> "nft", tokens |-> S, mode |-> m]
NftMint(k, t) == [type |-> "NFTMintEvent", contract |-> k, token |-> t]
SftMint(k, t) == Log(k, [topic |-> "sft_mint", token |-> t])
FtMint(k, n) == [type |-> "FTMintEvent", contract |-> k, amount |-> n]
FtBurn(k, n) == [type |-> "FTBurnEvent", contract |-> k, amount |-> n]

\* On one fork the token is frozen and a later block tries to refresh it; on
\* another its deployer refreshes it, then it is dynamic; on the third an SFT is
\* minted twice.  What must not count: a transaction that failed, an update sent by
\* somebody else's contract, or for a class without updates, a log and a token of
\* another shape, a mint of a contract that is no token.
MCTransactions ==
  (a1 :> <<Ok(nft, <<>>), Ok(wrap, <<>>), Ok(ft, <<FtMint(ft, 2)>>),
           Ok(Null, <<NftMint(nft, n1), NftMint(nft, Null)>>)>>)
  @@ (a2 :> <<Tx(FALSE, owner, Null, <<Log(nft, Update(nft, {n1}, "standard"))>>),
              Tx(TRUE, other, Null, <<Log(nft, Update(nft, {n1}, "frozen"))>>),
              Ok(Null, <<Log(nft, Update(nft, Null, "dynamic")), FtMint(ft, 2), FtBurn(ft, 1)>>)>>)
  @@ (a3 :> <<Tx(TRUE, other, Null, <<Log(nft, Update(nft, {n1}, "")), FtBurn(ft, 1), NftMint(wrap, w1)>>)>>)
  @@ (b2 :> <<Tx(TRUE, other, Null, <<Log(wrap, Update(nft, {}, "frozen")), Log(nft, Null)>>),
              Ok(Null, <<Log(wrap, Update(nft, {n1}, Null)), FtBurn(ft, 1),
                         Log(nft, [Update(nft, {n1}, "frozen") EXCEPT !.class = "sft"]),
                         Log(nft, Update(nft, {}, "dynamic"))>>)>>)
  @@ (c1 :> <<Ok(sft, <<>>), Tx(FALSE, owner, ft, <<FtMint(ft, 1)>>), Ok(Null, <<SftMint(sft, s1)>>)>>)
  @@ (c2 :> <<Ok(ft, <<FtMint(ft, 3)>>),
              Ok(Null, <<Log(sft, Update(sft, Null, "standard")), FtMint(sft, 2), SftMint(sft, s1),
                         SftMint(sft, s2)>>)>>)
  @@ (d2 :> <<Ok(Null, <<Log(sft, Update(sft, Null, "static"))>>)>>)
MCHeight == [b \in Blocks |-> CASE b \in {a1, c1} -> 2 [] b = a3 -> 4 [] OTHER -> 3]
MCChains == {<<a1, a2, a3>>, <<a1, b2>>, <<c1>>, <<c1, c2>>, <<c1, d2>>}

\* Two dynamic tokens, and a block after.
TwoTransactions ==
  (a1 :> <<Ok(nft, <<NftMint(nft, n1), NftMint(nft, n2)>>)>>)
  @@ (a2 :> <<Ok(Null, <<Log(nft, Update(nft, Null, "dynamic"))>>)>>)
  @@ (a3 :> <<>>)
TwoChains == {<<a1, a2>>, <<a1, a2, a3>>}
=============================================================================
