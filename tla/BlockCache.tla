----------------------------- MODULE BlockCache -----------------------------
(***************************************************************************)
(* What the service finds in a block: which deployed contracts are tokens  *)
(* (sip-validation.ts), and which contracts, notifications, mints and       *)
(* supply deltas a block's transactions stand for (block-cache.ts).  No     *)
(* state: ChainhookStore applies the result, and rolls it back.             *)
(*                                                                          *)
(* A token stands for its contract and number, a Clarity value for the      *)
(* tuple it decodes to, or Null when it is not of the shape that is looked  *)
(* for (the decoding throws and the event is passed over).                  *)
(***************************************************************************)
EXTENDS Integers, Sequences, SequencesExt

CONSTANTS
  Contracts,   \* contract principals
  Abi,         \* [Contracts -> their interface, or Null]
  Principals,  \* those who deploy contracts and send transactions
  Deployer,    \* [Contracts -> the principal before the dot of their identifier]
  Tokens,      \* (contract, token number) pairs
  ContractOf,  \* [Tokens -> Contracts]
  Null         \* SQL NULL; undefined; no payload, no value read

\* A log's value of one of the two shapes that are looked for.
LogValues ==
  [topic : {"sft_mint"}, token : Tokens]
  \cup [topic : {"token-metadata-update"}, contract : Contracts, class : STRING,
        tokens : {Null} \cup SUBSET Tokens, mode : {Null} \cup STRING]

\* Of an NFT the token is Null when its number is no integer.
Events ==
  [type : {"SmartContractEvent"}, contract : Contracts, value : {Null} \cup LogValues]
  \cup [type : {"FTMintEvent", "FTBurnEvent"}, contract : Contracts, amount : Nat]
  \cup [type : {"NFTMintEvent"}, contract : Contracts, token : {Null} \cup Tokens]

StacksTransactions ==
  [success : BOOLEAN, sender : Principals, deploys : {Null} \cup Contracts, events : Seq(Events)]

Sips == {"sip-009", "sip-010", "sip-013"}

ASSUME BlockCacheAssumption ==
  /\ ContractOf \in [Tokens -> Contracts]
  /\ Deployer \in [Contracts -> Principals]
  /\ Null \notin Contracts \cup Tokens \cup LogValues \cup Int \cup STRING \cup Sips

-----------------------------------------------------------------------------
(* Contract interfaces.                                                     *)

Function(name, args) == [name |-> name, args |-> args]

FtTraitFunctions ==
  {Function("transfer", <<"uint128", "principal", "principal", "optional buffer">>),
   Function("get-name", <<>>), Function("get-symbol", <<>>), Function("get-decimals", <<>>),
   Function("get-balance", <<"principal">>), Function("get-total-supply", <<>>),
   Function("get-token-uri", <<>>)}

NftTraitFunctions ==
  {Function("get-last-token-id", <<>>), Function("get-token-uri", <<"uint128">>),
   Function("get-owner", <<"uint128">>),
   Function("transfer", <<"uint128", "principal", "principal">>)}

SftTraitFunctions ==
  {Function("get-balance", <<"uint128", "principal">>),
   Function("get-overall-balance", <<"principal">>),
   Function("get-total-supply", <<"uint128">>), Function("get-overall-supply", <<>>),
   Function("get-decimals", <<"uint128">>), Function("get-token-uri", <<"uint128">>),
   Function("transfer", <<"uint128", "uint128", "principal", "principal">>),
   Function("transfer-memo", <<"uint128", "uint128", "principal", "principal", "buffer">>)}

\* toString() of an argument's type: a simple type is its own name, any other
\* is an object.
SimpleTypes == {"uint128", "int128", "bool", "principal", "trait_reference", "none"}
Text(type) == IF type \in SimpleTypes THEN type ELSE "[object Object]"

\* Mutant: the types of the arguments are not compared.
FindByName(fun, functions) ==
  \E f \in functions : f.name = fun.name /\ Len(f.args) = Len(fun.args)

\* By name and arguments; access and outputs are not compared.
FindFunction(fun, functions) ==
  \E f \in functions : /\ f.name = fun.name
                       /\ Len(f.args) = Len(fun.args)
                       /\ \A i \in DOMAIN fun.args : Text(f.args[i]) = Text(fun.args[i])

AbiContains(abi, trait) == \A fun \in trait : FindFunction(fun, abi.functions)

GetSmartContractSip(abi) ==
  IF abi = Null THEN Null
  ELSE IF AbiContains(abi, SftTraitFunctions) THEN "sip-013"
  ELSE IF abi.nonFungible > 0 /\ AbiContains(abi, NftTraitFunctions) THEN "sip-009"
  ELSE IF abi.fungible > 0 /\ AbiContains(abi, FtTraitFunctions) THEN "sip-010"
  ELSE Null

Sip == [k \in Contracts |-> GetSmartContractSip(Abi[k])]

-----------------------------------------------------------------------------
(* Contract logs.                                                           *)

\* SIP-019: the contract itself says so, or the principal that deployed it.
Authorised(sender, event) ==
  \/ event.value.contract = event.contract
  \/ sender = Deployer[event.value.contract]

\* Mutant: whoever says so.
AnyoneNotifies(sender, event) ==
  /\ event.value # Null
  /\ event.value.topic = "token-metadata-update"
  /\ event.value.class \in {"ft", "nft"}

\* getContractLogMetadataUpdateNotification() returns one.
Notifies(sender, event) ==
  /\ event.value # Null
  /\ event.value.topic = "token-metadata-update"
  /\ event.value.class \in {"ft", "nft"}
  /\ Authorised(sender, event)

\* What it returns, with its position.  No tokens are all tokens; only NFTs name them.  An empty or
\* missing mode is standard; any other text is taken as it is.
NotificationOf(event, i, j) ==
  [tx |-> i, event |-> j, contract |-> event.value.contract,
   tokens |-> IF event.value.class = "nft" /\ event.value.tokens # Null THEN event.value.tokens
              ELSE {},
   mode |-> IF event.value.mode \in {Null, ""} THEN "standard" ELSE event.value.mode]

\* getContractLogSftMintEvent() returns one: a token of the contract that prints it.
IsSftMint(event) == event.value # Null /\ event.value.topic = "sft_mint"

-----------------------------------------------------------------------------
(* class BlockCache.                                                        *)

EmptyCache ==
  [contracts |-> {}, notifications |-> <<>>, nftMints |-> {}, sftMints |-> {},
   ftSupplyDelta |-> [k \in {} |-> 0]]

\* The deltas of the FTs that a block mints or burns.
AddDelta(deltas, k, amount) ==
  [j \in DOMAIN deltas \cup {k} |->
     (IF j \in DOMAIN deltas THEN deltas[j] ELSE 0) + (IF j = k THEN amount ELSE 0)]

\* One event of transaction i, at position j.
CacheEvent(cache, tx, i, j) ==
  LET event == tx.events[j]
  IN CASE event.type = "SmartContractEvent" /\ Notifies(tx.sender, event) ->
            [cache EXCEPT !.notifications = Append(@, NotificationOf(event, i, j))]
       [] event.type = "SmartContractEvent" /\ IsSftMint(event) ->
            [cache EXCEPT !.sftMints = @ \cup {event.value.token}]
       [] event.type = "FTMintEvent" ->
            [cache EXCEPT !.ftSupplyDelta = AddDelta(@, event.contract, event.amount)]
       [] event.type = "FTBurnEvent" ->
            [cache EXCEPT !.ftSupplyDelta = AddDelta(@, event.contract, -event.amount)]
       [] event.type = "NFTMintEvent" /\ event.token # Null ->
            [cache EXCEPT !.nftMints = @ \cup {event.token}]
       [] OTHER -> cache

CacheDeployment(cache, tx) ==
  IF tx.deploys # Null /\ Sip[tx.deploys] # Null
  THEN [cache EXCEPT !.contracts = @ \cup {tx.deploys}]
  ELSE cache

\* transaction()
CacheTransaction(cache, tx, i) ==
  IF tx.success
  THEN FoldLeft(LAMBDA c, j : CacheEvent(c, tx, i, j), CacheDeployment(cache, tx),
                [j \in DOMAIN tx.events |-> j])
  ELSE cache

CacheOf(transactions) ==
  FoldLeft(LAMBDA c, i : CacheTransaction(c, transactions[i], i), EmptyCache,
           [i \in DOMAIN transactions |-> i])
=============================================================================
