------------------------------ MODULE TokenIndex ------------------------------
(***************************************************************************)
(* What the ingestion promises whoever reads the database, without saying    *)
(* how: contracts and tokens follow the chain payload by payload.  A reader  *)
(* sees all that a payload did to them or nothing of it, whatever its        *)
(* statements, aborts and jobs in between were; and nothing but a payload    *)
(* takes a contract or a token away.                                        *)
(***************************************************************************)
EXTENDS Integers, Sequences

CONSTANTS
  Contracts, Tokens,
  ContractOf,   \* [Tokens -> Contracts]
  Chains,       \* sequences of blocks
  Deployed,     \* per block: the contracts of a token standard that it deploys
  Minted        \* per block: the tokens that it mints

VARIABLES
  chain,      \* the blocks that the index stands for
  contracts,
  tokens,
  astray      \* a predicate was registered when the node had left the chain

vars == <<chain, contracts, tokens, astray>>

DeployedIn(B) == UNION {Deployed[b] : b \in B}
MintedIn(B) == UNION {Minted[b] : b \in B}

\* The way from one chain to another, from height n on, as one step.  It is taken
\* at least once: by an index that is at its beginning, or already at its end.
Follow(old, new, n) ==
  /\ chain \in {old, new} /\ chain' = new
  /\ n <= Len(new) /\ \A i \in 1..n : old[i] = new[i]
  /\ LET left == {old[i] : i \in (n + 1)..Len(old)}
         entered == {new[i] : i \in (n + 1)..Len(new)}
     IN /\ contracts' = (contracts \ DeployedIn(left)) \cup DeployedIn(entered)
        /\ tokens' = {t \in tokens : t \notin MintedIn(left) /\ ContractOf[t] \notin DeployedIn(left)}
                     \cup {t \in MintedIn(entered) : ContractOf[t] \in contracts'}
  /\ UNCHANGED astray

\* The admin imports a contract.
AddContract(k) ==
  /\ contracts' = contracts \cup {k}
  /\ UNCHANGED <<chain, tokens, astray>>

\* The job of a contract that is there adds tokens of it.
AddTokens(k, S) ==
  /\ k \in contracts
  /\ tokens' = tokens \cup S
  /\ UNCHANGED <<chain, contracts, astray>>

\* Nothing is promised of an index that has lost the chain.
Stray ==
  /\ astray'
  /\ astray \/ UNCHANGED <<chain, contracts, tokens>>

Init == chain = <<>> /\ contracts = {} /\ tokens = {} /\ ~astray

Next ==
  \/ Stray
  \/ \E k \in Contracts :
       \/ AddContract(k)
       \/ \E S \in SUBSET {t \in Tokens : ContractOf[t] = k} : AddTokens(k, S)
  \/ \E new \in Chains \cup {<<>>} : \E old \in Chains \cup {chain} : \E n \in 0..Len(old) :
       Follow(old, new, n)

Spec == Init /\ [][Next]_vars
=============================================================================
