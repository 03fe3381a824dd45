--------------------------- MODULE ChainhookStore ---------------------------
(***************************************************************************)
(* Chain ingestion: the Chainhook node follows the chain and sends, at      *)
(* least once, payloads of blocks to roll back and blocks to apply; one     *)
(* database transaction per payload turns them into contracts, tokens,      *)
(* SIP-019 notifications, FT supplies and pending jobs                      *)
(* (chainhook-pg-store.ts).  Meanwhile the jobs that import a contract's    *)
(* tokens and read an FT's supply ask a Stacks node that follows the same   *)
(* chain without waiting for the index.                                     *)
(*                                                                          *)
(* Granularity.  A step of the transaction is one block.  While it is open  *)
(* the jobs' own transactions wait: those that touch its rows do so in      *)
(* PostgreSQL, the others commute with it.                                  *)
(***************************************************************************)
EXTENDS BlockCache

CONSTANTS
  TokenOne,        \* [Contracts -> Tokens]: token number 1
  Huge,            \* the tokens whose number no bigint holds
  Blocks,
  Transactions,    \* [Blocks -> sequences of transactions]
  Height,          \* [Blocks -> Nat]
  Chains,          \* the chains the node may move to: sequences of blocks, by height
  Importable,      \* bound: the contracts that the admin may import
  MaxFaults        \* bound: answers lost, transactions killed, predicates registered anew,
                   \* contracts imported by the admin

\* token_update_mode
Modes == {"standard", "dynamic", "frozen"}

\* The default of chain_tip: the block below the first one that is ingested.
Genesis == 1

\* What the Chainhook node sends: a way from one chain to another.
Payloads == [rollback : Seq(Blocks), apply : Seq(Blocks), target : Chains \cup {<<>>}]

\* What BlockCache finds in each block.
Cache == [b \in Blocks |-> CacheOf(Transactions[b])]

ASSUME ChainAssumption ==
  /\ TokenOne \in [Contracts -> Tokens] /\ \A k \in Contracts : ContractOf[TokenOne[k]] = k
  /\ Huge \subseteq Tokens
  /\ Transactions \in [Blocks -> Seq(StacksTransactions)]
  /\ Height \in [Blocks -> Nat]
  /\ \A c \in Chains : c \in Seq(Blocks) /\ \A i \in DOMAIN c : Height[c[i]] = Genesis + i
  /\ Importable \subseteq Contracts
  /\ Null \notin Payloads
  /\ MaxFaults \in Nat

VARIABLES
  node,      \* the chain the Stacks and Chainhook nodes are on
  sent,      \* the chain the Chainhook node has delivered
  payload,   \* the payload it is sending, or Null
  phase,     \* "none", or where the transaction is: "rollback", "apply"
  pos,       \* the next block of that phase
  saved,     \* what an abort goes back to
  db,        \* the database
  imports,   \* per contract: the tokens ProcessSmartContractJob has read, or Null
  importing, \* the contract the admin has looked up and not inserted yet, or Null
  reads,     \* per FT: the supply ProcessTokenJob has read, or Null
  chain,     \* history: the blocks the database stands for
  resent,    \* history: a payload with rollbacks has been sent again after its commit
  diverged,  \* history: a predicate was registered when the node had left the chain
  faults     \* how much of the bound is used

vars == <<node, sent, payload, phase, pos, saved, db, imports, importing, reads, chain,
          resent, diverged, faults>>

Supplies == Int \cup {Null}
Databases ==
  [tip : {h \in Nat : h >= Genesis}, \* chain_tip
   contracts : SUBSET Contracts,  \* smart_contracts
   importDue : SUBSET Contracts,  \* those whose job is pending; the others' is settled
   tokens : SUBSET Tokens,        \* tokens
   pending : SUBSET Tokens,       \* those whose job is pending; the others' is settled
   stale : SUBSET Tokens,         \* those not updated for their refresh interval
   supply : [Tokens -> Supplies], \* total_supply
   notes : SUBSET [token : Tokens, height : Nat, tx : Nat, event : Nat, mode : Modes],
   early : SUBSET Tokens,         \* history: inserted by the contract's job before their mint
   dropped : SUBSET Tokens,       \* history: deleted with a later mint than their first
   raced : SUBSET Tokens,         \* history: given a supply not the chain's, or NULL for zero
   imported : SUBSET Contracts,   \* history: inserted by the admin, not on the chain
   failed : BOOLEAN]              \* a statement of the open transaction has failed

\* What a transaction that aborts goes back to.
Snapshots ==
  [db : Databases, chain : Seq(Blocks), imports : [Contracts -> (SUBSET Tokens) \cup {Null}],
   reads : [Tokens -> Supplies]]

TypeOK ==
  /\ node \in Chains \cup {<<>>}
  /\ sent \in Seq(Blocks)
  /\ payload \in {Null} \cup Payloads
  /\ phase \in {"none", "rollback", "apply"}
  /\ pos \in Nat
  /\ saved \in {Null} \cup Snapshots
  /\ db \in Databases
  /\ imports \in [Contracts -> (SUBSET Tokens) \cup {Null}]
  /\ importing \in Contracts \cup {Null}
  /\ reads \in [Tokens -> Supplies]
  /\ chain \in Seq(Blocks)
  /\ resent \in BOOLEAN /\ diverged \in BOOLEAN
  /\ faults \in 0..MaxFaults

-----------------------------------------------------------------------------
(* What a chain says: the events of its successful transactions.            *)

TransactionsIn(B) == UNION {ToSet(Transactions[b]) : b \in B}

\* The contracts that implement a standard, argument by argument, and define its
\* token.  Of a compound type only that it is one is looked at.
Alike(type, other) == type = other \/ {type, other} \cap SimpleTypes = {}
Implements(abi, trait) ==
  \A fun \in trait : \E f \in abi.functions :
    /\ f.name = fun.name /\ Len(f.args) = Len(fun.args)
    /\ \A i \in DOMAIN fun.args : Alike(f.args[i], fun.args[i])
TokenContracts ==
  {k \in Contracts :
     /\ Abi[k] # Null
     /\ \/ Implements(Abi[k], SftTraitFunctions)
        \/ Implements(Abi[k], NftTraitFunctions) /\ Abi[k].nonFungible > 0
        \/ Implements(Abi[k], FtTraitFunctions) /\ Abi[k].fungible > 0}

DeployedIn(B) == {tx.deploys : tx \in {x \in TransactionsIn(B) : x.success}} \cap TokenContracts
DeployedOn(c) == DeployedIn(ToSet(c))
Deployments == [b \in Blocks |-> DeployedIn({b})]

\* Block by block: the events of successful transactions, with their positions.
EventsOf == [b \in Blocks |->
  UNION {{[tx |-> i, event |-> j, sender |-> Transactions[b][i].sender,
           what |-> Transactions[b][i].events[j]] : j \in DOMAIN Transactions[b][i].events} :
         i \in {x \in DOMAIN Transactions[b] : Transactions[b][x].success}}]

Printed(e, topic) ==
  e.what.type = "SmartContractEvent" /\ e.what.value # Null /\ e.what.value.topic = topic

Mints == [b \in Blocks |->
  ({e.what.token : e \in {x \in EventsOf[b] : x.what.type = "NFTMintEvent"}} \ {Null})
  \cup {e.what.value.token : e \in {x \in EventsOf[b] : Printed(x, "sft_mint")}}]

MintedIn(B) == {t \in UNION {Mints[b] : b \in B} : ContractOf[t] \in DeployedIn(B)}
MintedOn(c) == MintedIn(ToSet(c))

\* What SIP-019 lets a block say of tokens.
Updates == [b \in Blocks |->
  {e \in EventsOf[b] : /\ Printed(e, "token-metadata-update")
                       /\ e.what.value.class \in {"ft", "nft"}
                       /\ Authorised(e.sender, e.what)}]
Names(e, t) ==
  /\ ContractOf[t] = e.what.value.contract
  /\ e.what.value.class = "ft" \/ e.what.value.tokens \in {Null, {}} \/ t \in e.what.value.tokens

SupplyDelta == [b \in Blocks |-> [k \in Contracts |->
  MapThenSumSet(LAMBDA e : IF e.what.type = "FTMintEvent" THEN e.what.amount ELSE -e.what.amount,
                {e \in EventsOf[b] : /\ e.what.type \in {"FTMintEvent", "FTBurnEvent"}
                                     /\ e.what.contract = k})]]
SupplyOn(c, k) == FoldLeft(LAMBDA sum, b : sum + SupplyDelta[b][k], 0, c)

\* On one chain a contract is deployed in one block, and its tokens are minted in no
\* block before that.
ASSUME HistoryAssumption ==
  \A c \in Chains : \A i \in DOMAIN c :
    /\ \A j \in DOMAIN c : DeployedIn({c[i]}) \cap DeployedIn({c[j]}) # {} => i = j
    /\ \A t \in Mints[c[i]] : ContractOf[t] \in TokenContracts =>
         \E j \in 1..i : ContractOf[t] \in DeployedIn({c[j]})

-----------------------------------------------------------------------------
(* The statements of a payload, as functions from database to database.     *)

\* Rows of tokens go, and what refers to them: ON DELETE CASCADE.
DeleteTokens(d, S) ==
  [d EXCEPT !.tokens = @ \ S, !.pending = @ \ S, !.stale = @ \ S, !.early = @ \ S,
            !.supply = [t \in Tokens |-> IF t \in S THEN Null ELSE @[t]],
            !.notes = {n \in @ : n.token \notin S}]

\* Rows of tokens are inserted, or set back to a new row's values, and their
\* jobs are pending.
InsertTokens(d, S) ==
  [d EXCEPT !.tokens = @ \cup S, !.pending = @ \cup S, !.stale = @ \ S,
            !.supply = [t \in Tokens |-> IF t \in S THEN Null ELSE @[t]]]

\* Mutant: the tokens of a contract that goes stay.
RollBackContractRows(d, b) ==
  LET gone == Cache[b].contracts
  IN [d EXCEPT !.contracts = @ \ gone, !.importDue = @ \ gone, !.imported = @ \ gone]

\* rollBackContractDeployment()
RollBackDeployments(d, b) ==
  LET gone == Cache[b].contracts
  IN [DeleteTokens(d, {t \in d.tokens : ContractOf[t] \in gone})
        EXCEPT !.contracts = @ \ gone, !.importDue = @ \ gone, !.imported = @ \ gone]

\* Mutant: nothing is deleted.
RollBackNoNotifications(d, b) == d

\* rollBackNotification(): by position, whatever the token.
RollBackNotifications(d, b) ==
  [d EXCEPT !.notes = {m \in @ : ~\E n \in ToSet(Cache[b].notifications) :
                         m.height = Height[b] /\ m.tx = n.tx /\ m.event = n.event}]

\* Mutant: nothing is deleted.
RollBackNoMints(d, b) == d

\* rollBackTokenMints(): also a token that an earlier block minted too.
RollBackMints(d, b) == DeleteTokens(d, Cache[b].nftMints \cup Cache[b].sftMints)

\* Mutant: a rollback does not negate the delta.
ChangeSupplyUp(d, b, sign) ==
  LET deltas == Cache[b].ftSupplyDelta
      changed == {t \in d.tokens : \E k \in d.contracts \cap DOMAIN deltas : t = TokenOne[k]}
  IN [d EXCEPT !.supply = [t \in Tokens |-> IF t \in changed /\ @[t] # Null
                                            THEN @[t] + deltas[ContractOf[t]]
                                            ELSE @[t]],
               !.stale = @ \ changed]

\* applyFtSupplyChange(): token number 1 of the contract, FT or not.  NULL + delta
\* is NULL.
ChangeSupply(d, b, sign) ==
  LET deltas == Cache[b].ftSupplyDelta
      changed == {t \in d.tokens : \E k \in d.contracts \cap DOMAIN deltas : t = TokenOne[k]}
  IN [d EXCEPT !.supply = [t \in Tokens |-> IF t \in changed /\ @[t] # Null
                                            THEN @[t] + sign * deltas[ContractOf[t]]
                                            ELSE @[t]],
               !.stale = @ \ changed]

RollBackTransactions(d, b) ==
  ChangeSupply(RollBackMints(RollBackNotifications(RollBackDeployments(d, b), b), b), b, -1)

\* enqueueContract()
EnqueueContracts(d, S) ==
  [d EXCEPT !.contracts = @ \cup S, !.importDue = @ \cup S]

\* applyContractDeployment(), for each.
ApplyDeployments(d, b) ==
  [EnqueueContracts(d, Cache[b].contracts) EXCEPT !.imported = @ \ Cache[b].contracts]

Later(m, n) ==
  \/ m.height > n.height
  \/ m.height = n.height /\ m.tx > n.tx
  \/ m.height = n.height /\ m.tx = n.tx /\ m.event > n.event
Latest(notes) == {n \in notes : \A m \in notes : ~Later(m, n)}
NotesOf(d, t) == {n \in d.notes : n.token = t}
FrozenIn(d, t) == \E n \in Latest(NotesOf(d, t)) : n.mode = "frozen"

\* applyNotification(): the tokens it names, or all of the contract's, unless
\* their latest mode is frozen.  A mode that is not in the enumeration and a
\* number that is no bigint fail, and so does a second row at one position.
ApplyNotification(d, b, n) ==
  LET affected == {t \in d.tokens : /\ ContractOf[t] = n.contract
                                    /\ n.tokens = {} \/ t \in n.tokens
                                    /\ ~FrozenIn(d, t)}
      rows == {[token |-> t, height |-> Height[b], tx |-> n.tx, event |-> n.event, mode |-> n.mode] :
               t \in affected}
      taken == \E r \in rows, m \in d.notes : [m EXCEPT !.mode = r.mode] = r
  IN CASE n.contract \notin d.contracts -> d
       [] n.contract \in d.contracts /\ (n.mode \notin Modes \/ n.tokens \cap Huge # {} \/ taken) ->
            [d EXCEPT !.failed = TRUE]
       [] OTHER -> [d EXCEPT !.notes = @ \cup rows, !.pending = @ \cup affected]

ApplyNotifications(d, b) ==
  FoldLeft(LAMBDA e, n : ApplyNotification(e, b, n), d, Cache[b].notifications)

\* applyTokenMints(): mints of unknown contracts are dropped.  Of the others, a
\* number that is no bigint fails.
ApplyMints(d, b) ==
  LET known == {t \in Cache[b].nftMints \cup Cache[b].sftMints : ContractOf[t] \in d.contracts}
  IN IF known \cap Huge # {} THEN [d EXCEPT !.failed = TRUE] ELSE InsertTokens(d, known)

ApplyTransactions(d, b) ==
  ChangeSupply(ApplyMints(ApplyNotifications(ApplyDeployments(d, b), b), b), b, 1)

\* enqueueDynamicTokensDueForRefresh(): the tokens that were ever marked dynamic
\* and are due.  The scalar subquery fails on more than one, as soon as some job
\* is settled.
DueForRefresh(d) == {t \in d.stale : \E n \in NotesOf(d, t) : n.mode = "dynamic"}
EnqueueDynamicTokens(d) ==
  LET settled == d.pending # d.tokens \/ d.importDue # d.contracts
  IN [d EXCEPT !.pending = @ \cup DueForRefresh(d),
               !.failed = @ \/ (Cardinality(DueForRefresh(d)) > 1 /\ settled)]

-----------------------------------------------------------------------------
(* The Chainhook node.                                                      *)

StoreUnchanged == UNCHANGED <<phase, pos, saved, db, imports, importing, reads, chain, resent>>

\* The chain grows or forks.
NodeMoves ==
  /\ \E c \in Chains \ {node} : node' = c
  /\ UNCHANGED <<sent, payload, diverged, faults>>
  /\ StoreUnchanged

CommonLen(c, d) ==
  CHOOSE n \in 0..Len(c) :
    /\ n <= Len(d) /\ SubSeq(c, 1, n) = SubSeq(d, 1, n)
    /\ n < Len(c) /\ n < Len(d) => c[n + 1] # d[n + 1]

\* A payload leads from the chain it has delivered to the one it is on.
Send ==
  /\ payload = Null
  /\ sent # node
  /\ LET fork == CommonLen(sent, node)
     IN payload' = [rollback |-> Reverse(SubSeq(sent, fork + 1, Len(sent))),
                    apply |-> SubSeq(node, fork + 1, Len(node)),
                    target |-> node]
  /\ UNCHANGED <<node, sent, diverged, faults>>
  /\ StoreUnchanged

\* startChainhookServer() registers its predicate, from the chain tip on: the
\* blocks from there are sent as they are now.
Register ==
  /\ faults < MaxFaults /\ faults' = faults + 1
  /\ phase = "none"
  /\ Genesis + Len(node) >= db.tip
  /\ payload' = [rollback |-> <<>>, target |-> node,
                 apply |-> SubSeq(node, Max({db.tip - Genesis, 1}), Len(node))]
  /\ diverged' = (diverged \/ ~IsPrefix(chain, node))
  /\ UNCHANGED <<node, sent>>
  /\ StoreUnchanged

-----------------------------------------------------------------------------
(* processPayload().                                                        *)

NodeUnchanged == UNCHANGED <<node, importing, diverged>>

BeginTransaction ==
  /\ phase = "none"
  /\ payload # Null
  /\ phase' = "rollback"
  /\ pos' = 1
  /\ saved' = [db |-> db, chain |-> chain, imports |-> imports, reads |-> reads]
  /\ UNCHANGED <<sent, payload, db, imports, reads, chain, resent, faults>>
  /\ NodeUnchanged

\* What a job holds of a deleted row is lost: its UPDATE finds no row of that id,
\* its INSERT no row to refer to.
RollBackBlock ==
  /\ phase = "rollback"
  /\ pos <= Len(payload.rollback)
  /\ LET b == payload.rollback[pos]
         below == {x \in ToSet(chain) : Height[x] < Height[b]}
     IN /\ db' = [RollBackTransactions(db, b)
                    EXCEPT !.dropped = (@ \cup Mints[b]) \cap MintedIn(below)]
        /\ imports' = [k \in Contracts |-> IF k \in Cache[b].contracts THEN Null ELSE imports[k]]
        /\ reads' = [t \in Tokens |-> IF t \in db'.tokens THEN reads[t] ELSE Null]
  /\ pos' = pos + 1
  /\ UNCHANGED <<sent, payload, phase, saved, chain, resent, faults>>
  /\ NodeUnchanged

\* Mutant: two below it.
TipFarBelow(earliest) == earliest - 2

\* The tip goes below the earliest block rolled back.
TipBelow(earliest) == earliest - 1

ResetTip ==
  /\ phase = "rollback"
  /\ pos > Len(payload.rollback)
  /\ IF payload.rollback = <<>>
     THEN UNCHANGED <<db, chain>>
     ELSE LET earliest == Min({Height[b] : b \in ToSet(payload.rollback)})
          IN /\ db' = [db EXCEPT !.tip = TipBelow(earliest)]
             /\ chain' = SubSeq(chain, 1, earliest - 1 - Genesis)
  /\ phase' = "apply"
  /\ pos' = 1
  /\ UNCHANGED <<sent, payload, saved, imports, reads, resent, faults>>
  /\ NodeUnchanged

ApplyBlock ==
  /\ phase = "apply"
  /\ ~db.failed
  /\ pos <= Len(payload.apply)
  /\ LET b == payload.apply[pos]
     IN IF Height[b] <= db.tip
        THEN UNCHANGED <<db, chain>>   \* previously ingested
        ELSE /\ db' = [EnqueueDynamicTokens(ApplyTransactions(db, b)) EXCEPT !.tip = Height[b]]
             /\ chain' = Append(chain, b)
  /\ pos' = pos + 1
  /\ UNCHANGED <<sent, payload, phase, saved, imports, reads, resent, faults>>
  /\ NodeUnchanged

\* COMMIT.  If the answer is lost, the payload comes again.
Commit ==
  /\ phase = "apply"
  /\ ~db.failed
  /\ pos > Len(payload.apply)
  /\ phase' = "none"
  /\ pos' = 0
  /\ saved' = Null
  /\ \/ /\ sent' = payload.target
        /\ payload' = Null
        /\ UNCHANGED <<resent, faults>>
     \/ /\ faults < MaxFaults /\ faults' = faults + 1
        /\ resent' = (resent \/ payload.rollback # <<>>)
        /\ UNCHANGED <<sent, payload>>
  /\ UNCHANGED <<db, imports, reads, chain>>
  /\ NodeUnchanged

\* ROLLBACK: a statement has failed, or the process or the connection dies.  The
\* Chainhook node sends the payload again.
Abort ==
  /\ phase # "none"
  /\ \/ db.failed /\ UNCHANGED faults
     \/ faults < MaxFaults /\ faults' = faults + 1
  /\ db' = saved.db /\ chain' = saved.chain
  /\ imports' = saved.imports /\ reads' = saved.reads
  /\ phase' = "none"
  /\ pos' = 0
  /\ saved' = Null
  /\ UNCHANGED <<sent, payload, resent>>
  /\ NodeUnchanged

-----------------------------------------------------------------------------
(* The jobs, and time.                                                      *)

ChainUnchanged == UNCHANGED <<node, sent, payload, phase, pos, saved, importing, chain, resent,
                              diverged, faults>>

\* ProcessSmartContractJob asks the Stacks node for an NFT's tokens,
\* 1..get-last-token-id; an FT has one.  For an SFT there is nothing to do: its
\* tokens come with its mints.
ContractJobReads(k) ==
  /\ phase = "none"
  /\ k \in db.importDue
  /\ imports[k] = Null
  /\ \/ /\ Sip[k] = "sip-009"
        /\ k \in DeployedOn(node)
        /\ imports' = [imports EXCEPT ![k] = {t \in MintedOn(node) : ContractOf[t] = k}]
        /\ UNCHANGED db
     \/ /\ Sip[k] = "sip-010"
        /\ imports' = [imports EXCEPT ![k] = {TokenOne[k]}]
        /\ UNCHANGED db
     \/ /\ Sip[k] = "sip-013"
        /\ db' = [db EXCEPT !.importDue = @ \ {k}]
        /\ UNCHANGED imports
  /\ UNCHANGED reads
  /\ ChainUnchanged

\* enqueueTokens(): insertAndEnqueueSequentialTokens(), and the job is done.
ContractJobInserts(k) ==
  /\ phase = "none"
  /\ imports[k] # Null
  /\ db' = [InsertTokens(db, imports[k])
              EXCEPT !.importDue = @ \ {k},
                     !.early = @ \cup (imports[k] \ (MintedOn(chain) \cup db.tokens))]
  /\ imports' = [imports EXCEPT ![k] = Null]
  /\ UNCHANGED reads
  /\ ChainUnchanged

\* handleFt() reads get-total-supply.
TokenJobReads(t) ==
  /\ phase = "none"
  /\ t \in db.pending
  /\ Sip[ContractOf[t]] = "sip-010"
  /\ ContractOf[t] \in DeployedOn(node)
  /\ reads[t] = Null
  /\ reads' = [reads EXCEPT ![t] = SupplyOn(node, ContractOf[t])]
  /\ UNCHANGED <<db, imports>>
  /\ ChainUnchanged

\* `if (totalSupply)`: zero is stored as NULL.
StoredSupply(n) == IF n = 0 THEN Null ELSE n

\* updateProcessedTokenWithMetadata(), and the job is done.
FtJobWrites(t) ==
  /\ phase = "none"
  /\ reads[t] # Null
  /\ db' = [db EXCEPT !.supply[t] = StoredSupply(reads[t]),
                      !.pending = @ \ {t}, !.stale = @ \ {t},
                      !.raced = IF reads[t] # 0 /\ reads[t] = SupplyOn(chain, ContractOf[t])
                                THEN @ \ {t} ELSE @ \cup {t}]
  /\ reads' = [reads EXCEPT ![t] = Null]
  /\ UNCHANGED imports
  /\ ChainUnchanged

\* An NFT's job, and an SFT's, whose supply no property here is about.
NftJobWrites(t) ==
  /\ phase = "none"
  /\ t \in db.pending
  /\ Sip[ContractOf[t]] # "sip-010"
  /\ db' = [db EXCEPT !.pending = @ \ {t}, !.stale = @ \ {t}]
  /\ UNCHANGED <<imports, reads>>
  /\ ChainUnchanged

\* The admin's import-contract looks a contract up in the Stacks API, which follows
\* the same chain, and inserts it later.
ImportContractReads(k) ==
  /\ faults < MaxFaults /\ faults' = faults + 1
  /\ importing = Null
  /\ k \in Importable \cap DeployedOn(node)
  /\ Sip[k] # Null
  /\ importing' = k
  /\ UNCHANGED <<node, sent, payload, diverged>>
  /\ UNCHANGED <<phase, pos, saved, db, imports, reads, chain, resent>>

ImportContractInserts ==
  /\ phase = "none"
  /\ importing # Null
  /\ db' = [EnqueueContracts(db, {importing})
              EXCEPT !.imported = @ \cup ({importing} \ DeployedOn(chain))]
  /\ importing' = Null
  /\ UNCHANGED <<node, sent, payload, phase, pos, saved, imports, reads, chain, resent,
                 diverged, faults>>

\* The refresh interval of a token that was marked dynamic passes.
IntervalPasses(t) ==
  /\ phase = "none"
  /\ t \in db.tokens \ db.stale
  /\ \E n \in NotesOf(db, t) : n.mode = "dynamic"
  /\ db' = [db EXCEPT !.stale = @ \cup {t}]
  /\ UNCHANGED <<imports, reads>>
  /\ ChainUnchanged

-----------------------------------------------------------------------------

EmptyDatabase ==
  [tip |-> Genesis, contracts |-> {}, importDue |-> {}, tokens |-> {}, pending |-> {}, stale |-> {},
   supply |-> [t \in Tokens |-> Null], notes |-> {}, early |-> {}, dropped |-> {}, raced |-> {},
   imported |-> {}, failed |-> FALSE]

Init ==
  /\ node = <<>> /\ sent = <<>> /\ chain = <<>>
  /\ payload = Null /\ phase = "none" /\ pos = 0 /\ saved = Null
  /\ db = EmptyDatabase
  /\ imports = [k \in Contracts |-> Null]
  /\ importing = Null
  /\ reads = [t \in Tokens |-> Null]
  /\ resent = FALSE /\ diverged = FALSE
  /\ faults = 0

ProcessPayload == BeginTransaction \/ RollBackBlock \/ ResetTip \/ ApplyBlock \/ Commit

Next ==
  \/ NodeMoves \/ Send \/ Register
  \/ ProcessPayload \/ Abort
  \/ \E k \in Contracts : ContractJobReads(k) \/ ContractJobInserts(k) \/ ImportContractReads(k)
  \/ ImportContractInserts
  \/ \E t \in Tokens : TokenJobReads(t) \/ FtJobWrites(t) \/ NftJobWrites(t) \/ IntervalPasses(t)

Spec == Init /\ [][Next]_vars

-----------------------------------------------------------------------------
(* Properties.                                                              *)

Committed == phase = "none"

\* Between payloads the contracts are those deployed on the ingested chain that
\* implement a standard, and those the admin has imported: a fork's deployments
\* are gone with it, and a payload that aborts, crashes or comes twice leaves no
\* trace (chainhook-pg-store.ts:21-56, 280-291; sip-validation.ts:219-254).
ContractsMatchChain ==
  Committed /\ ~diverged =>
    /\ DeployedOn(chain) \subseteq db.contracts
    /\ db.contracts \ db.imported \subseteq DeployedOn(chain)
    /\ db.tip = Genesis + Len(chain)

\* Every token minted on the ingested chain is in the index, unless the rollback of
\* a later mint has deleted it; and a token that is in it without having been minted
\* there was put there by its contract's job, reading a node that is ahead or on
\* another fork (chainhook-pg-store.ts:340-425, process-smart-contract-job.ts:51-82).
TokensMatchChain ==
  Committed /\ ~diverged =>
    /\ MintedOn(chain) \ db.dropped \subseteq db.tokens
    /\ db.tokens \ db.early \subseteq MintedOn(chain)

\* The notifications kept for a token are those that its contract, or who deployed
\* it, has sent since its mint in a transaction that succeeded, none after the one
\* that froze it: rollbacks undo exactly what applying did, in any sequence of forks
\* (sip-validation.ts:308-371, chainhook-pg-store.ts:207-261, 293-309).
NotedOn(c, t) ==
  LET minted(h) == \E i \in 1..(h - 1) : t \in Mints[c[i]]
      ModeOf(e) == IF e.what.value.mode \in {Null, ""} THEN "standard" ELSE e.what.value.mode
      all == UNION {{[token |-> t, height |-> Genesis + h, tx |-> e.tx, event |-> e.event,
                      mode |-> ModeOf(e)] : e \in {x \in Updates[c[h]] : Names(x, t)}} :
                    h \in {x \in DOMAIN c : minted(x)}}
  IN {n \in all : ~\E m \in all : m.mode = "frozen" /\ Later(n, m)}
NotificationsMatchChain ==
  Committed /\ ~diverged /\ ~resent =>
    \A t \in MintedOn(chain) \ (db.early \cup db.dropped) : NotesOf(db, t) = NotedOn(chain, t)

\* The supply of an FT is the chain's as soon as its job is done and whenever it has
\* one: what is minted and burned in every block applied, rolled back or applied
\* again adds up, and a supply that is gone is about to be read.  Left out are a
\* supply that was not the chain's when the job wrote it, or was zero, and the tokens
\* that an FT contract mints besides its own: what a block changes goes to number 1
\* alone (chainhook-pg-store.ts:38, 203-204, 263-278; process-token-job.ts:95-98).
SupplyExact ==
  Committed /\ ~diverged /\ ~resent =>
    \A t \in db.tokens \ db.raced :
      /\ Sip[ContractOf[t]] = "sip-010" /\ t = TokenOne[ContractOf[t]]
      /\ t \notin db.pending \/ db.supply[t] # Null
      => db.supply[t] = SupplyOn(chain, ContractOf[t])

\* No statement of a payload fails because of what the index already holds: a
\* payload whose statement fails is sent again, and fails again, for ever, and
\* ingestion stops (chainhook-pg-store.ts:22, 311-338).  env.ts:116: dynamic
\* metadata is refreshed each interval, however many tokens are dynamic.  Left out
\* is a block whose values the columns cannot hold: a mode that is not in the
\* enumeration, sent by the contract or its deployer (sip-validation.ts:350,
\* chainhook-pg-store.ts:244), and a number that is no bigint (:373).
Unstorable(b) ==
  \/ \E t \in Mints[b] : t \in Huge /\ ContractOf[t] \in TokenContracts
  \/ \E e \in {x \in Updates[b] : x.what.value.contract \in TokenContracts} :
       \/ e.what.value.mode \notin Modes \cup {Null, ""}
       \/ e.what.value.class = "nft" /\ e.what.value.tokens # Null /\ e.what.value.tokens \cap Huge # {}
NothingBlocksIngestion ==
  db.failed => resent \/ diverged \/ \E b \in ToSet(payload.apply) : Unstorable(b)

\* The refresh is the only statement that does: it fails when two tokens or more are
\* due (chainhook-pg-store.ts:328-336).  No other one does, in particular no second row
\* at one position of the chain (1721103820876_update-notifications.ts:43, a unique
\* key): the rows of a block are gone before another block, or the same one, is applied
\* at its height (chainhook-pg-store.ts:207-261, 293-309).
OnlyRefreshBlocks ==
  db.failed =>
    \/ resent \/ diverged
    \/ \E b \in ToSet(payload.apply) : Unstorable(b)
    \/ Cardinality(DueForRefresh(db)) > 1

\* What a reader of the database sees, TokenIndex tells: contracts and tokens move by
\* whole payloads, in any sequence of forks, aborts, crashes and repeated payloads, and
\* otherwise only grow, for contracts that are there (chainhook-pg-store.ts:21-56,
\* 58-99, 280-291, 398-425).
CommittedDb == IF Committed THEN db ELSE saved.db
Seen == INSTANCE TokenIndex WITH
  Deployed <- Deployments,
  Minted <- Mints,
  chain <- IF Committed THEN chain ELSE saved.chain,
  contracts <- CommittedDb.contracts,
  tokens <- CommittedDb.tokens,
  astray <- diverged
ImplementsIndex == Seen!Spec
=============================================================================
