------------------------ MODULE ChainhookStoreProofs ------------------------
(* Theorems about ChainhookStore, for any contracts, blocks and chains, and any *)
(* number of faults.                                                          *)
EXTENDS ChainhookStore, BlockCacheProofs, FiniteSetTheorems

-----------------------------------------------------------------------------
(* What a block says, and what the service finds in it.                     *)

\* Arguments that are alike read alike.
LEMMA AlikeIsText ==
  ASSUME NEW type, NEW other PROVE (Text(type) = Text(other)) <=> Alike(type, other)
<1>1. "[object Object]" \notin SimpleTypes
  BY DEF SimpleTypes
<1> QED BY <1>1 DEF Text, Alike

LEMMA AbiImplements ==
  ASSUME NEW abi, NEW trait PROVE AbiContains(abi, trait) <=> Implements(abi, trait)
BY AlikeIsText DEF AbiContains, FindFunction, Implements

\* The contracts of a standard are those that implement one.
LEMMA SipOfTokenContracts ==
  ASSUME NEW k \in Contracts PROVE Sip[k] # Null <=> k \in TokenContracts
<1> DEFINE abi == Abi[k]
           sft == AbiContains(abi, SftTraitFunctions)
           nft == abi.nonFungible > 0 /\ AbiContains(abi, NftTraitFunctions)
           ft == abi.fungible > 0 /\ AbiContains(abi, FtTraitFunctions)
<1>1. Null # "sip-009" /\ Null # "sip-010" /\ Null # "sip-013"
  BY BlockCacheAssumption DEF Sips
<1>2. k \in TokenContracts <=> abi # Null /\ (sft \/ nft \/ ft)
  BY AbiImplements DEF TokenContracts
<1>3. Sip[k] = IF abi = Null THEN Null ELSE IF sft THEN "sip-013" ELSE IF nft THEN "sip-009"
               ELSE IF ft THEN "sip-010" ELSE Null
  BY DEF Sip, GetSmartContractSip
<1> HIDE DEF abi, sft, nft, ft
<1> QED BY <1>1, <1>2, <1>3

LEMMA BlockTyped ==
  ASSUME NEW b \in Blocks PROVE Transactions[b] \in Seq(StacksTransactions)
BY ChainAssumption

LEMMA CacheTyped ==
  ASSUME NEW b \in Blocks PROVE Cache[b] = CacheOf(Transactions[b]) /\ Cache[b] \in Caches
BY BlockTyped, CacheContents DEF Cache

LEMMA DeployedInOne ==
  ASSUME NEW b \in Blocks PROVE Cache[b].contracts = DeployedIn({b})
<1> DEFINE txs == Transactions[b]
<1>1. txs \in Seq(StacksTransactions)
  BY BlockTyped
<1>2. Cache[b].contracts = UNION {DeployedBy(txs[j]) : j \in DOMAIN txs}
  BY <1>1, CacheTyped, CacheContents
<1>3. \A j \in DOMAIN txs : txs[j] \in StacksTransactions
  BY <1>1
<1>4. ASSUME NEW tx \in StacksTransactions, NEW k
      PROVE  k \in DeployedBy(tx) <=> tx.success /\ k = tx.deploys /\ k \in TokenContracts
  <2>1. tx.deploys \in {Null} \cup Contracts
    BY DEF StacksTransactions
  <2>2. Null \notin TokenContracts
    BY BlockCacheAssumption DEF TokenContracts
  <2> QED BY <2>1, <2>2, SipOfTokenContracts DEF DeployedBy
<1>5. ASSUME NEW k
      PROVE  k \in DeployedIn({b}) <=>
               \E j \in DOMAIN txs : txs[j].success /\ k = txs[j].deploys /\ k \in TokenContracts
  BY DEF DeployedIn, TransactionsIn, ToSet
<1>6. ASSUME NEW k
      PROVE  k \in Cache[b].contracts <=>
               \E j \in DOMAIN txs : txs[j].success /\ k = txs[j].deploys /\ k \in TokenContracts
  <2> HIDE DEF txs
  <2> QED BY <1>2, <1>3, <1>4
<1> QED BY <1>5, <1>6

LEMMA MintedInOne ==
  ASSUME NEW b \in Blocks PROVE Cache[b].nftMints \cup Cache[b].sftMints = Mints[b]
<1> DEFINE txs == Transactions[b]
<1>1. txs \in Seq(StacksTransactions)
  BY BlockTyped
<1>2. MintsIn(Cache[b]) = UNION {MintedBy(txs[j]) : j \in DOMAIN txs}
  BY <1>1, CacheTyped, CacheContents
<1>3. ASSUME NEW t
      PROVE  t \in MintsIn(Cache[b]) <=>
               \E i \in DOMAIN txs : /\ txs[i].success
                                     /\ \E j \in DOMAIN txs[i].events : t \in MintOf(txs[i].events[j])
  BY <1>2 DEF MintedBy
<1>4. ASSUME NEW t
      PROVE  t \in Mints[b] <=> \E e \in EventsOf[b] : t \in MintOf(e.what)
  BY DEF Mints, MintOf, Printed, IsSftMint
<1>5. ASSUME NEW t
      PROVE  (\E e \in EventsOf[b] : t \in MintOf(e.what)) <=>
               \E i \in DOMAIN txs : /\ txs[i].success
                                     /\ \E j \in DOMAIN txs[i].events : t \in MintOf(txs[i].events[j])
  <2> DEFINE event(i, j) == [tx |-> i, event |-> j, sender |-> txs[i].sender,
                             what |-> txs[i].events[j]]
  <2>1. ASSUME NEW e
        PROVE  e \in EventsOf[b] <=>
                 \E i \in DOMAIN txs : /\ txs[i].success
                                       /\ \E j \in DOMAIN txs[i].events : e = event(i, j)
    BY DEF EventsOf
  <2>2. \A i, j : event(i, j).what = txs[i].events[j]
    OBVIOUS
  <2> HIDE DEF event, txs
  <2> QED BY <2>1, <2>2
<1> HIDE DEF txs
<1> QED BY <1>3, <1>4, <1>5 DEF MintsIn

-----------------------------------------------------------------------------
(* What the statements of a payload do to the rows.                         *)

\* What the invariant is about.
Index(d) == <<d.tip, d.contracts, d.tokens, d.imported, d.early, d.dropped>>

LEMMA DeletedTyped ==
  ASSUME NEW d \in Databases, NEW S
  PROVE  /\ DeleteTokens(d, S) \in Databases
         /\ Index(DeleteTokens(d, S))
              = <<d.tip, d.contracts, d.tokens \ S, d.imported, d.early \ S, d.dropped>>
         /\ DeleteTokens(d, S).failed = d.failed
<1> DEFINE supply == [t \in Tokens |-> IF t \in S THEN Null ELSE d.supply[t]]
           notes == {n \in d.notes : n.token \notin S}
<1>1. supply \in [Tokens -> Supplies]
  BY DEF Databases, Supplies
<1>2. DeleteTokens(d, S) = [d EXCEPT !.tokens = d.tokens \ S, !.pending = d.pending \ S,
                                     !.stale = d.stale \ S, !.early = d.early \ S,
                                     !.supply = supply, !.notes = notes]
  BY DEF DeleteTokens, Databases
<1>3. notes \subseteq d.notes
  OBVIOUS
<1> DEFINE r == [d EXCEPT !.tokens = d.tokens \ S, !.pending = d.pending \ S,
                          !.stale = d.stale \ S, !.early = d.early \ S,
                          !.supply = supply, !.notes = notes]
<1> HIDE DEF supply, notes
<1>4. r \in Databases
  BY <1>1, <1>3 DEF Databases
<1>5. /\ r.tip = d.tip /\ r.contracts = d.contracts /\ r.tokens = d.tokens \ S
      /\ r.imported = d.imported /\ r.early = d.early \ S /\ r.dropped = d.dropped
      /\ r.failed = d.failed
  BY DEF Databases
<1> HIDE DEF r
<1> QED BY <1>2, <1>4, <1>5 DEF r, Index

LEMMA InsertedTyped ==
  ASSUME NEW d \in Databases, NEW S \in SUBSET Tokens
  PROVE  /\ InsertTokens(d, S) \in Databases
         /\ Index(InsertTokens(d, S))
              = <<d.tip, d.contracts, d.tokens \cup S, d.imported, d.early, d.dropped>>
         /\ InsertTokens(d, S).failed = d.failed
<1> DEFINE supply == [t \in Tokens |-> IF t \in S THEN Null ELSE d.supply[t]]
<1>1. supply \in [Tokens -> Supplies]
  BY DEF Databases, Supplies
<1>2. InsertTokens(d, S) = [d EXCEPT !.tokens = d.tokens \cup S, !.pending = d.pending \cup S,
                                     !.stale = d.stale \ S, !.supply = supply]
  BY DEF InsertTokens, Databases
<1> DEFINE r == [d EXCEPT !.tokens = d.tokens \cup S, !.pending = d.pending \cup S,
                                     !.stale = d.stale \ S, !.supply = supply]
<1> HIDE DEF supply
<1>3. r \in Databases
  BY <1>1 DEF Databases
<1>4. /\ r.tip = d.tip /\ r.contracts = d.contracts /\ r.tokens = d.tokens \cup S
      /\ r.imported = d.imported /\ r.early = d.early /\ r.dropped = d.dropped
      /\ r.failed = d.failed
  BY DEF Databases
<1> HIDE DEF r
<1> QED BY <1>2, <1>3, <1>4 DEF r, Index

LEMMA ContractsEnqueued ==
  ASSUME NEW d \in Databases, NEW S \in SUBSET Contracts
  PROVE  /\ EnqueueContracts(d, S) \in Databases
         /\ Index(EnqueueContracts(d, S))
              = <<d.tip, d.contracts \cup S, d.tokens, d.imported, d.early, d.dropped>>
         /\ EnqueueContracts(d, S).failed = d.failed
BY DEF EnqueueContracts, Databases, Index

\* A supply plus what a block changes of it.
LEMMA SupplyChanged ==
  ASSUME NEW d \in Databases, NEW b \in Blocks, NEW sign \in Int
  PROVE  /\ ChangeSupply(d, b, sign) \in Databases
         /\ Index(ChangeSupply(d, b, sign)) = Index(d)
         /\ ChangeSupply(d, b, sign).failed = d.failed
<1> DEFINE deltas == Cache[b].ftSupplyDelta
           changed == {t \in d.tokens : \E k \in d.contracts \cap DOMAIN deltas : t = TokenOne[k]}
           supply == [t \in Tokens |-> IF t \in changed /\ d.supply[t] # Null
                                       THEN d.supply[t] + sign * deltas[ContractOf[t]]
                                       ELSE d.supply[t]]
<1>1. deltas \in Deltas
  BY CacheTyped DEF Caches
<1>2. \A k \in DOMAIN deltas : deltas[k] \in Int
  BY <1>1 DEF Deltas
<1>3. \A t \in changed : ContractOf[t] \in DOMAIN deltas
  BY ChainAssumption DEF Databases
<1>4. \A t \in Tokens : d.supply[t] \in Int \cup {Null}
  BY DEF Databases, Supplies
<1>5. ChangeSupply(d, b, sign) = [d EXCEPT !.supply = supply, !.stale = d.stale \ changed]
  BY DEF ChangeSupply, Databases
<1> HIDE DEF deltas, changed
<1>6. supply \in [Tokens -> Supplies]
  <2> SUFFICES ASSUME NEW t \in Tokens PROVE supply[t] \in Supplies
    OBVIOUS
  <2>1. CASE t \in changed /\ d.supply[t] # Null
    <3>1. d.supply[t] \in Int /\ deltas[ContractOf[t]] \in Int
      BY <1>2, <1>3, <1>4, <2>1
    <3>2. sign * deltas[ContractOf[t]] \in Int
      BY <3>1
    <3> QED BY <2>1, <3>1, <3>2 DEF Supplies
  <2>2. CASE ~(t \in changed /\ d.supply[t] # Null)
    BY <2>2, <1>4 DEF Supplies
  <2> QED BY <2>1, <2>2
<1> HIDE DEF supply
<1> QED BY <1>5, <1>6 DEF Databases, Index

\* The rows that refer to a contract are of one that is there.
Owns(d) ==
  /\ d.importDue \subseteq d.contracts
  /\ \A t \in d.tokens : ContractOf[t] \in d.contracts

\* A token is as it was, or its job is pending, and its supply is the one it had or
\* is to be read.
Milder(d, r) ==
  /\ r.raced = d.raced
  /\ Owns(d) => Owns(r)
  /\ \A t \in r.tokens : \/ t \in r.pending /\ r.supply[t] = Null
                         \/ /\ t \in d.tokens /\ r.supply[t] = d.supply[t]
                            /\ t \in d.pending => t \in r.pending

LEMMA MilderSelf == ASSUME NEW d PROVE Milder(d, d)
BY DEF Milder

LEMMA MilderTwice ==
  ASSUME NEW d, NEW e, NEW r, Milder(d, e), Milder(e, r) PROVE Milder(d, r)
<1>1. r.raced = d.raced /\ (Owns(d) => Owns(r))
  BY DEF Milder
<1>2. ASSUME NEW t \in r.tokens
      PROVE  \/ t \in r.pending /\ r.supply[t] = Null
             \/ /\ t \in d.tokens /\ r.supply[t] = d.supply[t]
                /\ t \in d.pending => t \in r.pending
  <2>1. CASE t \in r.pending /\ r.supply[t] = Null
    BY <2>1
  <2>2. CASE /\ t \in e.tokens /\ r.supply[t] = e.supply[t]
             /\ t \in e.pending => t \in r.pending
    <3>1. \/ t \in e.pending /\ e.supply[t] = Null
          \/ /\ t \in d.tokens /\ e.supply[t] = d.supply[t]
             /\ t \in d.pending => t \in e.pending
      BY <2>2 DEF Milder
    <3> QED BY <2>2, <3>1
  <2> QED BY <2>1, <2>2 DEF Milder
<1> QED BY <1>1, <1>2 DEF Milder

LEMMA DeletedMilder ==
  ASSUME NEW d \in Databases, NEW S PROVE Milder(d, DeleteTokens(d, S))
<1> DEFINE supply == [t \in Tokens |-> IF t \in S THEN Null ELSE d.supply[t]]
           r == DeleteTokens(d, S)
<1>1. /\ r.tokens = d.tokens \ S /\ r.pending = d.pending \ S /\ r.supply = supply
      /\ r.raced = d.raced /\ r.importDue = d.importDue /\ r.contracts = d.contracts
  BY DEF DeleteTokens, Databases
<1>2. d.tokens \subseteq Tokens
  BY DEF Databases
<1> HIDE DEF r
<1>3. Owns(d) => Owns(r)
  BY <1>1 DEF Owns
<1>4. \A t \in r.tokens : t \in d.tokens /\ r.supply[t] = d.supply[t]
                          /\ (t \in d.pending => t \in r.pending)
  BY <1>1, <1>2
<1>5. Milder(d, r)
  BY <1>1, <1>3, <1>4 DEF Milder
<1> QED BY <1>5 DEF r

LEMMA InsertedMilder ==
  ASSUME NEW d \in Databases, NEW S \in SUBSET Tokens, \A t \in S : ContractOf[t] \in d.contracts
  PROVE  Milder(d, InsertTokens(d, S))
<1> DEFINE supply == [t \in Tokens |-> IF t \in S THEN Null ELSE d.supply[t]]
           r == InsertTokens(d, S)
<1>1. /\ r.tokens = d.tokens \cup S /\ r.pending = d.pending \cup S /\ r.supply = supply
      /\ r.raced = d.raced /\ r.importDue = d.importDue /\ r.contracts = d.contracts
  BY DEF InsertTokens, Databases
<1>2. d.tokens \subseteq Tokens
  BY DEF Databases
<1> HIDE DEF r
<1>3. Owns(d) => Owns(r)
  BY <1>1 DEF Owns
<1>4. \A t \in r.tokens : \/ t \in r.pending /\ r.supply[t] = Null
                          \/ /\ t \in d.tokens /\ r.supply[t] = d.supply[t]
                             /\ t \in d.pending => t \in r.pending
  <2> SUFFICES ASSUME NEW t \in r.tokens
               PROVE  \/ t \in r.pending /\ r.supply[t] = Null
                      \/ /\ t \in d.tokens /\ r.supply[t] = d.supply[t]
                         /\ t \in d.pending => t \in r.pending
    OBVIOUS
  <2>1. CASE t \in S
    BY <1>1, <2>1
  <2>2. CASE t \notin S
    BY <1>1, <1>2, <2>2
  <2> QED BY <2>1, <2>2
<1>5. Milder(d, r)
  BY <1>1, <1>3, <1>4 DEF Milder
<1> QED BY <1>5 DEF r

LEMMA EnqueuedMilder ==
  ASSUME NEW d \in Databases, NEW S \in SUBSET Contracts PROVE Milder(d, EnqueueContracts(d, S))
<1> DEFINE r == EnqueueContracts(d, S)
<1>1. /\ r.tokens = d.tokens /\ r.pending = d.pending /\ r.supply = d.supply /\ r.raced = d.raced
      /\ r.importDue = d.importDue \cup S /\ r.contracts = d.contracts \cup S
  BY DEF EnqueueContracts, Databases
<1> HIDE DEF r
<1>2. Owns(d) => Owns(r)
  BY <1>1 DEF Owns
<1>3. Milder(d, r)
  BY <1>1, <1>2 DEF Milder
<1> QED BY <1>3 DEF r

\* More jobs are pending, and nothing else that counts here changes.
LEMMA PendingMilder ==
  ASSUME NEW d, NEW r, r.tokens = d.tokens, d.pending \subseteq r.pending, r.supply = d.supply,
         r.raced = d.raced, r.importDue \subseteq d.importDue, r.contracts = d.contracts
  PROVE  Milder(d, r)
<1>1. Owns(d) => Owns(r)
  BY DEF Owns
<1> QED BY <1>1 DEF Milder

\* A block that is rolled back takes its contracts, their tokens and the tokens it mints.
LEMMA BlockRolledBack ==
  ASSUME NEW d \in Databases, NEW b \in Blocks
  PROVE  LET gone == Cache[b].contracts
             r == RollBackTransactions(d, b)
         IN /\ r \in Databases
            /\ r.tip = d.tip /\ r.failed = d.failed /\ r.dropped = d.dropped
            /\ r.contracts = d.contracts \ gone /\ r.imported = d.imported \ gone
            /\ r.tokens = {t \in d.tokens : ContractOf[t] \notin gone /\ t \notin Mints[b]}
            /\ r.tokens \cap d.early \subseteq r.early
<1> DEFINE gone == Cache[b].contracts
           theirs == {t \in d.tokens : ContractOf[t] \in gone}
           d0 == DeleteTokens(d, theirs)
           d1 == RollBackDeployments(d, b)
           d2 == RollBackNotifications(d1, b)
           d3 == RollBackMints(d2, b)
           d4 == ChangeSupply(d3, b, -1)
<1>1. /\ d0 \in Databases /\ d0.failed = d.failed
      /\ Index(d0) = <<d.tip, d.contracts, d.tokens \ theirs, d.imported, d.early \ theirs, d.dropped>>
  BY DeletedTyped
<1>2. d1 = [d0 EXCEPT !.contracts = d0.contracts \ gone, !.importDue = d0.importDue \ gone,
                      !.imported = d0.imported \ gone]
  BY <1>1 DEF RollBackDeployments, Databases
<1> HIDE DEF d0, theirs, gone
<1>3. /\ d1 \in Databases /\ d1.failed = d.failed
      /\ Index(d1) = <<d.tip, d.contracts \ gone, d.tokens \ theirs, d.imported \ gone,
                       d.early \ theirs, d.dropped>>
  <2> DEFINE r == [d0 EXCEPT !.contracts = d0.contracts \ gone, !.importDue = d0.importDue \ gone,
                             !.imported = d0.imported \ gone]
  <2>1. r \in Databases
    BY <1>1 DEF Databases
  <2>2. /\ r.tip = d0.tip /\ r.contracts = d0.contracts \ gone /\ r.tokens = d0.tokens
        /\ r.imported = d0.imported \ gone /\ r.early = d0.early /\ r.dropped = d0.dropped
        /\ r.failed = d0.failed
    BY <1>1 DEF Databases
  <2>3. /\ d0.tip = d.tip /\ d0.contracts = d.contracts /\ d0.tokens = d.tokens \ theirs
        /\ d0.imported = d.imported /\ d0.early = d.early \ theirs /\ d0.dropped = d.dropped
    BY <1>1 DEF Index
  <2> HIDE DEF r
  <2> QED BY <1>1, <1>2, <2>1, <2>2, <2>3 DEF r, Index
<1> HIDE DEF d1
<1>4. d2 \in Databases /\ d2.failed = d1.failed /\ Index(d2) = Index(d1)
  BY <1>3 DEF RollBackNotifications, Databases, Index
<1> HIDE DEF d2
<1>5. /\ d3 \in Databases /\ d3.failed = d2.failed
      /\ Index(d3) = <<d2.tip, d2.contracts, d2.tokens \ Mints[b], d2.imported, d2.early \ Mints[b],
                       d2.dropped>>
  BY <1>4, MintedInOne, DeletedTyped DEF RollBackMints
<1> HIDE DEF d3
<1>6. d4 \in Databases /\ d4.failed = d3.failed /\ Index(d4) = Index(d3)
  <2>1. -1 \in Int
    OBVIOUS
  <2> QED BY <1>5, <2>1, SupplyChanged
<1>7. RollBackTransactions(d, b) = d4
  BY DEF RollBackTransactions, d3, d2, d1
<1> HIDE DEF d4
<1>8. /\ d4.tip = d.tip /\ d4.failed = d.failed /\ d4.dropped = d.dropped
      /\ d4.contracts = d.contracts \ gone /\ d4.imported = d.imported \ gone
      /\ d4.tokens = (d.tokens \ theirs) \ Mints[b] /\ d4.early = (d.early \ theirs) \ Mints[b]
  BY <1>3, <1>4, <1>5, <1>6 DEF Index
<1> QED BY <1>6, <1>7, <1>8 DEF theirs, gone

LEMMA NotificationApplied ==
  ASSUME NEW d \in Databases, NEW b \in Blocks, NEW n \in Notifications
  PROVE  /\ ApplyNotification(d, b, n) \in Databases
         /\ Index(ApplyNotification(d, b, n)) = Index(d)
         /\ d.failed => ApplyNotification(d, b, n).failed
         /\ Milder(d, ApplyNotification(d, b, n))
<1> DEFINE affected == {t \in d.tokens : /\ ContractOf[t] = n.contract
                                         /\ n.tokens = {} \/ t \in n.tokens
                                         /\ ~FrozenIn(d, t)}
           rows == {[token |-> t, height |-> Height[b], tx |-> n.tx, event |-> n.event,
                     mode |-> n.mode] : t \in affected}
           taken == \E x \in rows, m \in d.notes : [m EXCEPT !.mode = x.mode] = x
           fails == n.mode \notin Modes \/ n.tokens \cap Huge # {} \/ taken
           r == ApplyNotification(d, b, n)
           Good == /\ r \in Databases /\ Index(r) = Index(d) /\ (d.failed => r.failed)
                   /\ Milder(d, r)
<1>1. affected \subseteq d.tokens
  OBVIOUS
<1>2. \/ r = d
      \/ r = [d EXCEPT !.failed = TRUE]
      \/ n.mode \in Modes /\ r = [d EXCEPT !.notes = d.notes \cup rows, !.pending = d.pending \cup affected]
  <2>1. r = CASE n.contract \notin d.contracts -> d
              [] n.contract \in d.contracts /\ fails -> [d EXCEPT !.failed = TRUE]
              [] OTHER -> [d EXCEPT !.notes = @ \cup rows, !.pending = @ \cup affected]
    BY DEF ApplyNotification
  <2>2. fails \/ n.mode \in Modes
    OBVIOUS
  <2> HIDE DEF r, rows, affected, fails
  <2> QED BY <2>1, <2>2 DEF Databases
<1> HIDE DEF rows, affected
<1>3. ASSUME r = d PROVE Good
  <2>1. Milder(d, d)
    BY MilderSelf
  <2> HIDE DEF r
  <2> QED BY <1>3, <2>1
<1>4. ASSUME r = [d EXCEPT !.failed = TRUE] PROVE Good
  <2> DEFINE q == [d EXCEPT !.failed = TRUE]
  <2>1. q \in Databases /\ q.failed
    BY DEF Databases
  <2>2. /\ q.tip = d.tip /\ q.contracts = d.contracts /\ q.tokens = d.tokens
        /\ q.imported = d.imported /\ q.early = d.early /\ q.dropped = d.dropped
    BY DEF Databases
  <2>3. Index(q) = Index(d)
    BY <2>2 DEF Index
  <2>4. /\ q.pending = d.pending /\ q.supply = d.supply /\ q.raced = d.raced
        /\ q.importDue = d.importDue
    BY DEF Databases
  <2> HIDE DEF q, r
  <2>5. Milder(d, q)
    BY <2>2, <2>4, PendingMilder
  <2> QED BY <1>4, <2>1, <2>3, <2>5 DEF q
<1>5. ASSUME n.mode \in Modes, r = [d EXCEPT !.notes = d.notes \cup rows, !.pending = d.pending \cup affected]
      PROVE  Good
  <2> DEFINE q == [d EXCEPT !.notes = d.notes \cup rows, !.pending = d.pending \cup affected]
  <2>1. rows \subseteq [token : Tokens, height : Nat, tx : Nat, event : Nat, mode : Modes]
    <3>1. d.tokens \subseteq Tokens
      BY DEF Databases
    <3>2. Height[b] \in Nat /\ n.tx \in Nat /\ n.event \in Nat
      BY ChainAssumption DEF Notifications
    <3> QED BY <1>1, <1>5, <3>1, <3>2 DEF rows
  <2>2. q \in Databases
    BY <1>1, <2>1 DEF Databases
  <2>3. /\ q.tip = d.tip /\ q.contracts = d.contracts /\ q.tokens = d.tokens
        /\ q.imported = d.imported /\ q.early = d.early /\ q.dropped = d.dropped
        /\ q.failed = d.failed
    BY DEF Databases
  <2>4. Index(q) = Index(d)
    BY <2>3 DEF Index
  <2>5. /\ q.pending = d.pending \cup affected /\ q.supply = d.supply /\ q.raced = d.raced
        /\ q.importDue = d.importDue
    BY DEF Databases
  <2> HIDE DEF q, r
  <2>6. Milder(d, q)
    BY <2>3, <2>5, PendingMilder
  <2> QED BY <1>5, <2>2, <2>3, <2>4, <2>6 DEF q
<1>6. Good
  <2> HIDE DEF r, Good
  <2> QED BY <1>2, <1>3, <1>4, <1>5
<1> QED BY <1>6

\* The notifications of a block are applied one after the other.
LEMMA NotificationsInTurn ==
  ASSUME NEW d \in Databases, NEW b \in Blocks
  PROVE  LET notes == Cache[b].notifications
         IN \E g : /\ g[0] = d /\ ApplyNotifications(d, b) = g[Len(notes)]
                   /\ \A j \in 1..Len(notes) : g[j] = ApplyNotification(g[j - 1], b, notes[j])
                   /\ \A j \in 0..Len(notes) :
                        /\ g[j] \in Databases /\ Index(g[j]) = Index(d)
                        /\ d.failed => g[j].failed
                        /\ Milder(d, g[j])
<1> DEFINE notes == Cache[b].notifications
           n == Len(notes)
           D == {e \in Databases : Index(e) = Index(d) /\ (d.failed => e.failed) /\ Milder(d, e)}
           op == [p \in (1..n) \X D |-> ApplyNotification(p[2], b, notes[p[1]])]
           Fold(it) == it = [s \in SUBSET (DOMAIN notes) |->
                                 IF s = {} THEN d
                                 ELSE ApplyNotification(it[s \ {Max(s)}], b, notes[Max(s)])]
           iter == CHOOSE it : Fold(it)
<1>1. n \in Nat /\ DOMAIN notes = 1..n /\ \A j \in 1..n : notes[j] \in Notifications
  <2>1. notes \in Seq(Notifications)
    BY CacheTyped DEF Caches
  <2> HIDE DEF notes
  <2> QED BY <2>1
<1>2. d \in D
  BY MilderSelf
<1>3. \A e \in D, j \in 1..n : ApplyNotification(e, b, notes[j]) \in D
  <2> SUFFICES ASSUME NEW e \in D, NEW j \in 1..n PROVE ApplyNotification(e, b, notes[j]) \in D
    OBVIOUS
  <2> DEFINE m == notes[j]
  <2>1. m \in Notifications /\ e \in Databases
    BY <1>1
  <2> HIDE DEF m
  <2>2. /\ ApplyNotification(e, b, m) \in Databases
        /\ Index(ApplyNotification(e, b, m)) = Index(e)
        /\ e.failed => ApplyNotification(e, b, m).failed
        /\ Milder(e, ApplyNotification(e, b, m))
    BY <2>1, NotificationApplied
  <2>3. Milder(d, ApplyNotification(e, b, m))
    BY <2>2, MilderTwice
  <2> QED BY <2>2, <2>3 DEF m
<1>4. op \in [(1..n) \X D -> D]
  <2> HIDE DEF D, notes, n
  <2> QED BY <1>3
<1>5. ApplyNotifications(d, b) = iter[DOMAIN notes]
  BY DEF ApplyNotifications, FoldLeft, MapThenFoldSet
<1> HIDE DEF D, notes
<1>6. PICK h : Solves(h, n, D, d, op)
  <2> HIDE DEF n, op
  <2> QED BY <1>1, <1>2, <1>4, FoldExists
<1>7. Fold(h)
  <2>1. ASSUME NEW s \in SUBSET (1..n), s # {}
        PROVE  h[s] = ApplyNotification(h[s \ {Max(s)}], b, notes[Max(s)])
    <3>1. Max(s) \in 1..n
      BY <1>1, <2>1, MaxExists
    <3>2. h[s \ {Max(s)}] \in D
      BY <1>6 DEF Solves
    <3> QED BY <1>6, <2>1, <3>1, <3>2 DEF Solves
  <2> HIDE DEF n
  <2> QED BY <1>1, <1>6, <2>1 DEF Solves
<1>8. Fold(iter)
  <2> HIDE DEF Fold
  <2> QED BY <1>7
<1>9. iter[1..0] = d
  <2> HIDE DEF iter
  <2> QED BY <1>1, <1>8
<1>10. ASSUME NEW j \in 1..n PROVE iter[1..j] = ApplyNotification(iter[1..(j - 1)], b, notes[j])
  <2> DEFINE s == 1..j
  <2>1. Max(s) = j /\ s \ {j} = 1..(j - 1) /\ s \in SUBSET (1..n) /\ s # {}
    BY <1>1, MaxInterval
  <2> HIDE DEF iter, n, s
  <2>2. iter[s] = ApplyNotification(iter[s \ {Max(s)}], b, notes[Max(s)])
    BY <1>1, <1>8, <2>1
  <2> QED BY <2>1, <2>2 DEF s
<1> HIDE DEF iter, n, op
<1>11. ASSUME NEW j \in 0..n PROVE iter[1..j] \in D
  <2> DEFINE S == {m \in Nat : m <= n => iter[1..m] \in D}
  <2>1. 0 \in S
    BY <1>2, <1>9
  <2>2. ASSUME NEW m \in Nat, m \in S PROVE m + 1 \in S
    <3> SUFFICES ASSUME m + 1 <= n PROVE iter[1..(m + 1)] \in D
      OBVIOUS
    <3>1. iter[1..m] \in D /\ m + 1 \in 1..n /\ (m + 1) - 1 = m
      BY <1>1, <2>2
    <3> QED BY <1>3, <1>10, <3>1
  <2> HIDE DEF S
  <2>3. j \in S
    BY <2>1, <2>2, <1>1, Induction
  <2> QED BY <1>1, <2>3 DEF S
<1> DEFINE g == [j \in 0..n |-> iter[1..j]]
<1>12. /\ g[0] = d /\ ApplyNotifications(d, b) = g[n]
       /\ \A j \in 1..n : g[j] = ApplyNotification(g[j - 1], b, notes[j])
  BY <1>1, <1>5, <1>9, <1>10
<1>13. \A j \in 0..n : g[j] \in D
  BY <1>11
<1> HIDE DEF g
<1> QED BY <1>12, <1>13 DEF D, notes, n

LEMMA NotificationsApplied ==
  ASSUME NEW d \in Databases, NEW b \in Blocks
  PROVE  /\ ApplyNotifications(d, b) \in Databases
         /\ Index(ApplyNotifications(d, b)) = Index(d)
         /\ d.failed => ApplyNotifications(d, b).failed
         /\ Milder(d, ApplyNotifications(d, b))
<1> DEFINE n == Len(Cache[b].notifications)
<1>1. n \in 0..n
  BY CacheTyped DEF Caches
<1> HIDE DEF n
<1>2. PICK g : /\ ApplyNotifications(d, b) = g[n]
               /\ \A j \in 0..n : /\ g[j] \in Databases /\ Index(g[j]) = Index(d)
                                 /\ (d.failed => g[j].failed)
                                 /\ Milder(d, g[j])
  BY NotificationsInTurn DEF n
<1> QED BY <1>1, <1>2

LEMMA MintsApplied ==
  ASSUME NEW d \in Databases, NEW b \in Blocks
  PROVE  LET r == ApplyMints(d, b)
             known == {t \in Mints[b] : ContractOf[t] \in d.contracts}
         IN /\ r \in Databases
            /\ d.failed => r.failed
            /\ r.tip = d.tip /\ r.contracts = d.contracts /\ r.imported = d.imported
            /\ r.early = d.early /\ r.dropped = d.dropped
            /\ ~r.failed => r.tokens = d.tokens \cup known
<1> DEFINE known == {t \in Mints[b] : ContractOf[t] \in d.contracts}
           failed == [d EXCEPT !.failed = TRUE]
<1>1. known \in SUBSET Tokens
  BY CacheTyped, MintedInOne DEF Caches
<1>2. ApplyMints(d, b) = IF known \cap Huge # {} THEN failed ELSE InsertTokens(d, known)
  BY MintedInOne DEF ApplyMints
<1>3. /\ failed \in Databases /\ failed.failed
      /\ failed.tip = d.tip /\ failed.contracts = d.contracts /\ failed.imported = d.imported
      /\ failed.early = d.early /\ failed.dropped = d.dropped
  BY DEF Databases
<1> HIDE DEF known, failed
<1>4. /\ InsertTokens(d, known) \in Databases
      /\ Index(InsertTokens(d, known))
           = <<d.tip, d.contracts, d.tokens \cup known, d.imported, d.early, d.dropped>>
      /\ InsertTokens(d, known).failed = d.failed
  BY <1>1, InsertedTyped
<1> QED BY <1>2, <1>3, <1>4 DEF Index, known

\* A block that is applied adds its contracts and, of known contracts, the tokens it
\* mints.
LEMMA BlockApplied ==
  ASSUME NEW d \in Databases, NEW b \in Blocks
  PROVE  LET new == Cache[b].contracts
             r == ApplyTransactions(d, b)
         IN /\ r \in Databases
            /\ d.failed => r.failed
            /\ r.tip = d.tip /\ r.early = d.early /\ r.dropped = d.dropped
            /\ r.contracts = d.contracts \cup new /\ r.imported = d.imported \ new
            /\ ~r.failed => r.tokens = d.tokens \cup {t \in Mints[b] : ContractOf[t] \in r.contracts}
<1> DEFINE new == Cache[b].contracts
           d0 == EnqueueContracts(d, new)
           d1 == ApplyDeployments(d, b)
           d2 == ApplyNotifications(d1, b)
           d3 == ApplyMints(d2, b)
           d4 == ChangeSupply(d3, b, 1)
<1>1. new \in SUBSET Contracts
  BY CacheTyped DEF Caches
<1>2. d1 = [d0 EXCEPT !.imported = d0.imported \ new]
  BY DEF ApplyDeployments
<1>3. /\ d0 \in Databases /\ d0.failed = d.failed
      /\ Index(d0) = <<d.tip, d.contracts \cup new, d.tokens, d.imported, d.early, d.dropped>>
  <2> HIDE DEF new
  <2> QED BY <1>1, ContractsEnqueued
<1> HIDE DEF d0, new
<1>4. /\ d1 \in Databases /\ d1.failed = d.failed
      /\ Index(d1) = <<d.tip, d.contracts \cup new, d.tokens, d.imported \ new, d.early, d.dropped>>
  <2> DEFINE r == [d0 EXCEPT !.imported = d0.imported \ new]
  <2>1. r \in Databases
    BY <1>3 DEF Databases
  <2>2. /\ r.tip = d0.tip /\ r.contracts = d0.contracts /\ r.tokens = d0.tokens
        /\ r.imported = d0.imported \ new /\ r.early = d0.early /\ r.dropped = d0.dropped
        /\ r.failed = d0.failed
    BY <1>3 DEF Databases
  <2>3. /\ d0.tip = d.tip /\ d0.contracts = d.contracts \cup new /\ d0.tokens = d.tokens
        /\ d0.imported = d.imported /\ d0.early = d.early /\ d0.dropped = d.dropped
    BY <1>3 DEF Index
  <2> HIDE DEF r
  <2> QED BY <1>2, <1>3, <2>1, <2>2, <2>3 DEF r, Index
<1> HIDE DEF d1
<1>5. d2 \in Databases /\ (d1.failed => d2.failed) /\ Index(d2) = Index(d1)
  BY <1>4, NotificationsApplied
<1> HIDE DEF d2
<1>6. /\ d3 \in Databases /\ (d2.failed => d3.failed)
      /\ d3.tip = d2.tip /\ d3.contracts = d2.contracts /\ d3.imported = d2.imported
      /\ d3.early = d2.early /\ d3.dropped = d2.dropped
      /\ ~d3.failed => d3.tokens = d2.tokens \cup {t \in Mints[b] : ContractOf[t] \in d2.contracts}
  BY <1>5, MintsApplied
<1> HIDE DEF d3
<1>7. d4 \in Databases /\ d4.failed = d3.failed /\ Index(d4) = Index(d3)
  <2>1. 1 \in Int
    OBVIOUS
  <2> QED BY <1>6, <2>1, SupplyChanged
<1>8. ApplyTransactions(d, b) = d4
  BY DEF ApplyTransactions, d3, d2, d1
<1> HIDE DEF d4
<1>9. /\ d4.tip = d.tip /\ d4.early = d.early /\ d4.dropped = d.dropped
      /\ d4.contracts = d.contracts \cup new /\ d4.imported = d.imported \ new
      /\ d4.tokens = d3.tokens /\ d2.tokens = d.tokens /\ d2.contracts = d4.contracts
  BY <1>4, <1>5, <1>6, <1>7 DEF Index
<1> QED BY <1>4, <1>5, <1>6, <1>7, <1>8, <1>9 DEF new

LEMMA DynamicTokensEnqueued ==
  ASSUME NEW d \in Databases
  PROVE  /\ EnqueueDynamicTokens(d) \in Databases
         /\ Index(EnqueueDynamicTokens(d)) = Index(d)
         /\ d.failed => EnqueueDynamicTokens(d).failed
<1> DEFINE due == DueForRefresh(d)
           settled == d.pending # d.tokens \/ d.importDue # d.contracts
           failed == d.failed \/ (Cardinality(due) > 1 /\ settled)
           r == [d EXCEPT !.pending = d.pending \cup due, !.failed = failed]
<1>1. EnqueueDynamicTokens(d) = r
  BY DEF EnqueueDynamicTokens, Databases
<1>2. due \subseteq Tokens /\ failed \in BOOLEAN /\ (d.failed => failed)
  BY DEF Databases, DueForRefresh
<1> HIDE DEF due, failed
<1>3. r \in Databases
  BY <1>2 DEF Databases
<1>4. /\ r.tip = d.tip /\ r.contracts = d.contracts /\ r.tokens = d.tokens
      /\ r.imported = d.imported /\ r.early = d.early /\ r.dropped = d.dropped
      /\ r.failed = failed
  BY DEF Databases
<1> HIDE DEF r
<1> QED BY <1>1, <1>2, <1>3, <1>4 DEF Index

-----------------------------------------------------------------------------
(* Supplies: sums over a block's events, and over a chain's blocks.          *)

Picked(S) == CHOOSE x \in S : TRUE

LEMMA PickedIn == ASSUME NEW S, S # {} PROVE Picked(S) \in S
BY DEF Picked

\* The recursion by which a sum over a set is defined, up to a cardinality.
SumsUp(h, S, f, m) ==
  /\ h \in [SUBSET S -> Int]
  /\ \A s \in SUBSET S : Cardinality(s) <= m =>
       h[s] = IF s = {} THEN 0 ELSE f[Picked(s)] + h[s \ {Picked(s)}]

LEMMA PickedAway ==
  ASSUME NEW S, IsFiniteSet(S), NEW s \in SUBSET S, s # {}, NEW m \in Nat, Cardinality(s) <= m + 1
  PROVE  /\ Picked(s) \in S /\ s \ {Picked(s)} \in SUBSET S
         /\ Cardinality(s \ {Picked(s)}) <= m
<1>1. IsFiniteSet(s)
  BY FS_Subset
<1>2. Picked(s) \in s
  BY PickedIn
<1>3. Cardinality(s \ {Picked(s)}) = Cardinality(s) - 1 /\ Cardinality(s) \in Nat
  BY <1>1, <1>2, FS_RemoveElement, FS_CardinalityType
<1> QED BY <1>2, <1>3

LEMMA SumExists ==
  ASSUME NEW S, IsFiniteSet(S), NEW f \in [S -> Int], NEW n \in Nat
  PROVE  \E h : SumsUp(h, S, f, n)
<1> DEFINE Solvable(m) == \E h : SumsUp(h, S, f, m)
           M == {m \in Nat : Solvable(m)}
<1>1. 0 \in M
  <2> DEFINE h == [s \in SUBSET S |-> 0]
  <2>1. \A s \in SUBSET S : Cardinality(s) <= 0 => s = {}
    <3> SUFFICES ASSUME NEW s \in SUBSET S, Cardinality(s) <= 0 PROVE s = {}
      OBVIOUS
    <3>1. IsFiniteSet(s)
      BY FS_Subset
    <3>2. Cardinality(s) \in Nat
      BY <3>1, FS_CardinalityType
    <3> QED BY <3>1, <3>2, FS_EmptySet
  <2>2. SumsUp(h, S, f, 0)
    BY <2>1 DEF SumsUp
  <2> HIDE DEF h
  <2> QED BY <2>2
<1>2. ASSUME NEW m \in Nat, m \in M PROVE m + 1 \in M
  <2>1. PICK g : SumsUp(g, S, f, m)
    BY <1>2
  <2> DEFINE h == [s \in SUBSET S |-> IF s = {} THEN 0 ELSE f[Picked(s)] + g[s \ {Picked(s)}]]
  <2>2. h \in [SUBSET S -> Int]
    <3> SUFFICES ASSUME NEW s \in SUBSET S, s # {} PROVE f[Picked(s)] + g[s \ {Picked(s)}] \in Int
      OBVIOUS
    <3>1. Picked(s) \in S
      BY PickedIn
    <3> QED BY <2>1, <3>1 DEF SumsUp
  <2>3. ASSUME NEW s \in SUBSET S, Cardinality(s) <= m + 1, s # {}
        PROVE  h[s] = f[Picked(s)] + h[s \ {Picked(s)}]
    <3> DEFINE r == s \ {Picked(s)}
    <3>1. r \in SUBSET S /\ Cardinality(r) <= m
      BY <2>3, PickedAway
    <3> HIDE DEF r
    <3>2. g[r] = IF r = {} THEN 0 ELSE f[Picked(r)] + g[r \ {Picked(r)}]
      BY <2>1, <3>1 DEF SumsUp
    <3>3. h[r] = g[r]
      BY <3>1, <3>2
    <3>4. h[s] = f[Picked(s)] + g[r]
      BY <2>3 DEF r
    <3> QED BY <3>3, <3>4 DEF r
  <2>4. SumsUp(h, S, f, m + 1)
    BY <2>2, <2>3 DEF SumsUp
  <2> HIDE DEF h
  <2> QED BY <2>4
<1> HIDE DEF M
<1>3. n \in M
  BY <1>1, <1>2, Induction
<1> QED BY <1>3 DEF M

LEMMA EventsFinite ==
  ASSUME NEW b \in Blocks PROVE IsFiniteSet(EventsOf[b])
<1> DEFINE txs == Transactions[b]
           succeeded == {i \in DOMAIN txs : txs[i].success}
           event(i, j) == [tx |-> i, event |-> j, sender |-> txs[i].sender,
                           what |-> txs[i].events[j]]
           of(i) == {event(i, j) : j \in DOMAIN txs[i].events}
           family == {of(i) : i \in succeeded}
<1>1. txs \in Seq(StacksTransactions)
  BY BlockTyped
<1>2. IsFiniteSet(succeeded)
  <2>1. Len(txs) \in Nat /\ DOMAIN txs = 1..Len(txs)
    BY <1>1
  <2>2. IsFiniteSet(1..Len(txs))
    BY <2>1, FS_Interval
  <2>3. succeeded \in SUBSET (1..Len(txs))
    BY <2>1
  <2> HIDE DEF succeeded
  <2> QED BY <2>2, <2>3, FS_Subset
<1>3. ASSUME NEW i \in succeeded PROVE IsFiniteSet(of(i))
  <2> DEFINE m == Len(txs[i].events)
             f == [j \in 1..m |-> event(i, j)]
  <2>1. txs[i].events \in Seq(Events)
    <3>1. i \in DOMAIN txs
      OBVIOUS
    <3>2. txs[i] \in StacksTransactions
      BY <1>1, <3>1
    <3> HIDE DEF txs
    <3> QED BY <3>2 DEF StacksTransactions
  <2>2. m \in Nat /\ DOMAIN txs[i].events = 1..m
    BY <2>1
  <2> HIDE DEF m
  <2>3. IsFiniteSet(1..m)
    BY <2>2, FS_Interval
  <2> HIDE DEF event
  <2>4. f \in Surjection(1..m, of(i))
    BY <2>2 DEF Surjection
  <2> HIDE DEF f, of
  <2> QED BY <2>3, <2>4, FS_Surjection
<1>4. IsFiniteSet(family)
  <2> DEFINE f == [i \in succeeded |-> of(i)]
  <2> HIDE DEF of, succeeded
  <2>1. f \in Surjection(succeeded, family)
    BY DEF Surjection
  <2> HIDE DEF f, family
  <2> QED BY <1>2, <2>1, FS_Surjection
<1>5. IsFiniteSet(UNION family)
  <2>1. \A T \in family : IsFiniteSet(T)
    <3> HIDE DEF of, succeeded
    <3> QED BY <1>3
  <2> HIDE DEF family
  <2> QED BY <1>4, <2>1, FS_UNION
<1>6. EventsOf[b] = UNION family
  BY DEF EventsOf
<1> QED BY <1>5, <1>6

\* The sum does not depend on the order in which the elements are picked.
LEMMA AnyOrder ==
  ASSUME NEW S, IsFiniteSet(S), NEW f \in [S -> Int], NEW h, SumsUp(h, S, f, Cardinality(S))
  PROVE  \A s \in SUBSET S : \A x \in s : h[s] = f[x] + h[s \ {x}]
<1> DEFINE M == {m \in Nat : \A s \in SUBSET S : Cardinality(s) <= m =>
                   \A x \in s : h[s] = f[x] + h[s \ {x}]}
<1>1. Cardinality(S) \in Nat /\ h \in [SUBSET S -> Int]
  BY FS_CardinalityType DEF SumsUp
<1>2. ASSUME NEW s \in SUBSET S, s # {}
      PROVE  /\ Picked(s) \in s /\ h[s] = f[Picked(s)] + h[s \ {Picked(s)}]
  <2>1. Cardinality(s) <= Cardinality(S)
    BY FS_Subset
  <2> QED BY <1>2, <2>1, PickedIn DEF SumsUp
<1>3. 0 \in M
  <2> SUFFICES ASSUME NEW s \in SUBSET S, Cardinality(s) <= 0 PROVE s = {}
    OBVIOUS
  <2>1. IsFiniteSet(s)
    BY FS_Subset
  <2>2. Cardinality(s) \in Nat
    BY <2>1, FS_CardinalityType
  <2> QED BY <2>1, <2>2, FS_EmptySet
<1>4. ASSUME NEW m \in Nat, m \in M PROVE m + 1 \in M
  <2> SUFFICES ASSUME NEW s \in SUBSET S, Cardinality(s) <= m + 1, NEW x \in s
               PROVE  h[s] = f[x] + h[s \ {x}]
    OBVIOUS
  <2> DEFINE p == Picked(s)
             r == s \ {p}
             q == s \ {x}
  <2>1. IsFiniteSet(s) /\ Cardinality(s) \in Nat
    BY FS_Subset, FS_CardinalityType
  <2>2. p \in s /\ h[s] = f[p] + h[r]
    BY <1>2
  <2> HIDE DEF p
  <2>3. CASE x = p
    BY <2>2, <2>3
  <2>4. CASE x # p
    <3>1. Cardinality(r) = Cardinality(s) - 1 /\ Cardinality(q) = Cardinality(s) - 1
      BY <2>1, <2>2, FS_RemoveElement
    <3>2. r \in SUBSET S /\ q \in SUBSET S /\ x \in r /\ p \in q /\ r \ {x} = q \ {p}
      BY <2>2, <2>4
    <3>3. Cardinality(r) <= m /\ Cardinality(q) <= m
      BY <2>1, <3>1
    <3> HIDE DEF r, q
    <3>4. h[r] = f[x] + h[r \ {x}] /\ h[q] = f[p] + h[q \ {p}]
      BY <1>4, <3>2, <3>3
    <3>5. f[x] \in Int /\ f[p] \in Int /\ h[r \ {x}] \in Int
      BY <1>1, <2>2, <3>2
    <3>6. h[s] = f[p] + (f[x] + h[r \ {x}]) /\ h[q] = f[p] + h[r \ {x}]
      BY <2>2, <3>2, <3>4
    <3>7. h[s] = f[x] + h[q]
      BY <3>5, <3>6
    <3> QED BY <3>7 DEF q
  <2> QED BY <2>3, <2>4
<1> HIDE DEF M
<1>5. Cardinality(S) \in M
  BY <1>1, <1>3, <1>4, Induction
<1> QED
  <2> SUFFICES ASSUME NEW s \in SUBSET S, NEW x \in s PROVE h[s] = f[x] + h[s \ {x}]
    OBVIOUS
  <2>1. Cardinality(s) <= Cardinality(S)
    BY FS_Subset
  <2>2. \A r \in SUBSET S : Cardinality(r) <= Cardinality(S) => \A y \in r : h[r] = f[y] + h[r \ {y}]
    BY <1>5 DEF M
  <2> QED BY <2>1, <2>2

\* The events by which a block mints and burns an FT.
FtEvents(b, k) == {e \in EventsOf[b] : ChangesFt(e.what, k)}

\* A block's delta is the sum of theirs, in any order.
LEMMA DeltaSums ==
  ASSUME NEW b \in Blocks, NEW k \in Contracts
  PROVE  \E h \in [SUBSET FtEvents(b, k) -> Int] :
           /\ h[{}] = 0
           /\ \A s \in SUBSET FtEvents(b, k) : \A e \in s : h[s] = AmountOf(e.what) + h[s \ {e}]
           /\ SupplyDelta[b][k] = h[FtEvents(b, k)]
<1> DEFINE S == FtEvents(b, k)
           amount(e) == AmountOf(e.what)
           f == [e \in S |-> amount(e)]
           Fold(it) == it = [s \in SUBSET S |->
                                 IF s = {} THEN 0 ELSE LET x == CHOOSE x \in s : TRUE
                                                       IN amount(x) + it[s \ {x}]]
           iter == CHOOSE it : Fold(it)
<1>1. IsFiniteSet(S)
  <2>1. S \in SUBSET EventsOf[b]
    BY DEF FtEvents
  <2> HIDE DEF S
  <2> QED BY <2>1, EventsFinite, FS_Subset
<1>2. \A e \in EventsOf[b] : e.what \in Events
  <2>1. ASSUME NEW i \in DOMAIN Transactions[b], NEW j \in DOMAIN Transactions[b][i].events
        PROVE  Transactions[b][i].events[j] \in Events
    <3>1. Transactions[b][i] \in StacksTransactions
      BY BlockTyped
    <3> QED BY <3>1 DEF StacksTransactions
  <2> QED BY <2>1 DEF EventsOf
<1>3. \A e \in S : amount(e) \in Int
  <2> SUFFICES ASSUME NEW e \in S PROVE amount(e) \in Int
    OBVIOUS
  <2>1. e.what.amount \in Nat
    BY <1>2, EventOfType DEF FtEvents, ChangesFt
  <2> QED BY <2>1 DEF AmountOf, ChangesFt
<1>4. SupplyDelta[b][k] = iter[S]
  BY DEF SupplyDelta, MapThenSumSet, MapThenFoldSet, FtEvents, ChangesFt, AmountOf
<1> HIDE DEF S, amount
<1>5. f \in [S -> Int] /\ Cardinality(S) \in Nat
  BY <1>1, <1>3, FS_CardinalityType
<1>6. PICK h : SumsUp(h, S, f, Cardinality(S))
  <2> HIDE DEF f
  <2> QED BY <1>1, <1>5, SumExists
<1>7. Fold(h)
  <2>1. ASSUME NEW s \in SUBSET S, s # {} PROVE h[s] = amount(Picked(s)) + h[s \ {Picked(s)}]
    <3>1. Cardinality(s) <= Cardinality(S)
      BY <1>1, FS_Subset
    <3>2. Picked(s) \in S
      BY <2>1, PickedIn
    <3> QED BY <1>6, <2>1, <3>1, <3>2 DEF SumsUp
  <2>2. h[{}] = 0
    <3>1. Cardinality({}) <= Cardinality(S) /\ {} \in SUBSET S
      BY <1>5, FS_EmptySet
    <3> QED BY <1>6, <3>1 DEF SumsUp
  <2> QED BY <1>6, <2>1, <2>2 DEF SumsUp, Picked
<1>8. Fold(iter)
  <2> HIDE DEF Fold
  <2> QED BY <1>7
<1>9. ASSUME NEW s \in SUBSET S
      PROVE  iter[s] = IF s = {} THEN 0 ELSE amount(Picked(s)) + iter[s \ {Picked(s)}]
  <2> HIDE DEF iter
  <2> QED BY <1>8 DEF Picked
<1> HIDE DEF iter
<1> DEFINE M == {m \in Nat : \A s \in SUBSET S : Cardinality(s) <= m => iter[s] \in Int}
<1>10. 0 \in M
  <2> SUFFICES ASSUME NEW s \in SUBSET S, Cardinality(s) <= 0 PROVE iter[s] \in Int
    OBVIOUS
  <2>1. IsFiniteSet(s)
    BY <1>1, FS_Subset
  <2>2. Cardinality(s) \in Nat
    BY <2>1, FS_CardinalityType
  <2>3. s = {}
    BY <2>1, <2>2, FS_EmptySet
  <2>4. iter[s] = 0
    BY <1>9, <2>3
  <2> QED BY <2>4
<1>11. ASSUME NEW m \in Nat, m \in M PROVE m + 1 \in M
  <2> SUFFICES ASSUME NEW s \in SUBSET S, Cardinality(s) <= m + 1 PROVE iter[s] \in Int
    OBVIOUS
  <2>0. CASE s = {}
    <3>1. iter[s] = 0
      BY <1>9, <2>0
    <3> QED BY <3>1
  <2> SUFFICES ASSUME s # {} PROVE iter[s] \in Int
    BY <2>0
  <2> DEFINE r == s \ {Picked(s)}
  <2>1. Picked(s) \in S /\ r \in SUBSET S /\ Cardinality(r) <= m
    BY <1>1, PickedAway
  <2>2. iter[r] \in Int /\ amount(Picked(s)) \in Int
    <3> HIDE DEF r
    <3> QED BY <1>3, <1>11, <2>1
  <2>3. iter[s] = amount(Picked(s)) + iter[r]
    BY <1>9 DEF r
  <2> QED BY <2>2, <2>3
<1> HIDE DEF M
<1>12. Cardinality(S) \in M
  BY <1>5, <1>10, <1>11, Induction
<1>13. iter \in [SUBSET S -> Int]
  <2>1. DOMAIN iter = SUBSET S /\ iter = [s \in SUBSET S |-> iter[s]]
    BY <1>8
  <2>2. ASSUME NEW s \in SUBSET S PROVE iter[s] \in Int
    <3>1. Cardinality(s) <= Cardinality(S)
      BY <1>1, FS_Subset
    <3> QED BY <1>12, <3>1 DEF M
  <2> QED BY <2>1, <2>2
<1>14. SumsUp(iter, S, f, Cardinality(S))
  <2> SUFFICES ASSUME NEW s \in SUBSET S
               PROVE  iter[s] = IF s = {} THEN 0 ELSE f[Picked(s)] + iter[s \ {Picked(s)}]
    BY <1>13 DEF SumsUp
  <2>1. CASE s = {}
    BY <1>9, <2>1
  <2>2. CASE s # {}
    <3>1. Picked(s) \in S
      BY <2>2, PickedIn
    <3>2. f[Picked(s)] = amount(Picked(s))
      BY <3>1
    <3> QED BY <1>9, <2>2, <3>2
  <2> QED BY <2>1, <2>2
<1>15. \A s \in SUBSET S : \A e \in s : iter[s] = amount(e) + iter[s \ {e}]
  <2>1. \A s \in SUBSET S : \A e \in s : iter[s] = f[e] + iter[s \ {e}]
    <3> HIDE DEF f
    <3>1. f \in [S -> Int] /\ IsFiniteSet(S) /\ SumsUp(iter, S, f, Cardinality(S))
      BY <1>1, <1>5, <1>14
    <3> SUFFICES ASSUME NEW s \in SUBSET S, NEW e \in s
                 PROVE  iter[s] = f[e] + iter[s \ {e}]
      OBVIOUS
    <3> HIDE DEF M, Fold
    <3> QED BY ONLY <3>1, s \in SUBSET S, e \in s, AnyOrder
  <2>2. \A s \in SUBSET S : \A e \in s : f[e] = amount(e)
    OBVIOUS
  <2> HIDE DEF f
  <2> QED BY <2>1, <2>2
<1>16. iter[{}] = 0
  BY <1>9
<1> QED BY <1>4, <1>13, <1>15, <1>16 DEF S, amount

LEMMA DeltaTyped ==
  ASSUME NEW b \in Blocks, NEW k \in Contracts PROVE SupplyDelta[b][k] \in Int
<1>1. PICK h \in [SUBSET FtEvents(b, k) -> Int] : SupplyDelta[b][k] = h[FtEvents(b, k)]
  BY DeltaSums
<1> QED BY <1>1

\* An event of a block is one of a transaction that succeeded, at its place.
EventAt(b, i, j) ==
  [tx |-> i, event |-> j, sender |-> Transactions[b][i].sender,
   what |-> Transactions[b][i].events[j]]

LEMMA EventPlaced ==
  ASSUME NEW b \in Blocks
  PROVE  /\ \A e \in EventsOf[b] :
              /\ e.tx \in DOMAIN Transactions[b] /\ Transactions[b][e.tx].success
              /\ e.event \in DOMAIN Transactions[b][e.tx].events /\ e = EventAt(b, e.tx, e.event)
         /\ \A i \in DOMAIN Transactions[b] : Transactions[b][i].success =>
              \A j \in DOMAIN Transactions[b][i].events : EventAt(b, i, j) \in EventsOf[b]
BY DEF EventsOf, EventAt

\* The delta that is collected event by event, in the order of the payload, is the sum
\* over the mints and burns of the block's successful transactions, in any order
\* (block-cache.ts:92-99, chainhook-pg-store.ts:192-193, 203-204).
THEOREM DeltaOfCache ==
  ASSUME NEW b \in Blocks, NEW k \in Contracts
  PROVE  DeltaIn(Cache[b], k) = SupplyDelta[b][k]
<1> DEFINE txs == Transactions[b]
           n == Len(txs)
           S == FtEvents(b, k)
           E(m) == {e \in S : e.tx <= m}
<1>1. txs \in Seq(StacksTransactions) /\ n \in Nat /\ DOMAIN txs = 1..n
  BY BlockTyped
<1>2. PICK h \in [SUBSET S -> Int] :
        /\ h[{}] = 0
        /\ \A s \in SUBSET S : \A e \in s : h[s] = AmountOf(e.what) + h[s \ {e}]
        /\ SupplyDelta[b][k] = h[S]
  BY DeltaSums
<1>3. PICK g \in [0..n -> Caches] :
        /\ g[0] = EmptyCache
        /\ \A j \in 1..n : g[j] = CacheTransaction(g[j - 1], txs[j], j)
        /\ CacheOf(txs) = g[n]
  BY <1>1, TransactionsCollected
<1>4. \A e \in S : /\ e.tx \in 1..n /\ txs[e.tx].success /\ e.event \in DOMAIN txs[e.tx].events
                   /\ e = EventAt(b, e.tx, e.event) /\ ChangesFt(e.what, k)
  BY <1>1, EventPlaced DEF FtEvents
<1>5. ASSUME NEW i \in 1..n, txs[i].success, NEW j \in DOMAIN txs[i].events
      PROVE  /\ EventAt(b, i, j) \in S <=> ChangesFt(txs[i].events[j], k)
             /\ EventAt(b, i, j).what = txs[i].events[j] /\ EventAt(b, i, j).tx = i
             /\ EventAt(b, i, j).event = j
  <2>1. EventAt(b, i, j) \in EventsOf[b]
    BY <1>1, <1>5, EventPlaced
  <2>2. EventAt(b, i, j).what = txs[i].events[j] /\ EventAt(b, i, j).tx = i /\ EventAt(b, i, j).event = j
    BY DEF EventAt
  <2> QED BY <2>1, <2>2 DEF FtEvents
<1> HIDE DEF S
<1> DEFINE M == {m \in Nat : m <= n => DeltaIn(g[m], k) = h[E(m)]}
<1>6. 0 \in M
  <2>1. E(0) = {}
    BY <1>4
  <2>2. DeltaIn(EmptyCache, k) = 0
    BY DEF DeltaIn, EmptyCache
  <2> HIDE DEF E
  <2> QED BY <1>2, <1>3, <2>1, <2>2
<1>7. ASSUME NEW m \in Nat, m \in M PROVE m + 1 \in M
  <2> HIDE DEF E, n
  <2> SUFFICES ASSUME m + 1 <= n PROVE DeltaIn(g[m + 1], k) = h[E(m + 1)]
    OBVIOUS
  <2> USE DEF E, n
  <2> DEFINE i == m + 1
             tx == txs[i]
  <2>1. /\ i \in 1..n /\ i \in Nat /\ i - 1 = m /\ tx \in StacksTransactions
        /\ g[m] \in Caches /\ g[i] = CacheTransaction(g[m], tx, i) /\ DeltaIn(g[m], k) = h[E(m)]
    BY <1>1, <1>3, <1>7
  <2>2. CASE ~tx.success
    <3>1. E(i) = E(m)
      BY <1>4, <2>2
    <3>2. g[i] = g[m]
      BY <2>1, <2>2 DEF CacheTransaction
    <3> QED BY <2>1, <3>1, <3>2
  <2>3. CASE tx.success
    <3> DEFINE l == Len(tx.events)
               F(j) == E(m) \cup {e \in S : e.tx = i /\ e.event <= j}
    <3>1. l \in Nat /\ DOMAIN tx.events = 1..l
      BY <2>1 DEF StacksTransactions
    <3>2. PICK f \in [0..l -> Caches] :
            /\ f[0] = CacheDeployment(g[m], tx)
            /\ \A j \in 1..l : f[j] = CacheEvent(f[j - 1], tx, i, j)
            /\ CacheTransaction(g[m], tx, i) = f[l]
      <4> HIDE DEF tx, i
      <4> QED BY <2>1, <2>3, EventsCollected
    <3> DEFINE L == {j \in Nat : j <= l => DeltaIn(f[j], k) = h[F(j)]}
    <3>3. 0 \in L
      <4>1. F(0) = E(m)
        <5>1. \A e \in S : e.tx = i => e.event \in 1..l
          BY <1>4, <3>1
        <5> QED BY <5>1
      <4>2. DeltaIn(f[0], k) = DeltaIn(g[m], k)
        BY <2>1, <3>2, DeploymentTyped
      <4> HIDE DEF F, E
      <4> QED BY <2>1, <4>1, <4>2
    <3>4. ASSUME NEW j \in Nat, j \in L PROVE j + 1 \in L
      <4> HIDE DEF F, l
      <4> SUFFICES ASSUME j + 1 <= l PROVE DeltaIn(f[j + 1], k) = h[F(j + 1)]
        OBVIOUS
      <4>0. DeltaIn(f[j], k) = h[F(j)]
        BY <3>1, <3>4
      <4> USE DEF F, l
      <4> DEFINE event == tx.events[j + 1]
                 x == EventAt(b, i, j + 1)
      <4>1. /\ j + 1 \in DOMAIN tx.events /\ (j + 1) - 1 = j /\ f[j] \in Caches
            /\ f[j + 1] = CacheEvent(f[j], tx, i, j + 1)
        <5> HIDE DEF F, l, tx, i
        <5> QED BY <3>1, <3>2
      <4>2. DeltaIn(f[j + 1], k)
              = DeltaIn(f[j], k) + (IF ChangesFt(event, k) THEN AmountOf(event) ELSE 0)
        <5> HIDE DEF tx, i
        <5> QED BY <2>1, <4>1, CacheEventDelta
      <4>3. /\ x \in S <=> ChangesFt(event, k)
            /\ x.what = event /\ x.tx = i /\ x.event = j + 1
        BY <1>5, <2>1, <2>3, <4>1
      <4>4. \A e \in S : e.tx = i /\ e.event = j + 1 => e = x
        BY <1>4
      <4>5. \A e \in S : e.tx \in Nat /\ (e.tx = i => e.event \in Nat)
        BY <1>4, <3>1
      <4> HIDE DEF x, event
      <4>6. CASE ChangesFt(event, k)
        <5>1. x \in F(j + 1) /\ F(j + 1) \in SUBSET S
          BY <4>3, <4>6
        <5>2. F(j + 1) \ {x} = F(j)
          <6>1. ASSUME NEW e \in S PROVE e \in F(j + 1) /\ e # x <=> e \in F(j)
            <7>1. CASE e.tx = i
              <8>1. e.event \in Nat /\ (e.event = j + 1 <=> e = x) /\ ~(e.tx <= m)
                BY <4>3, <4>4, <4>5, <7>1
              <8> QED BY <7>1, <8>1
            <7>2. CASE e.tx # i
              <8>1. e # x
                BY <4>3, <7>2
              <8> QED BY <7>2, <8>1
            <7> QED BY <7>1, <7>2
          <6> QED BY <6>1
        <5> HIDE DEF F
        <5>3. h[F(j + 1)] = AmountOf(x.what) + h[F(j)]
          <6>1. \A s \in SUBSET S : \A e \in s : h[s] = AmountOf(e.what) + h[s \ {e}]
            BY <1>2
          <6>2. h[F(j + 1)] = AmountOf(x.what) + h[F(j + 1) \ {x}]
            BY ONLY <5>1, <6>1
          <6> QED BY <5>2, <6>2
        <5>4. h[F(j)] \in Int
          BY <1>2, <5>1, <5>2
        <5>5. AmountOf(event) \in Int
          <6>1. event \in Events
            BY <2>1, <4>1 DEF StacksTransactions, event
          <6> QED BY <4>6, <6>1, EventOfType DEF AmountOf, ChangesFt
        <5> QED BY <4>0, <4>2, <4>3, <4>6, <5>3, <5>4, <5>5
      <4>7. CASE ~ChangesFt(event, k)
        <5>1. F(j + 1) = F(j)
          <6>1. \A e \in S : ~(e.tx = i /\ e.event = j + 1)
            BY <4>3, <4>4, <4>7
          <6> QED BY <4>5, <6>1
        <5>2. DeltaIn(f[j], k) \in Int
          BY <4>1, DeltaInTyped
        <5> HIDE DEF F
        <5> QED BY <4>0, <4>2, <4>7, <5>1, <5>2
      <4> QED BY <4>6, <4>7
    <3> HIDE DEF L
    <3>5. l \in L
      BY <3>1, <3>3, <3>4, Induction
    <3>6. F(l) = E(i)
      BY <1>4, <2>1, <3>1
    <3> HIDE DEF F, E
    <3> QED BY <2>1, <3>1, <3>2, <3>5, <3>6 DEF L
  <2> QED BY <2>2, <2>3
<1> HIDE DEF M
<1>8. n \in M
  BY <1>1, <1>6, <1>7, Induction
<1>9. E(n) = S
  BY <1>1, <1>4
<1>10. Cache[b] = g[n]
  BY <1>3 DEF Cache
<1> HIDE DEF E
<1> QED BY <1>1, <1>2, <1>8, <1>9, <1>10 DEF M

\* A chain's supply adds up block by block.
LEMMA SupplyRuns ==
  ASSUME NEW c \in Seq(Blocks), NEW k \in Contracts
  PROVE  \E g \in [0..Len(c) -> Int] :
           /\ g[0] = 0 /\ SupplyOn(c, k) = g[Len(c)]
           /\ \A j \in 1..Len(c) : g[j] = g[j - 1] + SupplyDelta[c[j]][k]
<1> DEFINE n == Len(c)
           op == [p \in (1..n) \X Int |-> p[2] + SupplyDelta[c[p[1]]][k]]
           Fold(it) == it = [s \in SUBSET (DOMAIN c) |->
                                 IF s = {} THEN 0 ELSE it[s \ {Max(s)}] + SupplyDelta[c[Max(s)]][k]]
           iter == CHOOSE it : Fold(it)
<1>1. n \in Nat /\ DOMAIN c = 1..n /\ \A j \in 1..n : c[j] \in Blocks
  OBVIOUS
<1>2. \A x \in Int, j \in 1..n : x + SupplyDelta[c[j]][k] \in Int
  BY <1>1, DeltaTyped
<1>3. op \in [(1..n) \X Int -> Int]
  BY <1>2
<1>4. SupplyOn(c, k) = iter[DOMAIN c]
  BY DEF SupplyOn, FoldLeft, MapThenFoldSet
<1>5. PICK h : Solves(h, n, Int, 0, op)
  <2>1. n \in Nat /\ 0 \in Int
    BY <1>1
  <2> HIDE DEF n, op
  <2> QED BY <1>3, <2>1, FoldExists
<1>6. Fold(h)
  <2>1. ASSUME NEW s \in SUBSET (1..n), s # {}
        PROVE  h[s] = h[s \ {Max(s)}] + SupplyDelta[c[Max(s)]][k]
    <3>1. Max(s) \in 1..n
      BY <1>1, <2>1, MaxExists
    <3>2. h[s \ {Max(s)}] \in Int
      BY <1>5 DEF Solves
    <3> QED BY <1>5, <2>1, <3>1, <3>2 DEF Solves
  <2> HIDE DEF n
  <2> QED BY <1>1, <1>5, <2>1 DEF Solves
<1>7. Fold(iter)
  <2> HIDE DEF Fold
  <2> QED BY <1>6
<1>8. iter[1..0] = 0
  <2> HIDE DEF iter
  <2> QED BY <1>1, <1>7
<1>9. ASSUME NEW j \in 1..n PROVE iter[1..j] = iter[1..(j - 1)] + SupplyDelta[c[j]][k]
  <2> DEFINE s == 1..j
  <2>1. Max(s) = j /\ s \ {j} = 1..(j - 1) /\ s \in SUBSET (1..n) /\ s # {}
    BY <1>1, MaxInterval
  <2> HIDE DEF iter, n, s
  <2>2. iter[s] = iter[s \ {Max(s)}] + SupplyDelta[c[Max(s)]][k]
    BY <1>1, <1>7, <2>1
  <2> QED BY <2>1, <2>2 DEF s
<1> HIDE DEF iter, n, op
<1> DEFINE M == {m \in Nat : m <= n => iter[1..m] \in Int}
           g == [j \in 0..n |-> iter[1..j]]
<1>10. 0 \in M
  BY <1>8
<1>11. ASSUME NEW m \in Nat, m \in M PROVE m + 1 \in M
  <2> SUFFICES ASSUME m + 1 <= n PROVE iter[1..(m + 1)] \in Int
    OBVIOUS
  <2>1. iter[1..m] \in Int /\ m + 1 \in 1..n /\ (m + 1) - 1 = m
    BY <1>1, <1>11
  <2> QED BY <1>2, <1>9, <2>1
<1> HIDE DEF M
<1>12. \A m \in 0..n : iter[1..m] \in Int
  <2>1. Nat \subseteq M
    BY <1>10, <1>11, Induction
  <2> QED BY <1>1, <2>1 DEF M
<1>13. g \in [0..n -> Int] /\ \A j \in 0..n : g[j] = iter[1..j]
  BY <1>12
<1> HIDE DEF g
<1>14. g[0] = 0 /\ SupplyOn(c, k) = g[n] /\ \A j \in 1..n : g[j] = g[j - 1] + SupplyDelta[c[j]][k]
  <2>1. 0 \in 0..n /\ n \in 0..n /\ \A j \in 1..n : j \in 0..n /\ j - 1 \in 0..n
    BY <1>1
  <2>2. g[0] = 0
    BY <1>8, <1>13, <2>1
  <2>3. SupplyOn(c, k) = g[n]
    BY <1>1, <1>4, <1>13, <2>1
  <2>4. \A j \in 1..n : g[j] = g[j - 1] + SupplyDelta[c[j]][k]
    BY <1>9, <1>13, <2>1
  <2> QED BY <2>2, <2>3, <2>4
<1> QED BY <1>13, <1>14 DEF n

LEMMA SupplyTyped ==
  ASSUME NEW c \in Seq(Blocks), NEW k \in Contracts PROVE SupplyOn(c, k) \in Int
<1>1. PICK g \in [0..Len(c) -> Int] : SupplyOn(c, k) = g[Len(c)]
  BY SupplyRuns
<1> QED BY <1>1

\* One block more.
LEMMA SupplyStep ==
  ASSUME NEW c \in Seq(Blocks), NEW d \in Seq(Blocks), Len(d) = Len(c) + 1,
         \A i \in 1..Len(c) : d[i] = c[i], NEW k \in Contracts
  PROVE  SupplyOn(d, k) = SupplyOn(c, k) + SupplyDelta[d[Len(d)]][k]
<1> DEFINE n == Len(c)
<1>1. PICK g \in [0..n -> Int] :
        /\ g[0] = 0 /\ SupplyOn(c, k) = g[n]
        /\ \A j \in 1..n : g[j] = g[j - 1] + SupplyDelta[c[j]][k]
  BY SupplyRuns
<1>2. PICK h \in [0..(n + 1) -> Int] :
        /\ h[0] = 0 /\ SupplyOn(d, k) = h[n + 1]
        /\ \A j \in 1..(n + 1) : h[j] = h[j - 1] + SupplyDelta[d[j]][k]
  <2>1. PICK h \in [0..Len(d) -> Int] :
          /\ h[0] = 0 /\ SupplyOn(d, k) = h[Len(d)]
          /\ \A j \in 1..Len(d) : h[j] = h[j - 1] + SupplyDelta[d[j]][k]
    BY SupplyRuns
  <2> QED BY <2>1
<1>3. n \in Nat
  OBVIOUS
<1> HIDE DEF n
<1> DEFINE M == {m \in Nat : m <= n => g[m] = h[m]}
<1>4. 0 \in M
  BY <1>1, <1>2
<1>5. ASSUME NEW m \in Nat, m \in M PROVE m + 1 \in M
  <2> SUFFICES ASSUME m + 1 <= n PROVE g[m + 1] = h[m + 1]
    OBVIOUS
  <2>1. m + 1 \in 1..n /\ m + 1 \in 1..(n + 1) /\ (m + 1) - 1 = m /\ g[m] = h[m]
    BY <1>3, <1>5
  <2>2. d[m + 1] = c[m + 1]
    BY <2>1 DEF n
  <2> QED BY <1>1, <1>2, <2>1, <2>2
<1> HIDE DEF M
<1>6. g[n] = h[n]
  <2>1. n \in M
    BY <1>3, <1>4, <1>5, Induction
  <2> QED BY <2>1 DEF M
<1>7. h[n + 1] = h[n] + SupplyDelta[d[n + 1]][k]
  BY <1>2, <1>3
<1> QED BY <1>1, <1>2, <1>6, <1>7 DEF n

-----------------------------------------------------------------------------
(* What the statements of a payload do to supplies.                         *)

LEMMA RolledBackMilder ==
  ASSUME NEW d \in Databases, NEW b \in Blocks
  PROVE  LET r == RollBackMints(RollBackNotifications(RollBackDeployments(d, b), b), b)
         IN r \in Databases /\ Milder(d, r)
<1> DEFINE gone == Cache[b].contracts
           theirs == {t \in d.tokens : ContractOf[t] \in gone}
           d0 == DeleteTokens(d, theirs)
           d1 == RollBackDeployments(d, b)
           d2 == RollBackNotifications(d1, b)
           d3 == RollBackMints(d2, b)
<1>1. d0 \in Databases /\ Milder(d, d0)
  BY DeletedTyped, DeletedMilder
<1>2. /\ d0.tokens = d.tokens \ theirs /\ d0.importDue = d.importDue /\ d0.contracts = d.contracts
      /\ d0.raced = d.raced
  BY DEF DeleteTokens, Databases
<1>3. d1 = [d0 EXCEPT !.contracts = d0.contracts \ gone, !.importDue = d0.importDue \ gone,
                      !.imported = d0.imported \ gone]
  BY <1>1 DEF RollBackDeployments, Databases
<1>4. /\ \A t \in d0.tokens : ContractOf[t] \notin gone
      /\ d0.tokens \subseteq d.tokens
  BY <1>2
<1> HIDE DEF d0, theirs, gone
<1>5. /\ d1.tokens = d0.tokens /\ d1.pending = d0.pending /\ d1.supply = d0.supply
      /\ d1.raced = d0.raced /\ d1.importDue = d0.importDue \ gone
      /\ d1.contracts = d0.contracts \ gone
  BY <1>1, <1>3 DEF Databases
<1>6. d1 \in Databases
  <2> DEFINE r == [d0 EXCEPT !.contracts = d0.contracts \ gone, !.importDue = d0.importDue \ gone,
                             !.imported = d0.imported \ gone]
  <2>1. r \in Databases
    BY <1>1 DEF Databases
  <2> HIDE DEF r, d1
  <2> QED BY <1>3, <2>1 DEF r
<1> HIDE DEF d1
<1>7. Owns(d) => Owns(d1)
  BY <1>2, <1>4, <1>5 DEF Owns
<1>8. Milder(d, d1)
  BY <1>1, <1>5, <1>7 DEF Milder
<1>9. d2 \in Databases
  BY <1>6 DEF RollBackNotifications, Databases
<1>10. /\ d2.tokens = d1.tokens /\ d2.pending = d1.pending /\ d2.supply = d1.supply
       /\ d2.raced = d1.raced /\ d2.importDue = d1.importDue /\ d2.contracts = d1.contracts
  BY <1>6 DEF RollBackNotifications, Databases
<1> HIDE DEF d2
<1>11. Milder(d1, d2)
  BY <1>10, PendingMilder
<1>12. d3 \in Databases /\ Milder(d2, d3)
  BY <1>9, DeletedTyped, DeletedMilder DEF RollBackMints
<1> HIDE DEF d3
<1>13. Milder(d, d3)
  BY <1>8, <1>11, <1>12, MilderTwice
<1> QED BY <1>12, <1>13 DEF d3, d2, d1

LEMMA AppliedMilder ==
  ASSUME NEW d \in Databases, NEW b \in Blocks
  PROVE  LET r == ApplyMints(ApplyNotifications(ApplyDeployments(d, b), b), b)
         IN r \in Databases /\ Milder(d, r)
<1> DEFINE new == Cache[b].contracts
           d0 == EnqueueContracts(d, new)
           d1 == ApplyDeployments(d, b)
           d2 == ApplyNotifications(d1, b)
           d3 == ApplyMints(d2, b)
           known == {t \in Mints[b] : ContractOf[t] \in d2.contracts}
           failed == [d2 EXCEPT !.failed = TRUE]
<1>1. new \in SUBSET Contracts
  BY CacheTyped DEF Caches
<1>2. d1 = [d0 EXCEPT !.imported = d0.imported \ new]
  BY DEF ApplyDeployments
<1> HIDE DEF new
<1>3. d0 \in Databases /\ Milder(d, d0)
  BY <1>1, ContractsEnqueued, EnqueuedMilder
<1> HIDE DEF d0
<1>4. d1 \in Databases
  <2>1. d0.imported \ new \in SUBSET Contracts
    BY <1>3 DEF Databases
  <2> QED BY <1>2, <1>3, <2>1 DEF Databases
<1>5. /\ d1.tokens = d0.tokens /\ d1.pending = d0.pending /\ d1.supply = d0.supply
      /\ d1.raced = d0.raced /\ d1.importDue = d0.importDue /\ d1.contracts = d0.contracts
  BY <1>2, <1>3 DEF Databases
<1> HIDE DEF d1
<1>6. Milder(d0, d1)
  BY <1>5, PendingMilder
<1>7. d2 \in Databases /\ Milder(d1, d2)
  BY <1>4, NotificationsApplied
<1> HIDE DEF d2
<1>8. known \in SUBSET Tokens /\ \A t \in known : ContractOf[t] \in d2.contracts
  BY CacheTyped, MintedInOne DEF Caches
<1>9. d3 = IF known \cap Huge # {} THEN failed ELSE InsertTokens(d2, known)
  BY MintedInOne DEF ApplyMints
<1>10. /\ failed.tokens = d2.tokens /\ failed.pending = d2.pending /\ failed.supply = d2.supply
       /\ failed.raced = d2.raced /\ failed.importDue = d2.importDue
       /\ failed.contracts = d2.contracts
  BY <1>7 DEF Databases
<1>11. d3 \in Databases
  BY <1>7, MintsApplied
<1> HIDE DEF d3, known, failed
<1>12. Milder(d2, failed)
  BY <1>10, PendingMilder
<1>13. Milder(d2, InsertTokens(d2, known))
  BY <1>7, <1>8, InsertedMilder
<1>14. Milder(d2, d3)
  BY <1>9, <1>12, <1>13
<1>15. Milder(d, d2)
  BY <1>3, <1>6, <1>7, MilderTwice
<1>16. Milder(d, d3)
  BY <1>14, <1>15, MilderTwice
<1> QED BY <1>11, <1>16 DEF d3, d2, d1

LEMMA DynamicMilder ==
  ASSUME NEW d \in Databases PROVE Milder(d, EnqueueDynamicTokens(d))
<1> DEFINE r == EnqueueDynamicTokens(d)
           due == DueForRefresh(d)
<1>1. /\ r.tokens = d.tokens /\ r.pending = d.pending \cup due /\ r.supply = d.supply
      /\ r.raced = d.raced /\ r.importDue = d.importDue /\ r.contracts = d.contracts
  BY DEF EnqueueDynamicTokens, Databases
<1> HIDE DEF r, due
<1>2. Milder(d, r)
  BY <1>1, PendingMilder
<1> QED BY <1>2 DEF r

\* A token of an FT whose supply is kept: number 1.
FtToken(t) == t = TokenOne[ContractOf[t]] /\ Sip[ContractOf[t]] = "sip-010"

\* A block that is applied or rolled back changes it by what the block mints and burns.
LEMMA SupplyAdjusted ==
  ASSUME NEW d \in Databases, NEW b \in Blocks, NEW sign \in {1, -1}
  PROVE  LET r == ChangeSupply(d, b, sign)
         IN /\ r.tokens = d.tokens /\ r.pending = d.pending /\ r.raced = d.raced
            /\ r.importDue = d.importDue /\ r.contracts = d.contracts
            /\ \A t \in d.tokens : ContractOf[t] \in d.contracts /\ FtToken(t) =>
                 r.supply[t] = IF d.supply[t] = Null THEN Null
                               ELSE d.supply[t] + sign * SupplyDelta[b][ContractOf[t]]
<1> DEFINE r == ChangeSupply(d, b, sign)
           deltas == Cache[b].ftSupplyDelta
           changed == {t \in d.tokens : \E k \in d.contracts \cap DOMAIN deltas : t = TokenOne[k]}
           supply == [t \in Tokens |-> IF t \in changed /\ d.supply[t] # Null
                                       THEN d.supply[t] + sign * deltas[ContractOf[t]]
                                       ELSE d.supply[t]]
<1>1. /\ r.tokens = d.tokens /\ r.pending = d.pending /\ r.raced = d.raced
      /\ r.importDue = d.importDue /\ r.contracts = d.contracts /\ r.supply = supply
  BY DEF ChangeSupply, Databases
<1> HIDE DEF r
<1>2. ASSUME NEW t \in d.tokens, ContractOf[t] \in d.contracts, FtToken(t)
      PROVE  supply[t] = IF d.supply[t] = Null THEN Null
                         ELSE d.supply[t] + sign * SupplyDelta[b][ContractOf[t]]
  <2> DEFINE k == ContractOf[t]
  <2>1. t \in Tokens /\ k \in Contracts /\ d.supply[t] \in Int \cup {Null}
    BY BlockCacheAssumption DEF Databases, Supplies
  <2>2. SupplyDelta[b][k] = IF k \in DOMAIN deltas THEN deltas[k] ELSE 0
    BY <2>1, DeltaOfCache DEF DeltaIn
  <2>3. t \in changed <=> k \in DOMAIN deltas
    <3>1. \A j \in d.contracts : t = TokenOne[j] => j = k
      BY ChainAssumption DEF Databases
    <3> QED BY <1>2, <3>1 DEF FtToken
  <2>4. supply[t] = IF t \in changed /\ d.supply[t] # Null
                    THEN d.supply[t] + sign * deltas[k] ELSE d.supply[t]
    BY <2>1
  <2> HIDE DEF supply, changed, deltas, k
  <2>5. CASE d.supply[t] = Null
    BY <2>4, <2>5
  <2>6. CASE d.supply[t] # Null /\ k \in DOMAIN deltas
    BY <2>2, <2>3, <2>4, <2>6 DEF k
  <2>7. CASE d.supply[t] # Null /\ k \notin DOMAIN deltas
    <3>1. supply[t] = d.supply[t] /\ SupplyDelta[b][k] = 0 /\ d.supply[t] \in Int
      BY <2>1, <2>2, <2>3, <2>4, <2>7
    <3> QED BY <2>7, <3>1 DEF k
  <2> QED BY <2>5, <2>6, <2>7
<1> HIDE DEF supply
<1> QED BY <1>1, <1>2 DEF r

-----------------------------------------------------------------------------
(* The inductive invariant.                                                 *)

\* The chain holds blocks at the heights above the first one.
AtHeights(c) == \A i \in DOMAIN c : Height[c[i]] = Genesis + i

\* One chain begins as the other.
Begins(c, d) == Len(c) <= Len(d) /\ \A i \in DOMAIN c : c[i] = d[i]

\* How much of the target a payload leaves as it is.
Below == Len(payload.target) - Len(payload.apply)

PayloadOK ==
  payload # Null =>
    /\ Below \in 0..Len(payload.target)
    /\ \A i \in DOMAIN payload.apply : payload.apply[i] = payload.target[Below + i]
    /\ payload.rollback # <<>> =>
         /\ Below <= Len(sent) /\ Len(payload.rollback) = Len(sent) - Below
         /\ \A i \in DOMAIN payload.rollback : payload.rollback[i] = sent[Len(sent) + 1 - i]
         /\ \A i \in 1..Below : sent[i] = payload.target[i]

\* A chain that the database may stand for between two transactions.
ChainOK(c) ==
  /\ c \in Seq(Blocks) /\ AtHeights(c)
  /\ payload = Null => Len(c) = Len(sent) /\ (~diverged => c = sent)
  /\ payload # Null /\ payload.rollback # <<>> =>
       Below <= Len(c) /\ (~diverged => c \in {sent, payload.target})
  /\ payload # Null /\ payload.rollback = <<>> =>
       Below <= Len(c) /\ Len(c) <= Len(payload.target) /\ (~diverged => Begins(c, payload.target))

PhaseOK ==
  /\ phase # "none" => saved \in Snapshots /\ payload # Null /\ ChainOK(saved.chain)
  /\ phase \in {"none", "rollback"} => ChainOK(chain)
  /\ phase = "rollback" => chain = saved.chain /\ pos \in 1..(Len(payload.rollback) + 1)
  /\ phase = "apply" =>
       /\ pos \in 1..(Len(payload.apply) + 1)
       /\ chain \in Seq(Blocks) /\ AtHeights(chain)
       /\ Below + pos - 1 <= Len(chain) /\ Len(chain) <= Len(payload.target)
       /\ ~diverged => Begins(chain, payload.target)

TokenMints(b) == {t \in Mints[b] : ContractOf[t] \in TokenContracts}

\* The database has what the blocks of B say, and nothing but it.
Lower(d, B) ==
  \A b \in B : /\ Cache[b].contracts \subseteq d.contracts
               /\ TokenMints(b) \ d.dropped \subseteq d.tokens
Upper(d, B) ==
  /\ \A k \in d.contracts \ d.imported : \E b \in B : k \in Cache[b].contracts
  /\ \A t \in d.tokens \ d.early : \E b \in B : t \in TokenMints(b)

Kept == {payload.target[i] : i \in 1..Below}
Left == {payload.rollback[i] : i \in pos..Len(payload.rollback)}

TipOK ==
  /\ db.tip = Genesis + Len(chain)
  /\ db.contracts \subseteq TokenContracts
  /\ db.failed => phase = "apply"
  /\ phase # "none" => /\ saved.db.tip = Genesis + Len(saved.chain)
                       /\ saved.db.contracts \subseteq TokenContracts
                       /\ ~saved.db.failed
  /\ importing # Null => importing \in TokenContracts

RowsOK ==
  ~diverged =>
    /\ phase = "none" => Lower(db, ToSet(chain)) /\ Upper(db, ToSet(chain))
    /\ phase # "none" => Lower(saved.db, ToSet(saved.chain)) /\ Upper(saved.db, ToSet(saved.chain))
    /\ phase = "rollback" =>
         /\ Lower(db, IF payload.rollback = <<>> THEN ToSet(chain) ELSE Kept)
         /\ Upper(db, ToSet(payload.target) \cup Left)
    /\ phase = "apply" /\ ~db.failed =>
         Lower(db, ToSet(chain)) /\ Upper(db, ToSet(payload.target))

NodesOK == node \in Chains \cup {<<>>} /\ sent \in Chains \cup {<<>>}

IInv == TypeOK /\ NodesOK /\ PayloadOK /\ PhaseOK /\ TipOK /\ RowsOK

-----------------------------------------------------------------------------
(* Chains.                                                                  *)

LEMMA ChainTyped ==
  ASSUME NEW c \in Chains \cup {<<>>} PROVE c \in Seq(Blocks) /\ AtHeights(c)
<1>1. CASE c = <<>>
  BY <1>1 DEF AtHeights
<1>2. CASE c \in Chains
  BY <1>2, ChainAssumption DEF AtHeights
<1> QED BY <1>1, <1>2

LEMMA DeployedInMany ==
  ASSUME NEW B \in SUBSET Blocks, NEW k
  PROVE  k \in DeployedIn(B) <=> \E b \in B : k \in Cache[b].contracts
<1>1. k \in DeployedIn(B) <=> \E b \in B : k \in DeployedIn({b})
  BY DEF DeployedIn, TransactionsIn
<1> QED BY <1>1, DeployedInOne

LEMMA MintedInMany ==
  ASSUME NEW B \in SUBSET Blocks, NEW t
  PROVE  t \in MintedIn(B) <=> /\ \E b \in B : t \in Mints[b]
                               /\ \E b \in B : ContractOf[t] \in Cache[b].contracts
<1>1. t \in MintedIn(B) <=> (\E b \in B : t \in Mints[b]) /\ ContractOf[t] \in DeployedIn(B)
  BY DEF MintedIn
<1> DEFINE k == ContractOf[t]
<1>2. k \in DeployedIn(B) <=> \E b \in B : k \in Cache[b].contracts
  BY DeployedInMany
<1> QED BY <1>1, <1>2

LEMMA ContractsTyped ==
  ASSUME NEW b \in Blocks PROVE Cache[b].contracts \subseteq TokenContracts /\ Mints[b] \subseteq Tokens
<1>1. Cache[b].contracts \subseteq TokenContracts
  BY DeployedInOne DEF DeployedIn
<1>2. Mints[b] \subseteq Tokens
  BY CacheTyped, MintedInOne DEF Caches
<1> QED BY <1>1, <1>2

\* What HistoryAssumption says of the caches of a chain's blocks.
LEMMA DeployedOnce ==
  ASSUME NEW c \in Chains \cup {<<>>}, NEW i \in DOMAIN c, NEW j \in DOMAIN c,
         NEW k \in Cache[c[i]].contracts, k \in Cache[c[j]].contracts
  PROVE  i = j
<1>1. c \in Chains
  OBVIOUS
<1>2. c[i] \in Blocks /\ c[j] \in Blocks
  BY ChainTyped
<1>3. k \in DeployedIn({c[i]}) \cap DeployedIn({c[j]})
  BY <1>2, DeployedInOne
<1> QED BY <1>1, <1>3, HistoryAssumption

LEMMA DeployedBefore ==
  ASSUME NEW c \in Chains \cup {<<>>}, NEW i \in DOMAIN c, NEW t \in TokenMints(c[i])
  PROVE  \E j \in 1..i : ContractOf[t] \in Cache[c[j]].contracts
<1>1. c \in Chains /\ c \in Seq(Blocks)
  BY ChainTyped
<1>2. PICK j \in 1..i : ContractOf[t] \in DeployedIn({c[j]})
  BY <1>1, HistoryAssumption DEF TokenMints
<1>3. c[j] \in Blocks
  BY <1>1
<1> QED BY <1>2, <1>3, DeployedInOne

\* A token minted on a chain, seen block by block.
LEMMA MintedOnChain ==
  ASSUME NEW c \in Seq(Blocks), NEW d \in Chains \cup {<<>>}, Begins(c, d), NEW t
  PROVE  t \in MintedOn(c) <=> \E b \in ToSet(c) : t \in TokenMints(b)
<1>1. ToSet(c) \in SUBSET Blocks
  BY DEF ToSet
<1>2. t \in MintedOn(c) <=> /\ \E b \in ToSet(c) : t \in Mints[b]
                            /\ \E b \in ToSet(c) : ContractOf[t] \in Cache[b].contracts
  BY <1>1, MintedInMany DEF MintedOn
<1>3. ASSUME NEW b \in ToSet(c), t \in TokenMints(b)
      PROVE  \E x \in ToSet(c) : ContractOf[t] \in Cache[x].contracts
  <2>1. PICK i \in DOMAIN c : b = c[i]
    BY DEF ToSet
  <2>2. i \in DOMAIN d /\ d[i] = c[i] /\ d \in Seq(Blocks) /\ i \in Nat
    BY ChainTyped DEF Begins
  <2>3. PICK j \in 1..i : ContractOf[t] \in Cache[d[j]].contracts
    BY <1>3, <2>1, <2>2, DeployedBefore
  <2>4. j \in DOMAIN c /\ c[j] = d[j]
    BY <2>2 DEF Begins
  <2> QED BY <2>3, <2>4 DEF ToSet
<1>4. ASSUME NEW x \in ToSet(c), ContractOf[t] \in Cache[x].contracts
      PROVE  ContractOf[t] \in TokenContracts
  BY <1>1, <1>4, ContractsTyped
<1> QED BY <1>2, <1>3, <1>4 DEF TokenMints

\* The fork that the Chainhook node finds.
LEMMA CommonLenExists ==
  ASSUME NEW c \in Seq(Blocks), NEW d \in Seq(Blocks)
  PROVE  /\ CommonLen(c, d) \in 0..Len(c) /\ CommonLen(c, d) <= Len(d)
         /\ \A i \in 1..CommonLen(c, d) : c[i] = d[i]
<1> DEFINE Common(n) == n <= Len(d) /\ \A i \in 1..n : c[i] = d[i]
           s == {n \in 1..Len(c) : Common(n)}
           n == IF s = {} THEN 0 ELSE Max(s)
           Fork(m) == /\ m <= Len(d) /\ SubSeq(c, 1, m) = SubSeq(d, 1, m)
                      /\ m < Len(c) /\ m < Len(d) => c[m + 1] # d[m + 1]
<1>1. Len(c) \in Nat /\ Len(d) \in Nat
  OBVIOUS
<1>2. n \in 0..Len(c) /\ Common(n) /\ \A m \in 1..Len(c) : Common(m) => m <= n
  <2>1. CASE s = {}
    BY <1>1, <2>1
  <2>2. CASE s # {}
    <3>1. s \in SUBSET (1..Len(c))
      OBVIOUS
    <3>2. Max(s) \in s /\ \A y \in s : y <= Max(s)
      BY <1>1, <2>2, <3>1, MaxExists
    <3>3. n \in s /\ \A y \in s : y <= n
      BY <2>2, <3>2
    <3> HIDE DEF n
    <3> QED BY <3>3
  <2> QED BY <2>1, <2>2
<1> HIDE DEF n
<1>3. ASSUME NEW m \in 0..Len(c), m <= Len(d)
      PROVE  SubSeq(c, 1, m) = SubSeq(d, 1, m) <=> \A i \in 1..m : c[i] = d[i]
  <2>1. SubSeq(c, 1, m) = [i \in 1..m |-> c[i]] /\ SubSeq(d, 1, m) = [i \in 1..m |-> d[i]]
    BY <1>3
  <2> QED BY <2>1
<1>4. Fork(n)
  <2>1. n < Len(c) /\ n < Len(d) => c[n + 1] # d[n + 1]
    <3> SUFFICES ASSUME n < Len(c), n < Len(d), c[n + 1] = d[n + 1] PROVE FALSE
      OBVIOUS
    <3>1. n + 1 \in 1..Len(c) /\ n + 1 <= Len(d)
      BY <1>1, <1>2
    <3>2. \A i \in 1..(n + 1) : i \in 1..n \/ i = n + 1
      BY <1>2
    <3>3. Common(n + 1)
      BY <1>2, <3>1, <3>2
    <3> QED BY <1>2, <3>1, <3>3
  <2> QED BY <1>2, <1>3, <2>1
<1>5. CommonLen(c, d) = CHOOSE m \in 0..Len(c) : Fork(m)
  BY DEF CommonLen
<1>6. CommonLen(c, d) \in 0..Len(c) /\ Fork(CommonLen(c, d))
  <2> HIDE DEF Fork
  <2> QED BY <1>2, <1>4, <1>5
<1> DEFINE x == CommonLen(c, d)
<1>7. x \in 0..Len(c) /\ x <= Len(d) /\ SubSeq(c, 1, x) = SubSeq(d, 1, x)
  BY <1>6
<1> HIDE DEF x
<1>8. \A i \in 1..x : c[i] = d[i]
  BY <1>3, <1>7
<1> QED BY <1>7, <1>8 DEF x

-----------------------------------------------------------------------------
(* The initial state, and the steps of the nodes.                           *)

LEMMA InitKeeps == Init => IInv
<1> SUFFICES ASSUME Init PROVE IInv
  OBVIOUS
<1>1. db = EmptyDatabase /\ db \in Databases
  <2>1. [t \in Tokens |-> Null] \in [Tokens -> Supplies]
    BY DEF Supplies
  <2>2. Genesis \in Nat /\ Genesis >= Genesis
    BY DEF Genesis
  <2> QED BY <2>1, <2>2 DEF Init, EmptyDatabase, Databases
<1>2. TypeOK
  <2>1. imports \in [Contracts -> (SUBSET Tokens) \cup {Null}] /\ reads \in [Tokens -> Supplies]
    BY DEF Init, Supplies
  <2>2. 0 \in 0..MaxFaults
    BY ChainAssumption
  <2>3. node \in Chains \cup {<<>>} /\ sent \in Seq(Blocks) /\ chain \in Seq(Blocks)
    BY DEF Init
  <2>4. /\ payload = Null /\ saved = Null /\ importing = Null /\ phase = "none" /\ pos = 0
        /\ resent = FALSE /\ diverged = FALSE /\ faults = 0
    BY DEF Init
  <2> QED BY <1>1, <2>1, <2>2, <2>3, <2>4 DEF TypeOK
<1>3. NodesOK /\ PayloadOK
  BY DEF Init, NodesOK, PayloadOK
<1>4. PhaseOK
  <2>1. ChainOK(chain)
    BY DEF Init, ChainOK, AtHeights
  <2> QED BY <2>1 DEF Init, PhaseOK
<1>5. TipOK
  BY DEF Init, TipOK, EmptyDatabase, Genesis
<1>6. RowsOK
  <2>1. ToSet(chain) = {} /\ db.contracts = {} /\ db.tokens = {}
    BY DEF Init, EmptyDatabase, ToSet
  <2> QED BY <2>1 DEF Init, RowsOK, Lower, Upper
<1> QED BY <1>2, <1>3, <1>4, <1>5, <1>6 DEF IInv

\* A step that leaves the payload, its transaction and the rows alone.
LEMMA NodeStepKeeps ==
  ASSUME IInv, node' \in Chains \cup {<<>>}, faults' \in 0..MaxFaults,
         importing' \in TokenContracts \cup {Null},
         UNCHANGED <<sent, payload, phase, pos, saved, db, imports, reads, chain, resent, diverged>>
  PROVE  IInv'
<1>1. TypeOK' /\ NodesOK'
  BY DEF IInv, TypeOK, NodesOK, TokenContracts
<1>2. PayloadOK' /\ PhaseOK'
  BY DEF IInv, PayloadOK, PhaseOK, ChainOK, Below
<1>3. TipOK' /\ RowsOK'
  BY DEF IInv, TipOK, RowsOK, Kept, Left, Below
<1> QED BY <1>1, <1>2, <1>3 DEF IInv

LEMMA NodeMovesKeeps == ASSUME IInv, NodeMoves PROVE IInv'
<1>1. node' \in Chains \cup {<<>>} /\ faults' \in 0..MaxFaults /\ importing' \in TokenContracts \cup {Null}
  BY DEF NodeMoves, StoreUnchanged, IInv, TypeOK, TipOK
<1>2. UNCHANGED <<sent, payload, phase, pos, saved, db, imports, reads, chain, resent, diverged>>
  BY DEF NodeMoves, StoreUnchanged
<1> QED BY <1>1, <1>2, NodeStepKeeps

LEMMA ImportContractReadsKeeps ==
  ASSUME IInv, NEW k \in Contracts, ImportContractReads(k) PROVE IInv'
<1>1. node' \in Chains \cup {<<>>} /\ faults' \in 0..MaxFaults
  BY ChainAssumption DEF ImportContractReads, IInv, TypeOK
<1>2. importing' \in TokenContracts \cup {Null}
  BY DEF ImportContractReads, DeployedOn, DeployedIn
<1>3. UNCHANGED <<sent, payload, phase, pos, saved, db, imports, reads, chain, resent, diverged>>
  BY DEF ImportContractReads
<1> QED BY <1>1, <1>2, <1>3, NodeStepKeeps

\* A payload is made when no transaction is open.
LEMMA PayloadStepKeeps ==
  ASSUME IInv, phase = "none", payload' \in Payloads, PayloadOK', ChainOK(chain)',
         diverged' \in BOOLEAN, diverged => diverged', faults' \in 0..MaxFaults,
         UNCHANGED <<node, sent, phase, pos, saved, db, imports, importing, reads, chain, resent>>
  PROVE  IInv'
<1>1. TypeOK' /\ NodesOK'
  BY DEF IInv, TypeOK, NodesOK
<1>2. PhaseOK'
  BY DEF IInv, PhaseOK
<1>3. TipOK' /\ RowsOK'
  BY DEF IInv, TipOK, RowsOK
<1> QED BY <1>1, <1>2, <1>3 DEF IInv

LEMMA SendKeeps == ASSUME IInv, Send PROVE IInv'
<1> DEFINE fork == CommonLen(sent, node)
           rollback == Reverse(SubSeq(sent, fork + 1, Len(sent)))
           apply == SubSeq(node, fork + 1, Len(node))
<1>1. sent \in Seq(Blocks) /\ node \in Seq(Blocks) /\ node \in Chains \cup {<<>>}
  BY ChainTyped DEF IInv, NodesOK
<1>2. /\ fork \in 0..Len(sent) /\ fork <= Len(node) /\ fork \in Nat
      /\ \A i \in 1..fork : sent[i] = node[i]
  BY <1>1, CommonLenExists
<1>3. payload' = [rollback |-> rollback, apply |-> apply, target |-> node]
  BY DEF Send
<1> HIDE DEF fork
<1>4. /\ rollback \in Seq(Blocks) /\ Len(rollback) = Len(sent) - fork
      /\ \A i \in 1..(Len(sent) - fork) : rollback[i] = sent[Len(sent) + 1 - i]
  <2> DEFINE left == SubSeq(sent, fork + 1, Len(sent))
  <2>1. /\ left \in Seq(Blocks) /\ Len(left) = Len(sent) - fork
        /\ \A i \in 1..(Len(sent) - fork) : left[i] = sent[fork + i]
    BY <1>1, <1>2
  <2>2. rollback = [i \in 1..Len(left) |-> left[(Len(left) - i) + 1]]
    BY DEF Reverse
  <2> HIDE DEF left, rollback
  <2>3. \A i \in 1..Len(left) : (Len(left) - i) + 1 \in 1..Len(left)
    BY <2>1, <1>1
  <2>4. rollback \in Seq(Blocks) /\ Len(rollback) = Len(left)
    BY <2>1, <2>2, <2>3
  <2>5. ASSUME NEW i \in 1..(Len(sent) - fork) PROVE rollback[i] = sent[Len(sent) + 1 - i]
    <3>1. rollback[i] = left[(Len(left) - i) + 1] /\ (Len(left) - i) + 1 \in 1..(Len(sent) - fork)
      BY <2>1, <2>2, <2>3
    <3>2. fork + ((Len(left) - i) + 1) = Len(sent) + 1 - i
      BY <2>1, <1>1, <1>2
    <3> QED BY <2>1, <3>1, <3>2
  <2> QED BY <2>1, <2>4, <2>5
<1>5. /\ apply \in Seq(Blocks) /\ Len(apply) = Len(node) - fork
      /\ \A i \in 1..(Len(node) - fork) : apply[i] = node[fork + i]
  BY <1>1, <1>2
<1> HIDE DEF rollback, apply
<1>6. payload' \in Payloads
  BY <1>1, <1>3, <1>4, <1>5 DEF Payloads
<1>7. Below' = fork
  <2>1. Len(payload'.target) = Len(node) /\ Len(payload'.apply) = Len(node) - fork
    BY <1>3, <1>5
  <2> QED BY <1>1, <1>2, <2>1 DEF Below
<1>8. sent' = sent /\ chain' = chain /\ diverged' = diverged /\ phase = "none" /\ payload' # Null
  BY <1>6, ChainAssumption DEF Send, StoreUnchanged, IInv, PhaseOK
<1>9. PayloadOK'
  <2>1. DOMAIN apply = 1..(Len(node) - fork) /\ DOMAIN rollback = 1..(Len(sent) - fork)
    BY <1>4, <1>5
  <2>2. payload'.rollback = rollback /\ payload'.apply = apply /\ payload'.target = node
    BY <1>3
  <2>3. Below' \in 0..Len(node) /\ Below' <= Len(sent)
    BY <1>1, <1>2, <1>7
  <2> QED BY <1>2, <1>4, <1>5, <1>7, <1>8, <2>1, <2>2, <2>3 DEF PayloadOK
<1>10. chain \in Seq(Blocks) /\ AtHeights(chain) /\ Len(chain) = Len(sent) /\ (~diverged => chain = sent)
  BY <1>8 DEF Send, IInv, PhaseOK, ChainOK
<1>11. ChainOK(chain)'
  <2>1. CASE rollback # <<>>
    BY <1>1, <1>2, <1>3, <1>7, <1>8, <1>10, <2>1 DEF ChainOK, AtHeights
  <2>2. CASE rollback = <<>>
    <3>1. fork = Len(sent)
      BY <1>1, <1>2, <1>4, <2>2
    <3> QED BY <1>1, <1>2, <1>3, <1>7, <1>8, <1>10, <2>2, <3>1 DEF ChainOK, AtHeights, Begins
  <2> QED BY <2>1, <2>2
<1>12. /\ diverged' \in BOOLEAN /\ faults' \in 0..MaxFaults
       /\ UNCHANGED <<node, sent, phase, pos, saved, db, imports, importing, reads, chain, resent>>
  BY DEF Send, StoreUnchanged, IInv, TypeOK
<1> QED BY <1>6, <1>8, <1>9, <1>11, <1>12, PayloadStepKeeps

LEMMA RegisterKeeps == ASSUME IInv, Register PROVE IInv'
<1> DEFINE first == Max({db.tip - Genesis, 1})
           apply == SubSeq(node, first, Len(node))
<1>1. chain \in Seq(Blocks) /\ node \in Seq(Blocks) /\ node \in Chains \cup {<<>>}
  BY ChainTyped DEF IInv, NodesOK, TypeOK
<1>2. db.tip - Genesis = Len(chain) /\ Len(chain) \in Nat /\ Len(chain) <= Len(node) /\ Len(node) \in Nat
  BY <1>1 DEF Register, IInv, TipOK, Genesis
<1>3. first = IF Len(chain) = 0 THEN 1 ELSE Len(chain)
  <2> DEFINE n == Len(chain)
             s == {n, 1}
  <2>1. n \in Nat
    BY <1>2
  <2> HIDE DEF n
  <2>2. \E x \in s : \A y \in s : x >= y
    BY <2>1
  <2>3. Max(s) \in s /\ \A y \in s : Max(s) >= y
    BY <2>2 DEF Max
  <2>4. Max(s) = IF n = 0 THEN 1 ELSE n
    BY <2>1, <2>3
  <2> QED BY <1>2, <2>4 DEF n
<1>4. payload' = [rollback |-> <<>>, target |-> node, apply |-> apply]
  BY DEF Register
<1> HIDE DEF first
<1>5. /\ apply \in Seq(Blocks) /\ Len(apply) = Len(node) + 1 - first
      /\ \A i \in 1..(Len(node) + 1 - first) : apply[i] = node[(first - 1) + i]
  <2>1. first \in 1..(Len(node) + 1)
    BY <1>2, <1>3
  <2> QED BY <1>1, <1>2, <2>1
<1> HIDE DEF apply
<1>6. payload' \in Payloads
  BY <1>1, <1>4, <1>5 DEF Payloads
<1>7. Below' = first - 1
  <2>1. Len(payload'.target) = Len(node) /\ Len(payload'.apply) = Len(node) + 1 - first
    BY <1>4, <1>5
  <2> QED BY <1>2, <1>3, <2>1 DEF Below
<1>8. sent' = sent /\ chain' = chain /\ phase = "none" /\ payload' # Null
  BY <1>6, ChainAssumption DEF Register, StoreUnchanged
<1>9. PayloadOK'
  <2>1. DOMAIN apply = 1..(Len(node) + 1 - first)
    BY <1>5
  <2>2. payload'.rollback = <<>> /\ payload'.apply = apply /\ payload'.target = node
    BY <1>4
  <2>3. Below' \in 0..Len(node)
    BY <1>2, <1>3, <1>7
  <2> QED BY <1>5, <1>7, <2>1, <2>2, <2>3 DEF PayloadOK
<1>10. ~diverged' => Begins(chain, node)
  <2> SUFFICES ASSUME IsPrefix(chain, node) PROVE Begins(chain, node)
    BY DEF Register, IInv, TypeOK
  <2>1. Len(chain) <= Len(node) /\ SubSeq(chain, 1, Len(chain)) = SubSeq(node, 1, Len(chain))
    BY DEF IsPrefix
  <2>2. ASSUME NEW i \in 1..Len(chain) PROVE chain[i] = node[i]
    <3>1. SubSeq(chain, 1, Len(chain))[i] = chain[i] /\ SubSeq(node, 1, Len(chain))[i] = node[i]
      BY <1>1, <2>1
    <3> QED BY <2>1, <3>1
  <2> QED BY <1>1, <2>1, <2>2 DEF Begins
<1>11. ChainOK(chain)'
  <2>1. AtHeights(chain)
    BY <1>8 DEF IInv, PhaseOK, ChainOK
  <2> QED BY <1>1, <1>2, <1>3, <1>4, <1>7, <1>8, <1>10, <2>1 DEF ChainOK, AtHeights, Begins
<1>12. /\ diverged' \in BOOLEAN /\ (diverged => diverged') /\ faults' \in 0..MaxFaults
       /\ UNCHANGED <<node, sent, phase, pos, saved, db, imports, importing, reads, chain, resent>>
  BY ChainAssumption DEF Register, StoreUnchanged, IInv, TypeOK
<1> QED BY <1>6, <1>8, <1>9, <1>11, <1>12, PayloadStepKeeps

-----------------------------------------------------------------------------
(* The jobs.                                                                *)

\* Between two payloads a job writes to rows of the ingested chain.
LEMMA JobStepKeeps ==
  ASSUME IInv, phase = "none",
         UNCHANGED <<node, sent, payload, phase, pos, saved, chain, resent, diverged, faults>>,
         db' \in Databases, imports' \in [Contracts -> (SUBSET Tokens) \cup {Null}],
         importing' \in TokenContracts \cup {Null}, reads' \in [Tokens -> Supplies],
         db'.tip = db.tip, db'.failed = db.failed, db'.contracts \subseteq TokenContracts,
         ~diverged => Lower(db', ToSet(chain)) /\ Upper(db', ToSet(chain))
  PROVE  IInv'
<1>1. TypeOK' /\ NodesOK'
  BY DEF IInv, TypeOK, NodesOK, TokenContracts
<1>2. PayloadOK' /\ PhaseOK'
  BY DEF IInv, PayloadOK, PhaseOK, ChainOK, Below
<1>3. TipOK'
  BY DEF IInv, TipOK, PhaseOK
<1>4. RowsOK'
  BY DEF RowsOK
<1> QED BY <1>1, <1>2, <1>3, <1>4 DEF IInv

LEMMA SameRows ==
  ASSUME NEW d, NEW e, Index(d) = Index(e), NEW B
  PROVE  /\ Lower(d, B) <=> Lower(e, B)
         /\ Upper(d, B) <=> Upper(e, B)
         /\ d.tip = e.tip /\ d.contracts = e.contracts
BY DEF Index, Lower, Upper

\* And most of them to columns that the invariant is not about.
LEMMA SmallJobStepKeeps ==
  ASSUME IInv, phase = "none",
         UNCHANGED <<node, sent, payload, phase, pos, saved, chain, resent, diverged, faults>>,
         db' \in Databases, imports' \in [Contracts -> (SUBSET Tokens) \cup {Null}],
         importing' = importing, reads' \in [Tokens -> Supplies],
         Index(db') = Index(db), db'.failed = db.failed
  PROVE  IInv'
<1>1. importing' \in TokenContracts \cup {Null}
  BY DEF IInv, TipOK, TypeOK
<1>2. db'.tip = db.tip /\ db'.contracts = db.contracts
  BY SameRows
<1>3. db'.contracts \subseteq TokenContracts
  BY <1>2 DEF IInv, TipOK
<1>4. ~diverged => Lower(db', ToSet(chain)) /\ Upper(db', ToSet(chain))
  BY SameRows DEF IInv, RowsOK
<1> QED BY <1>1, <1>2, <1>3, <1>4, JobStepKeeps

LEMMA MintedTyped ==
  ASSUME NEW c \in Seq(Blocks) PROVE MintedOn(c) \subseteq Tokens
<1>1. ToSet(c) \in SUBSET Blocks
  BY DEF ToSet
<1> QED BY <1>1, ContractsTyped DEF MintedOn, MintedIn

LEMMA ContractJobReadsKeeps ==
  ASSUME IInv, NEW k \in Contracts, ContractJobReads(k) PROVE IInv'
<1>1. /\ phase = "none" /\ importing' = importing /\ reads' = reads
      /\ UNCHANGED <<node, sent, payload, phase, pos, saved, chain, resent, diverged, faults>>
  BY DEF ContractJobReads, ChainUnchanged
<1>2. /\ db \in Databases /\ reads \in [Tokens -> Supplies]
      /\ imports \in [Contracts -> (SUBSET Tokens) \cup {Null}]
  BY DEF IInv, TypeOK
<1>3. db' \in Databases /\ Index(db') = Index(db) /\ db'.failed = db.failed
  <2>1. CASE db' = db
    BY <1>2, <2>1
  <2>2. CASE db' = [db EXCEPT !.importDue = @ \ {k}]
    BY <1>2, <2>2 DEF Databases, Index
  <2> QED BY <2>1, <2>2 DEF ContractJobReads
<1>4. imports' \in [Contracts -> (SUBSET Tokens) \cup {Null}]
  <2>1. CASE imports' = [imports EXCEPT ![k] = {t \in MintedOn(node) : ContractOf[t] = k}]
    <3>1. MintedOn(node) \subseteq Tokens
      BY ChainTyped, MintedTyped DEF IInv, NodesOK
    <3> DEFINE read == {t \in MintedOn(node) : ContractOf[t] = k}
    <3>2. read \in (SUBSET Tokens) \cup {Null}
      BY <3>1
    <3> HIDE DEF read
    <3> QED BY <1>2, <2>1, <3>2 DEF read
  <2>2. CASE imports' = [imports EXCEPT ![k] = {TokenOne[k]}]
    <3>1. {TokenOne[k]} \in (SUBSET Tokens) \cup {Null}
      BY ChainAssumption
    <3> QED BY <1>2, <2>2, <3>1
  <2>3. CASE imports' = imports
    BY <1>2, <2>3
  <2> QED BY <2>1, <2>2, <2>3 DEF ContractJobReads
<1> QED BY <1>1, <1>2, <1>3, <1>4, SmallJobStepKeeps

LEMMA ContractJobInsertsKeeps ==
  ASSUME IInv, NEW k \in Contracts, ContractJobInserts(k) PROVE IInv'
<1> DEFINE read == imports[k]
           d == InsertTokens(db, read)
           new == read \ (MintedOn(chain) \cup db.tokens)
<1>1. /\ phase = "none" /\ importing' = importing /\ reads' = reads
      /\ UNCHANGED <<node, sent, payload, phase, pos, saved, chain, resent, diverged, faults>>
  BY DEF ContractJobInserts, ChainUnchanged
<1>2. /\ db \in Databases /\ reads \in [Tokens -> Supplies] /\ chain \in Seq(Blocks)
      /\ imports \in [Contracts -> (SUBSET Tokens) \cup {Null}]
  BY DEF IInv, TypeOK
<1>3. read \in SUBSET Tokens /\ imports' = [imports EXCEPT ![k] = Null]
  BY <1>2 DEF ContractJobInserts
<1>4. /\ d \in Databases /\ d.failed = db.failed
      /\ Index(d) = <<db.tip, db.contracts, db.tokens \cup read, db.imported, db.early, db.dropped>>
  BY <1>2, <1>3, InsertedTyped
<1>5. db' = [d EXCEPT !.importDue = d.importDue \ {k}, !.early = d.early \cup new]
  BY <1>4 DEF ContractJobInserts, Databases
<1>6. new \in SUBSET Tokens
  BY <1>3
<1> HIDE DEF d, new
<1>7. /\ db' \in Databases /\ db'.failed = db.failed /\ db'.tip = db.tip
      /\ db'.contracts = db.contracts /\ db'.imported = db.imported /\ db'.dropped = db.dropped
      /\ db'.tokens = db.tokens \cup read /\ db'.early = db.early \cup new
  <2>1. /\ db' \in Databases /\ db'.failed = d.failed /\ db'.tip = d.tip
        /\ db'.contracts = d.contracts /\ db'.imported = d.imported /\ db'.dropped = d.dropped
        /\ db'.tokens = d.tokens /\ db'.early = d.early \cup new
    BY <1>4, <1>5, <1>6 DEF Databases
  <2> QED BY <1>4, <2>1 DEF Index
<1>8. ASSUME ~diverged PROVE Lower(db', ToSet(chain)) /\ Upper(db', ToSet(chain))
  <2>1. Lower(db, ToSet(chain)) /\ Upper(db, ToSet(chain))
    BY <1>1, <1>8 DEF IInv, RowsOK
  <2>2. \A t \in MintedOn(chain) : \E b \in ToSet(chain) : t \in TokenMints(b)
    <3>1. ToSet(chain) \in SUBSET Blocks
      BY <1>2 DEF ToSet
    <3> SUFFICES ASSUME NEW t \in MintedOn(chain) PROVE \E b \in ToSet(chain) : t \in TokenMints(b)
      OBVIOUS
    <3>2. /\ \E b \in ToSet(chain) : t \in Mints[b]
          /\ \E b \in ToSet(chain) : ContractOf[t] \in Cache[b].contracts
      BY <3>1, MintedInMany DEF MintedOn
    <3>3. ContractOf[t] \in TokenContracts
      BY <3>1, <3>2, ContractsTyped
    <3> QED BY <3>2, <3>3 DEF TokenMints
  <2>3. Lower(db', ToSet(chain))
    BY <1>7, <2>1 DEF Lower
  <2>4. ASSUME NEW t \in db'.tokens \ db'.early PROVE \E b \in ToSet(chain) : t \in TokenMints(b)
    <3>1. t \in db.tokens \ db.early \/ t \in MintedOn(chain)
      BY <1>7, <2>4 DEF new
    <3> QED BY <2>1, <2>2, <3>1 DEF Upper
  <2>5. Upper(db', ToSet(chain))
    BY <1>7, <2>1, <2>4 DEF Upper
  <2> QED BY <2>3, <2>5
<1>9. imports' \in [Contracts -> (SUBSET Tokens) \cup {Null}] /\ reads' \in [Tokens -> Supplies]
  BY <1>1, <1>2, <1>3
<1>10. importing' \in TokenContracts \cup {Null} /\ db'.contracts \subseteq TokenContracts
  BY <1>1, <1>7 DEF IInv, TipOK, TypeOK
<1> QED BY <1>1, <1>7, <1>8, <1>9, <1>10, JobStepKeeps

LEMMA TokenJobReadsKeeps ==
  ASSUME IInv, NEW t \in Tokens, TokenJobReads(t) PROVE IInv'
<1>1. /\ phase = "none" /\ importing' = importing /\ imports' = imports /\ db' = db
      /\ UNCHANGED <<node, sent, payload, phase, pos, saved, chain, resent, diverged, faults>>
  BY DEF TokenJobReads, ChainUnchanged
<1>2. /\ db \in Databases /\ reads \in [Tokens -> Supplies]
      /\ imports \in [Contracts -> (SUBSET Tokens) \cup {Null}]
  BY DEF IInv, TypeOK
<1>3. reads' \in [Tokens -> Supplies]
  <2> DEFINE read == SupplyOn(node, ContractOf[t])
  <2>1. node \in Seq(Blocks) /\ ContractOf[t] \in Contracts
    BY ChainTyped, BlockCacheAssumption DEF IInv, NodesOK
  <2>2. read \in Supplies
    BY <2>1, SupplyTyped DEF Supplies
  <2>3. reads' = [reads EXCEPT ![t] = read]
    BY DEF TokenJobReads
  <2> HIDE DEF read
  <2> QED BY <1>2, <2>2, <2>3
<1> QED BY <1>1, <1>2, <1>3, SmallJobStepKeeps

LEMMA FtJobWritesKeeps ==
  ASSUME IInv, NEW t \in Tokens, FtJobWrites(t) PROVE IInv'
<1> DEFINE supply == [db.supply EXCEPT ![t] = StoredSupply(reads[t])]
           raced == IF reads[t] # 0 /\ reads[t] = SupplyOn(chain, ContractOf[t])
                    THEN db.raced \ {t} ELSE db.raced \cup {t}
           r == [db EXCEPT !.supply = supply, !.pending = db.pending \ {t},
                           !.stale = db.stale \ {t}, !.raced = raced]
<1>1. /\ phase = "none" /\ importing' = importing /\ imports' = imports
      /\ UNCHANGED <<node, sent, payload, phase, pos, saved, chain, resent, diverged, faults>>
      /\ reads' = [reads EXCEPT ![t] = Null]
  BY DEF FtJobWrites, ChainUnchanged
<1>2. /\ db \in Databases /\ reads \in [Tokens -> Supplies]
      /\ imports \in [Contracts -> (SUBSET Tokens) \cup {Null}]
  BY DEF IInv, TypeOK
<1>3. db' = r
  BY <1>2 DEF FtJobWrites, Databases
<1>4. supply \in [Tokens -> Supplies] /\ raced \in SUBSET Tokens
  <2>1. StoredSupply(reads[t]) \in Supplies
    BY <1>2 DEF StoredSupply, Supplies
  <2>2. db.supply \in [Tokens -> Supplies] /\ db.raced \in SUBSET Tokens
    BY <1>2 DEF Databases
  <2> QED BY <2>1, <2>2
<1> HIDE DEF supply, raced
<1>5. r \in Databases
  BY <1>2, <1>4 DEF Databases
<1>6. Index(r) = Index(db) /\ r.failed = db.failed
  BY <1>2 DEF Databases, Index
<1> HIDE DEF r
<1>7. reads' \in [Tokens -> Supplies]
  BY <1>1, <1>2 DEF Supplies
<1> QED BY <1>1, <1>2, <1>3, <1>5, <1>6, <1>7, SmallJobStepKeeps

LEMMA NftJobWritesKeeps ==
  ASSUME IInv, NEW t \in Tokens, NftJobWrites(t) PROVE IInv'
<1>1. /\ phase = "none" /\ importing' = importing /\ imports' = imports /\ reads' = reads
      /\ UNCHANGED <<node, sent, payload, phase, pos, saved, chain, resent, diverged, faults>>
  BY DEF NftJobWrites, ChainUnchanged
<1>2. /\ db \in Databases /\ reads \in [Tokens -> Supplies]
      /\ imports \in [Contracts -> (SUBSET Tokens) \cup {Null}]
  BY DEF IInv, TypeOK
<1>3. db' = [db EXCEPT !.pending = @ \ {t}, !.stale = @ \ {t}]
  BY DEF NftJobWrites
<1>4. db' \in Databases /\ Index(db') = Index(db) /\ db'.failed = db.failed
  BY <1>2, <1>3 DEF Databases, Index
<1> QED BY <1>1, <1>2, <1>4, SmallJobStepKeeps

LEMMA IntervalPassesKeeps ==
  ASSUME IInv, NEW t \in Tokens, IntervalPasses(t) PROVE IInv'
<1>1. /\ phase = "none" /\ importing' = importing /\ imports' = imports /\ reads' = reads
      /\ UNCHANGED <<node, sent, payload, phase, pos, saved, chain, resent, diverged, faults>>
  BY DEF IntervalPasses, ChainUnchanged
<1>2. /\ db \in Databases /\ reads \in [Tokens -> Supplies]
      /\ imports \in [Contracts -> (SUBSET Tokens) \cup {Null}]
  BY DEF IInv, TypeOK
<1>3. db' = [db EXCEPT !.stale = @ \cup {t}]
  BY DEF IntervalPasses
<1>4. db' \in Databases /\ Index(db') = Index(db) /\ db'.failed = db.failed
  BY <1>2, <1>3 DEF Databases, Index
<1> QED BY <1>1, <1>2, <1>4, SmallJobStepKeeps

LEMMA ImportContractInsertsKeeps == ASSUME IInv, ImportContractInserts PROVE IInv'
<1> DEFINE k == importing
           d == EnqueueContracts(db, {k})
           new == {k} \ DeployedOn(chain)
<1>1. /\ phase = "none" /\ importing' = Null /\ imports' = imports /\ reads' = reads
      /\ UNCHANGED <<node, sent, payload, phase, pos, saved, chain, resent, diverged, faults>>
  BY DEF ImportContractInserts
<1>2. /\ db \in Databases /\ reads \in [Tokens -> Supplies] /\ chain \in Seq(Blocks)
      /\ imports \in [Contracts -> (SUBSET Tokens) \cup {Null}]
  BY DEF IInv, TypeOK
<1>3. k \in TokenContracts /\ {k} \in SUBSET Contracts
  BY DEF ImportContractInserts, IInv, TipOK, TokenContracts
<1>4. /\ d \in Databases /\ d.failed = db.failed
      /\ Index(d) = <<db.tip, db.contracts \cup {k}, db.tokens, db.imported, db.early, db.dropped>>
  BY <1>2, <1>3, ContractsEnqueued
<1>5. db' = [d EXCEPT !.imported = d.imported \cup new]
  BY DEF ImportContractInserts
<1>6. new \in SUBSET Contracts
  BY <1>3
<1> HIDE DEF d, new
<1>7. /\ db' \in Databases /\ db'.failed = db.failed /\ db'.tip = db.tip
      /\ db'.contracts = db.contracts \cup {k} /\ db'.imported = db.imported \cup new
      /\ db'.dropped = db.dropped /\ db'.tokens = db.tokens /\ db'.early = db.early
  <2>1. /\ db' \in Databases /\ db'.failed = d.failed /\ db'.tip = d.tip
        /\ db'.contracts = d.contracts /\ db'.imported = d.imported \cup new
        /\ db'.dropped = d.dropped /\ db'.tokens = d.tokens /\ db'.early = d.early
    BY <1>4, <1>5, <1>6 DEF Databases
  <2> QED BY <1>4, <2>1 DEF Index
<1>8. ASSUME ~diverged PROVE Lower(db', ToSet(chain)) /\ Upper(db', ToSet(chain))
  <2>1. Lower(db, ToSet(chain)) /\ Upper(db, ToSet(chain))
    BY <1>1, <1>8 DEF IInv, RowsOK
  <2>2. k \in DeployedOn(chain) => \E b \in ToSet(chain) : k \in Cache[b].contracts
    <3>1. ToSet(chain) \in SUBSET Blocks
      BY <1>2 DEF ToSet
    <3> QED BY <3>1, DeployedInMany DEF DeployedOn
  <2>3. Lower(db', ToSet(chain))
    BY <1>7, <2>1 DEF Lower
  <2>4. Upper(db', ToSet(chain))
    BY <1>7, <2>1, <2>2 DEF Upper, new
  <2> QED BY <2>3, <2>4
<1>9. importing' \in TokenContracts \cup {Null} /\ db'.contracts \subseteq TokenContracts
  BY <1>1, <1>3, <1>7 DEF IInv, TipOK
<1> QED BY <1>1, <1>2, <1>7, <1>8, <1>9, JobStepKeeps

-----------------------------------------------------------------------------
(* The transaction.                                                         *)

LEMMA FewerBlocks ==
  ASSUME NEW d, NEW B, NEW C, B \subseteq C
  PROVE  /\ Lower(d, C) => Lower(d, B)
         /\ Upper(d, B) => Upper(d, C)
BY DEF Lower, Upper

\* What is known while there is a payload.
LEMMA PayloadFacts ==
  ASSUME IInv, payload # Null
  PROVE  /\ payload \in Payloads /\ sent \in Chains \cup {<<>>}
         /\ payload.rollback \in Seq(Blocks) /\ payload.apply \in Seq(Blocks)
         /\ payload.target \in Chains \cup {<<>>} /\ payload.target \in Seq(Blocks)
         /\ sent \in Seq(Blocks) /\ AtHeights(sent) /\ AtHeights(payload.target)
         /\ Below \in 0..Len(payload.target) /\ Below \in Nat
         /\ Len(payload.apply) = Len(payload.target) - Below
<1>1. payload \in Payloads /\ sent \in Chains \cup {<<>>}
  BY DEF IInv, TypeOK, NodesOK
<1>2. /\ payload.rollback \in Seq(Blocks) /\ payload.apply \in Seq(Blocks)
      /\ payload.target \in Chains \cup {<<>>}
  BY <1>1 DEF Payloads
<1>3. payload.target \in Seq(Blocks) /\ AtHeights(payload.target)
  BY <1>2, ChainTyped
<1>4. sent \in Seq(Blocks) /\ AtHeights(sent)
  BY <1>1, ChainTyped
<1>5. Below \in 0..Len(payload.target)
  BY DEF IInv, PayloadOK
<1>6. Len(payload.apply) = Len(payload.target) - Below /\ Below \in Nat
  BY <1>2, <1>3, <1>5 DEF Below
<1> QED BY <1>1, <1>2, <1>3, <1>4, <1>5, <1>6

\* The blocks that are kept are on the chain the database stood for.
LEMMA KeptOnChain ==
  ASSUME IInv, payload # Null, payload.rollback # <<>>, ChainOK(chain), ~diverged
  PROVE  /\ Below <= Len(chain) /\ Len(chain) \in Nat /\ Below <= Len(sent)
         /\ \A i \in 1..Below : chain[i] = payload.target[i] /\ sent[i] = payload.target[i]
<1>1. Below <= Len(chain) /\ chain \in {sent, payload.target} /\ chain \in Seq(Blocks)
  BY DEF ChainOK
<1>2. Below <= Len(sent) /\ \A i \in 1..Below : sent[i] = payload.target[i]
  BY DEF IInv, PayloadOK
<1> QED BY <1>1, <1>2

LEMMA BeginTransactionKeeps == ASSUME IInv, BeginTransaction PROVE IInv'
<1>1. /\ phase = "none" /\ payload # Null /\ phase' = "rollback" /\ pos' = 1
      /\ saved' = [db |-> db, chain |-> chain, imports |-> imports, reads |-> reads]
      /\ UNCHANGED <<node, sent, payload, db, imports, importing, reads, chain, resent, diverged, faults>>
  BY DEF BeginTransaction, NodeUnchanged
<1>2. TypeOK' /\ NodesOK'
  <2>1. saved' \in Snapshots
    BY <1>1 DEF IInv, TypeOK, Snapshots
  <2> QED BY <1>1, <2>1 DEF IInv, TypeOK, NodesOK
<1>3. ChainOK(chain) /\ ChainOK(chain)' /\ saved'.chain = chain /\ saved'.db = db
  BY <1>1 DEF IInv, PhaseOK, ChainOK, Below
<1>4. saved' \in Snapshots
  BY <1>1 DEF IInv, TypeOK, Snapshots
<1>5. PayloadOK' /\ PhaseOK'
  <2>1. PayloadOK'
    BY <1>1 DEF IInv, PayloadOK, Below
  <2>2. 1 \in 1..(Len(payload.rollback) + 1)
    BY <1>1, PayloadFacts
  <2>3. ChainOK(saved.chain)'
    BY <1>3, <1>1 DEF ChainOK, Below
  <2> QED BY <1>1, <1>3, <1>4, <2>1, <2>2, <2>3 DEF PhaseOK
<1>6. TipOK'
  BY <1>1, <1>3 DEF IInv, TipOK
<1>7. ASSUME ~diverged
      PROVE  /\ Lower(db, IF payload.rollback = <<>> THEN ToSet(chain) ELSE Kept)
             /\ Upper(db, ToSet(payload.target) \cup Left')
  <2>1. Lower(db, ToSet(chain)) /\ Upper(db, ToSet(chain))
    BY <1>1, <1>7 DEF IInv, RowsOK
  <2>2. Left' = {payload.rollback[i] : i \in 1..Len(payload.rollback)}
    BY <1>1 DEF Left
  <2>3. CASE payload.rollback = <<>>
    <3>1. Begins(chain, payload.target) /\ chain \in Seq(Blocks)
      BY <1>1, <1>3, <1>7, <2>3 DEF ChainOK
    <3>2. ToSet(chain) \subseteq ToSet(payload.target) \cup Left'
      <4> SUFFICES ASSUME NEW i \in DOMAIN chain PROVE chain[i] \in ToSet(payload.target)
        BY DEF ToSet
      <4>1. chain[i] = payload.target[i] /\ Len(chain) <= Len(payload.target)
        BY <3>1 DEF Begins
      <4>2. payload.target \in Seq(Blocks)
        BY <1>1, PayloadFacts
      <4>3. i \in DOMAIN payload.target
        BY <3>1, <4>1, <4>2
      <4> QED BY <4>1, <4>3 DEF ToSet
    <3> QED BY <2>1, <2>3, <3>2, FewerBlocks
  <2>4. CASE payload.rollback # <<>>
    <3>1. /\ Below <= Len(chain) /\ Len(chain) \in Nat
          /\ \A i \in 1..Below : chain[i] = payload.target[i] /\ sent[i] = payload.target[i]
      BY <1>1, <1>3, <1>7, <2>4, KeptOnChain
    <3>2. Kept \subseteq ToSet(chain)
      <4>1. DOMAIN chain = 1..Len(chain) /\ Below \in Nat
        BY <1>1, <1>3, PayloadFacts DEF ChainOK
      <4> QED BY <3>1, <4>1 DEF Kept, ToSet
    <3>3. ToSet(sent) \subseteq ToSet(payload.target) \cup Left'
      <4> SUFFICES ASSUME NEW i \in DOMAIN sent PROVE sent[i] \in ToSet(payload.target) \cup Left'
        BY DEF ToSet
      <4>1. /\ sent \in Seq(Blocks) /\ payload.target \in Seq(Blocks)
            /\ Below \in Nat /\ Below <= Len(payload.target) /\ payload.rollback \in Seq(Blocks)
        BY <1>1, PayloadFacts
      <4>2. /\ Len(payload.rollback) = Len(sent) - Below
            /\ \A j \in DOMAIN payload.rollback : payload.rollback[j] = sent[Len(sent) + 1 - j]
        BY <1>1, <2>4 DEF IInv, PayloadOK
      <4>3. CASE i <= Below
        <5>1. i \in 1..Below /\ i \in DOMAIN payload.target
          BY <4>1, <4>3
        <5>2. sent[i] = payload.target[i]
          BY <3>1, <5>1
        <5> QED BY <5>1, <5>2 DEF ToSet
      <4>4. CASE i > Below
        <5> DEFINE j == Len(sent) + 1 - i
        <5>1. j \in 1..Len(payload.rollback) /\ Len(sent) + 1 - j = i
          BY <4>1, <4>2, <4>4
        <5>2. payload.rollback[j] = sent[i]
          BY <4>1, <4>2, <5>1
        <5> QED BY <2>2, <5>1, <5>2
      <4> QED BY <4>1, <4>3, <4>4
    <3>4. chain \in {sent, payload.target}
      BY <1>1, <1>3, <1>7, <2>4 DEF ChainOK
    <3>5. ToSet(chain) \subseteq ToSet(payload.target) \cup Left'
      BY <3>3, <3>4
    <3> QED BY <2>1, <2>4, <3>2, <3>5, FewerBlocks
  <2> QED BY <2>3, <2>4
<1>8. RowsOK'
  <2>1. Kept' = Kept
    BY <1>1 DEF Kept, Below
  <2> QED BY <1>1, <1>3, <1>7, <2>1 DEF IInv, RowsOK
<1> QED BY <1>2, <1>5, <1>6, <1>8 DEF IInv

LEMMA AbortKeeps == ASSUME IInv, Abort PROVE IInv'
<1>1. /\ phase # "none" /\ phase' = "none" /\ pos' = 0 /\ saved' = Null
      /\ db' = saved.db /\ chain' = saved.chain /\ imports' = saved.imports /\ reads' = saved.reads
      /\ UNCHANGED <<node, sent, payload, importing, diverged, resent>> /\ faults' \in 0..MaxFaults
  BY ChainAssumption DEF Abort, NodeUnchanged, IInv, TypeOK
<1>2. saved \in Snapshots /\ payload # Null /\ ChainOK(saved.chain)
  BY <1>1 DEF IInv, PhaseOK
<1>3. /\ saved.db \in Databases /\ saved.chain \in Seq(Blocks) /\ saved.reads \in [Tokens -> Supplies]
      /\ saved.imports \in [Contracts -> (SUBSET Tokens) \cup {Null}]
  BY <1>2 DEF Snapshots
<1>4. TypeOK' /\ NodesOK'
  BY <1>1, <1>3 DEF IInv, TypeOK, NodesOK
<1>5. PayloadOK' /\ PhaseOK'
  <2>1. ChainOK(chain)'
    BY <1>1, <1>2 DEF ChainOK, Below
  <2>2. PayloadOK'
    BY <1>1 DEF IInv, PayloadOK, Below
  <2> QED BY <1>1, <2>1, <2>2 DEF PhaseOK
<1>6. TipOK' /\ RowsOK'
  BY <1>1, <1>2 DEF IInv, TipOK, RowsOK
<1> QED BY <1>4, <1>5, <1>6 DEF IInv

LEMMA CommitKeeps == ASSUME IInv, Commit PROVE IInv'
<1>1. /\ phase = "apply" /\ ~db.failed /\ pos > Len(payload.apply)
      /\ phase' = "none" /\ pos' = 0 /\ saved' = Null
      /\ UNCHANGED <<node, db, imports, importing, reads, chain, diverged>>
      /\ \/ sent' = payload.target /\ payload' = Null
         \/ sent' = sent /\ payload' = payload
  BY DEF Commit, NodeUnchanged
<1>0. resent' \in BOOLEAN /\ faults' \in 0..MaxFaults
  <2>1. faults' \in 0..MaxFaults
    BY ChainAssumption DEF Commit, IInv, TypeOK
  <2>2. resent' \in BOOLEAN
    BY Zenon DEF Commit, IInv, TypeOK
  <2> QED BY <2>1, <2>2
<1>2. payload # Null /\ chain \in Seq(Blocks) /\ AtHeights(chain)
  BY <1>1 DEF IInv, PhaseOK
<1>3. /\ payload.target \in Chains \cup {<<>>} /\ payload.target \in Seq(Blocks)
      /\ Below \in 0..Len(payload.target) /\ Len(payload.apply) = Len(payload.target) - Below
  BY <1>2, PayloadFacts
<1>4. Len(chain) = Len(payload.target)
  <2>1. pos \in Nat /\ Below + pos - 1 <= Len(chain) /\ Len(chain) <= Len(payload.target)
    BY <1>1 DEF IInv, PhaseOK, TypeOK
  <2> QED BY <1>1, <1>2, <1>3, <2>1
<1>5. ~diverged => chain = payload.target
  <2> SUFFICES ASSUME Begins(chain, payload.target) PROVE chain = payload.target
    BY <1>1 DEF IInv, PhaseOK
  <2> QED BY <1>2, <1>3, <1>4 DEF Begins
<1>6. TypeOK' /\ NodesOK'
  BY <1>0, <1>1, <1>3 DEF IInv, TypeOK, NodesOK
<1>7. PayloadOK'
  BY <1>1 DEF IInv, PayloadOK, Below
<1>8. ChainOK(chain)'
  <2>1. CASE sent' = payload.target /\ payload' = Null
    BY <1>1, <1>2, <1>4, <1>5, <2>1 DEF ChainOK, AtHeights
  <2>2. CASE sent' = sent /\ payload' = payload
    <3>1. Below' = Below /\ Below <= Len(chain) /\ Len(chain) <= Len(payload.target)
      <4>1. Below' = Below
        BY <2>2 DEF Below
      <4> QED BY <1>2, <1>3, <1>4, <4>1
    <3>2. chain = payload.target => Begins(chain, payload.target)
      BY <1>2 DEF Begins
    <3> QED BY <1>1, <1>2, <1>5, <2>2, <3>1, <3>2 DEF ChainOK, AtHeights
  <2> QED BY <1>1, <2>1, <2>2
<1>9. PhaseOK' /\ TipOK'
  BY <1>1, <1>8 DEF IInv, PhaseOK, TipOK
<1>10. RowsOK'
  <2>1. ~diverged => Lower(db, ToSet(chain)) /\ Upper(db, ToSet(chain))
    BY <1>1, <1>5 DEF IInv, RowsOK
  <2> QED BY <1>1, <2>1 DEF RowsOK
<1> QED BY <1>6, <1>7, <1>9, <1>10 DEF IInv

\* A step of the open transaction.
LEMMA OpenStepKeeps ==
  ASSUME IInv, phase # "none", phase' # "none", db' \in Databases, chain' \in Seq(Blocks), pos' \in Nat,
         phase' \in {"rollback", "apply"},
         imports' \in [Contracts -> (SUBSET Tokens) \cup {Null}], reads' \in [Tokens -> Supplies],
         UNCHANGED <<node, sent, payload, saved, importing, resent, diverged, faults>>
  PROVE  TypeOK' /\ NodesOK' /\ PayloadOK' /\ ChainOK(saved.chain)' /\ Below' = Below /\ Kept' = Kept
<1>1. TypeOK' /\ NodesOK'
  BY DEF IInv, TypeOK, NodesOK
<1>2. PayloadOK' /\ ChainOK(saved.chain)'
  BY DEF IInv, PayloadOK, PhaseOK, ChainOK, Below
<1>3. Below' = Below /\ Kept' = Kept
  BY DEF Below, Kept
<1> QED BY <1>1, <1>2, <1>3

\* The rows are kept when a block is rolled back.
LEMMA RollBackBlockRows ==
  ASSUME IInv, RollBackBlock, ~diverged
  PROVE  /\ Lower(db', Kept)
         /\ Upper(db', ToSet(payload.target) \cup Left')
<1> DEFINE b == payload.rollback[pos]
           x == Len(sent) + 1 - pos
           below == {y \in ToSet(chain) : Height[y] < Height[b]}
           d == RollBackTransactions(db, b)
           gone == Cache[b].contracts
           dropped == (db.dropped \cup Mints[b]) \cap MintedIn(below)
<1>1. /\ phase = "rollback" /\ payload # Null /\ pos \in 1..Len(payload.rollback)
      /\ ChainOK(chain) /\ db \in Databases /\ chain \in Seq(Blocks)
      /\ pos' = pos + 1 /\ payload' = payload
  BY DEF RollBackBlock, IInv, PhaseOK, TypeOK, ChainOK
<1>2. /\ payload.rollback \in Seq(Blocks) /\ sent \in Chains \cup {<<>>} /\ sent \in Seq(Blocks)
      /\ AtHeights(sent) /\ payload.target \in Seq(Blocks) /\ Below \in Nat
      /\ payload.target \in Chains \cup {<<>>}
  BY <1>1, PayloadFacts
<1>3. payload.rollback # <<>> /\ b \in Blocks
  BY <1>1, <1>2
<1>4. /\ Below <= Len(chain) /\ Len(chain) \in Nat /\ Below <= Len(sent)
      /\ \A i \in 1..Below : chain[i] = payload.target[i] /\ sent[i] = payload.target[i]
  BY <1>1, <1>3, KeptOnChain
<1>5. b = sent[x] /\ x \in DOMAIN sent /\ x > Below /\ Height[b] = Genesis + x /\ x \in Nat
  <2>1. /\ Len(payload.rollback) = Len(sent) - Below
        /\ payload.rollback[pos] = sent[Len(sent) + 1 - pos]
    BY <1>1, <1>3 DEF IInv, PayloadOK
  <2>2. x \in 1..Len(sent) /\ x > Below
    <3>1. Len(sent) \in Nat /\ pos \in 1..(Len(sent) - Below)
      BY <1>1, <1>2, <2>1
    <3> QED BY <1>2, <1>4, <3>1
  <2> QED BY <1>2, <2>1, <2>2 DEF AtHeights
<1>6. db' = [d EXCEPT !.dropped = (d.dropped \cup Mints[b]) \cap MintedIn(below)]
  BY DEF RollBackBlock
<1>7. /\ d \in Databases /\ d.dropped = db.dropped
      /\ d.contracts = db.contracts \ gone /\ d.imported = db.imported \ gone
      /\ d.tokens = {t \in db.tokens : ContractOf[t] \notin gone /\ t \notin Mints[b]}
      /\ d.tokens \cap db.early \subseteq d.early
  BY <1>1, <1>3, BlockRolledBack
<1> HIDE DEF d
<1>8. /\ db'.dropped = dropped /\ db'.contracts = db.contracts \ gone
      /\ db'.imported = db.imported \ gone
      /\ db'.tokens = {t \in db.tokens : ContractOf[t] \notin gone /\ t \notin Mints[b]}
      /\ db'.tokens \cap db.early \subseteq db'.early
  BY <1>6, <1>7 DEF Databases
<1>9. below \in SUBSET Blocks
  BY <1>1 DEF ToSet
<1>10. ASSUME NEW i \in 1..Below
       PROVE  /\ i \in DOMAIN sent /\ sent[i] \in below /\ payload.target[i] = sent[i]
              /\ \A k \in Cache[sent[i]].contracts : k \notin gone
  <2>1. i \in DOMAIN sent /\ i \in DOMAIN chain /\ sent[i] = chain[i] /\ payload.target[i] = sent[i]
    BY <1>1, <1>2, <1>4
  <2>2. Height[sent[i]] = Genesis + i /\ i < x
    BY <1>2, <1>5, <2>1 DEF AtHeights
  <2>3. sent[i] \in below
    BY <1>2, <1>5, <2>1, <2>2 DEF ToSet, Genesis
  <2>4. \A k \in Cache[sent[i]].contracts : k \notin gone
    <3> SUFFICES ASSUME NEW k \in Cache[sent[i]].contracts, k \in Cache[sent[x]].contracts PROVE FALSE
      BY <1>5
    <3> HIDE DEF x
    <3>1. i = x
      BY <1>2, <1>5, <2>1, DeployedOnce
    <3> QED BY <2>2, <3>1, <1>5
  <2> QED BY <2>1, <2>3, <2>4
<1> HIDE DEF x, below, b
<1>11. ASSUME NEW i \in 1..Below
       PROVE  /\ Cache[payload.target[i]].contracts \subseteq db'.contracts
              /\ TokenMints(payload.target[i]) \ db'.dropped \subseteq db'.tokens
  <2> DEFINE y == payload.target[i]
  <2>1. y = sent[i] /\ sent[i] \in below /\ i \in DOMAIN sent
    BY <1>10
  <2>2. Cache[y].contracts \subseteq db.contracts /\ TokenMints(y) \ db.dropped \subseteq db.tokens
    <3>1. Lower(db, Kept)
      BY <1>1, <1>3 DEF IInv, RowsOK
    <3>2. y \in Kept
      BY DEF Kept
    <3> HIDE DEF y
    <3> QED BY <3>1, <3>2 DEF Lower
  <2> HIDE DEF y
  <2>3. Cache[y].contracts \subseteq db'.contracts
    BY <1>8, <1>10, <2>1, <2>2
  <2>4. ASSUME NEW t \in TokenMints(y), t \notin db'.dropped PROVE t \in db'.tokens
    <3>1. PICK j \in 1..i : ContractOf[t] \in Cache[sent[j]].contracts
      BY <1>2, <2>1, <2>4, DeployedBefore
    <3>2. j \in 1..Below
      BY <1>2
    <3>3. sent[j] \in below /\ ContractOf[t] \notin gone
      BY <1>10, <3>1, <3>2
    <3>4. t \in Mints[sent[i]]
      BY <2>1, <2>4 DEF TokenMints
    <3>5. t \in MintedIn(below)
      BY <1>9, <2>1, <3>1, <3>3, <3>4, MintedInMany
    <3>6. t \notin db.dropped /\ t \notin Mints[b]
      BY <1>8, <2>4, <3>5
    <3>7. t \in db.tokens
      BY <2>2, <2>4, <3>6
    <3> QED BY <1>8, <3>3, <3>6, <3>7
  <2> QED BY <2>3, <2>4 DEF y
<1>12. Lower(db', Kept)
  BY <1>11 DEF Lower, Kept
<1>13. Upper(db', ToSet(payload.target) \cup Left')
  <2>1. Upper(db, ToSet(payload.target) \cup Left)
    BY <1>1 DEF IInv, RowsOK
  <2>2. \A y \in Left : y = b \/ y \in Left'
    <3> SUFFICES ASSUME NEW i \in pos..Len(payload.rollback)
                 PROVE  payload.rollback[i] = b \/ payload.rollback[i] \in Left'
      BY DEF Left
    <3>1. i = pos \/ i \in (pos + 1)..Len(payload.rollback)
      BY <1>1, <1>2
    <3>2. Left' = {payload.rollback[j] : j \in (pos + 1)..Len(payload.rollback)}
      BY <1>1 DEF Left
    <3> QED BY <3>1, <3>2 DEF b
  <2>3. ASSUME NEW k \in db'.contracts \ db'.imported
        PROVE  \E y \in ToSet(payload.target) \cup Left' : k \in Cache[y].contracts
    <3>1. k \in db.contracts \ db.imported /\ k \notin gone
      BY <1>8, <2>3
    <3>2. PICK y \in ToSet(payload.target) \cup Left : k \in Cache[y].contracts
      BY <2>1, <3>1 DEF Upper
    <3> QED BY <2>2, <3>1, <3>2
  <2>4. ASSUME NEW t \in db'.tokens \ db'.early
        PROVE  \E y \in ToSet(payload.target) \cup Left' : t \in TokenMints(y)
    <3>1. t \in db.tokens \ db.early /\ t \notin Mints[b]
      BY <1>8, <2>4
    <3>2. PICK y \in ToSet(payload.target) \cup Left : t \in TokenMints(y)
      BY <2>1, <3>1 DEF Upper
    <3>3. t \notin TokenMints(b)
      BY <3>1 DEF TokenMints
    <3> QED BY <2>2, <3>2, <3>3
  <2> QED BY <2>3, <2>4 DEF Upper
<1> QED BY <1>12, <1>13

LEMMA RollBackBlockKeeps == ASSUME IInv, RollBackBlock PROVE IInv'
<1> DEFINE b == payload.rollback[pos]
           below == {y \in ToSet(chain) : Height[y] < Height[b]}
           d == RollBackTransactions(db, b)
           dropped == (d.dropped \cup Mints[b]) \cap MintedIn(below)
<1>1. /\ phase = "rollback" /\ phase' = "rollback" /\ payload # Null /\ pos \in 1..Len(payload.rollback)
      /\ db \in Databases /\ chain \in Seq(Blocks) /\ pos' = pos + 1
      /\ UNCHANGED <<node, sent, payload, saved, importing, chain, resent, diverged, faults>>
  BY DEF RollBackBlock, NodeUnchanged, IInv, PhaseOK, TypeOK
<1>2. payload.rollback \in Seq(Blocks)
  BY <1>1, PayloadFacts
<1>3. payload.rollback # <<>> /\ b \in Blocks /\ pos' \in 1..(Len(payload.rollback) + 1)
  BY <1>1, <1>2
<1>4. db' = [d EXCEPT !.dropped = dropped]
  BY DEF RollBackBlock
<1>5. /\ d \in Databases /\ d.tip = db.tip /\ d.failed = db.failed
      /\ d.contracts = db.contracts \ Cache[b].contracts
  BY <1>1, <1>3, BlockRolledBack
<1>6. dropped \in SUBSET Tokens
  <2>1. below \in SUBSET Blocks
    BY <1>1 DEF ToSet
  <2> HIDE DEF below
  <2> QED BY <2>1, ContractsTyped DEF MintedIn
<1> HIDE DEF d, dropped, b
<1>7. /\ db' \in Databases /\ db'.tip = db.tip /\ db'.failed = db.failed
      /\ db'.contracts \subseteq db.contracts
  <2>1. /\ db' \in Databases /\ db'.tip = d.tip /\ db'.failed = d.failed
        /\ db'.contracts = d.contracts
    BY <1>4, <1>5, <1>6 DEF Databases
  <2> QED BY <1>5, <2>1
<1>8. imports' \in [Contracts -> (SUBSET Tokens) \cup {Null}]
  <2>1. imports \in [Contracts -> (SUBSET Tokens) \cup {Null}]
    BY DEF IInv, TypeOK
  <2>2. imports' = [k \in Contracts |-> IF k \in Cache[b].contracts THEN Null ELSE imports[k]]
    BY DEF RollBackBlock, b
  <2> QED BY <2>1, <2>2
<1>9. reads' \in [Tokens -> Supplies]
  <2>1. reads \in [Tokens -> Supplies]
    BY DEF IInv, TypeOK
  <2>2. reads' = [t \in Tokens |-> IF t \in db'.tokens THEN reads[t] ELSE Null]
    BY DEF RollBackBlock
  <2> QED BY <2>1, <2>2 DEF Supplies
<1>10. TypeOK' /\ NodesOK' /\ PayloadOK' /\ ChainOK(saved.chain)' /\ Below' = Below /\ Kept' = Kept
  <2>1. pos' \in Nat
    BY <1>1, <1>2
  <2> QED BY <1>1, <1>7, <1>8, <1>9, <2>1, OpenStepKeeps
<1>11. PhaseOK'
  <2>1. ChainOK(chain)'
    BY <1>1, <1>10 DEF IInv, PhaseOK
  <2> QED BY <1>1, <1>3, <1>10, <2>1 DEF IInv, PhaseOK
<1>12. TipOK'
  BY <1>1, <1>7 DEF IInv, TipOK
<1>13. RowsOK'
  <2>1. ~diverged => Lower(db', Kept) /\ Upper(db', ToSet(payload.target) \cup Left')
    BY RollBackBlockRows
  <2> QED BY <1>1, <1>3, <1>10, <2>1 DEF IInv, RowsOK
<1> QED BY <1>10, <1>11, <1>12, <1>13 DEF IInv

\* The earliest block that a payload rolls back is the one above those it keeps.
LEMMA EarliestHeight ==
  ASSUME IInv, payload # Null, payload.rollback # <<>>
  PROVE  Min({Height[b] : b \in ToSet(payload.rollback)}) = Genesis + Below + 1
<1> DEFINE n == Len(sent)
           heights == {Height[b] : b \in ToSet(payload.rollback)}
           h == Genesis + Below + 1
<1>1. /\ payload.rollback \in Seq(Blocks) /\ sent \in Seq(Blocks) /\ AtHeights(sent) /\ Below \in Nat
      /\ n \in Nat
  BY PayloadFacts
<1>2. /\ Below <= n /\ Len(payload.rollback) = n - Below
      /\ \A i \in 1..(n - Below) : payload.rollback[i] = sent[n + 1 - i]
  <2>1. /\ Below <= Len(sent) /\ Len(payload.rollback) = Len(sent) - Below
        /\ \A i \in DOMAIN payload.rollback : payload.rollback[i] = sent[Len(sent) + 1 - i]
    BY DEF IInv, PayloadOK
  <2>2. DOMAIN payload.rollback = 1..Len(payload.rollback)
    BY <1>1
  <2> QED BY <2>1, <2>2
<1>3. n - Below >= 1
  BY <1>1, <1>2
<1>4. \A i \in 1..(n - Below) : Height[payload.rollback[i]] = Genesis + (n + 1 - i)
  <2> SUFFICES ASSUME NEW i \in 1..(n - Below)
               PROVE  Height[payload.rollback[i]] = Genesis + (n + 1 - i)
    OBVIOUS
  <2>1. n + 1 - i \in DOMAIN sent
    BY <1>1, <1>2
  <2> QED BY <1>1, <1>2, <2>1 DEF AtHeights
<1>5. heights = {Height[payload.rollback[i]] : i \in 1..(n - Below)}
  <2>1. DOMAIN payload.rollback = 1..(n - Below)
    BY <1>1, <1>2
  <2> QED BY <2>1 DEF ToSet
<1> HIDE DEF n, heights
<1>6. h \in heights
  <2>1. n - Below \in 1..(n - Below) /\ n + 1 - (n - Below) = Below + 1
    BY <1>1, <1>3
  <2>2. Height[payload.rollback[n - Below]] = h
    BY <1>1, <1>4, <2>1 DEF Genesis
  <2> QED BY <1>5, <2>1, <2>2
<1>7. \A y \in heights : h <= y /\ y \in Int
  <2> SUFFICES ASSUME NEW i \in 1..(n - Below)
               PROVE  h <= Height[payload.rollback[i]] /\ Height[payload.rollback[i]] \in Int
    BY <1>5
  <2> QED BY <1>1, <1>4 DEF Genesis
<1>8. \E m \in heights : \A y \in heights : m <= y
  BY <1>6, <1>7
<1>9. Min(heights) \in heights /\ \A y \in heights : Min(heights) <= y
  BY <1>8 DEF Min
<1> HIDE DEF h
<1>10. Min(heights) = h
  BY <1>6, <1>7, <1>9
<1> QED BY <1>10 DEF heights, h

LEMMA ResetTipKeeps == ASSUME IInv, ResetTip PROVE IInv'
<1>1. /\ phase = "rollback" /\ phase' = "apply" /\ payload # Null /\ pos > Len(payload.rollback)
      /\ pos' = 1 /\ db \in Databases /\ chain \in Seq(Blocks) /\ ChainOK(chain) /\ ~db.failed
      /\ pos \in Nat
      /\ UNCHANGED <<node, sent, payload, saved, importing, imports, reads, resent, diverged, faults>>
  BY DEF ResetTip, NodeUnchanged, IInv, PhaseOK, TypeOK, TipOK
<1>2. /\ payload.rollback \in Seq(Blocks) /\ Below \in Nat /\ Below <= Len(payload.target)
      /\ payload.target \in Seq(Blocks) /\ Len(payload.apply) = Len(payload.target) - Below
      /\ AtHeights(chain) /\ Len(payload.target) \in Nat /\ Len(payload.apply) \in Nat
  BY <1>1, PayloadFacts DEF ChainOK
<1>3. Left = {}
  BY <1>1, <1>2 DEF Left
<1>4. CASE payload.rollback = <<>>
  <2>1. db' = db /\ chain' = chain
    BY <1>4 DEF ResetTip
  <2>2. TypeOK' /\ NodesOK' /\ PayloadOK' /\ ChainOK(saved.chain)' /\ Below' = Below
    BY <1>1, <2>1, OpenStepKeeps DEF IInv, TypeOK
  <2>3. /\ Below <= Len(chain) /\ Len(chain) <= Len(payload.target)
        /\ ~diverged => Begins(chain, payload.target)
    BY <1>1, <1>4 DEF ChainOK
  <2>4. PhaseOK'
    BY <1>1, <1>2, <2>1, <2>2, <2>3 DEF IInv, PhaseOK, AtHeights
  <2>5. TipOK'
    BY <1>1, <2>1 DEF IInv, TipOK
  <2>6. RowsOK'
    <3>1. ASSUME ~diverged PROVE Lower(db, ToSet(chain)) /\ Upper(db, ToSet(payload.target))
      BY <1>1, <1>3, <1>4, <3>1 DEF IInv, RowsOK
    <3> QED BY <1>1, <2>1, <3>1 DEF IInv, RowsOK
  <2> QED BY <2>2, <2>4, <2>5, <2>6 DEF IInv
<1>5. CASE payload.rollback # <<>>
  <2>1. Below <= Len(chain)
    BY <1>1, <1>5 DEF ChainOK
  <2> DEFINE tip == Genesis + Below
  <2>2. Min({Height[b] : b \in ToSet(payload.rollback)}) = tip + 1
    BY <1>1, <1>2, <1>5, EarliestHeight DEF Genesis
  <2>3. tip \in Nat /\ tip >= Genesis /\ (tip + 1) - 1 = tip /\ (tip + 1) - 1 - Genesis = Below
    BY <1>2 DEF Genesis
  <2> HIDE DEF tip
  <2>4. db' = [db EXCEPT !.tip = tip] /\ chain' = SubSeq(chain, 1, Below)
    BY <1>5, <2>2, <2>3 DEF ResetTip, TipBelow
  <2>5. /\ chain' \in Seq(Blocks) /\ Len(chain') = Below
        /\ \A i \in 1..Below : chain'[i] = chain[i]
    BY <1>1, <1>2, <2>1, <2>4
  <2>6. AtHeights(chain')
    BY <1>1, <1>2, <2>1, <2>5 DEF AtHeights
  <2>7. db' \in Databases /\ db'.tip = tip /\ db'.failed = db.failed
    BY <1>1, <2>3, <2>4 DEF Databases
  <2>8. Index(db') = <<tip, db.contracts, db.tokens, db.imported, db.early, db.dropped>>
    BY <1>1, <2>4 DEF Databases, Index
  <2>9. TypeOK' /\ NodesOK' /\ PayloadOK' /\ ChainOK(saved.chain)' /\ Below' = Below
    BY <1>1, <2>5, <2>7, OpenStepKeeps DEF IInv, TypeOK
  <2>10. ASSUME ~diverged PROVE Begins(chain', payload.target) /\ ToSet(chain') = Kept
    <3>1. \A i \in 1..Below : chain[i] = payload.target[i]
      BY <1>1, <1>5, <2>10, KeptOnChain
    <3>2. \A i \in 1..Below : chain'[i] = payload.target[i]
      BY <2>5, <3>1
    <3>3. DOMAIN chain' = 1..Below
      BY <1>2, <2>5
    <3>4. Begins(chain', payload.target)
      BY <1>2, <2>5, <3>2, <3>3 DEF Begins
    <3>5. ToSet(chain') = Kept
      BY <3>2, <3>3 DEF ToSet, Kept
    <3> QED BY <3>4, <3>5
  <2>11. PhaseOK'
    BY <1>1, <1>2, <2>5, <2>6, <2>9, <2>10 DEF IInv, PhaseOK
  <2>12. TipOK'
    BY <1>1, <2>5, <2>7, <2>8 DEF IInv, TipOK, Index, tip
  <2>13. RowsOK'
    <3>1. ASSUME ~diverged PROVE Lower(db', ToSet(chain')) /\ Upper(db', ToSet(payload.target))
      <4>1. Lower(db, Kept) /\ Upper(db, ToSet(payload.target))
        BY <1>1, <1>3, <1>5, <3>1 DEF IInv, RowsOK
      <4> QED BY <2>8, <2>10, <3>1, <4>1 DEF Lower, Upper, Index
    <3> QED BY <1>1, <3>1 DEF IInv, RowsOK
  <2> QED BY <2>9, <2>11, <2>12, <2>13 DEF IInv
<1> QED BY <1>4, <1>5

\* The rows are those of the longer chain when a block is applied to it.
LEMMA ApplyBlockRows ==
  ASSUME NEW d \in Databases, NEW c \in Seq(Blocks), NEW target \in Chains \cup {<<>>},
         NEW x \in DOMAIN target, x = Len(c) + 1, Begins(c, target),
         Lower(d, ToSet(c)), Upper(d, ToSet(target)), d.contracts \subseteq TokenContracts,
         NEW r, r.dropped = d.dropped, r.early = d.early,
         r.contracts = d.contracts \cup Cache[target[x]].contracts,
         r.imported = d.imported \ Cache[target[x]].contracts,
         r.tokens = d.tokens \cup {t \in Mints[target[x]] : ContractOf[t] \in r.contracts}
  PROVE  Lower(r, ToSet(Append(c, target[x]))) /\ Upper(r, ToSet(target))
<1> DEFINE b == target[x]
           longer == Append(c, b)
<1>1. target \in Seq(Blocks)
  BY ChainTyped
<1>2. b \in Blocks /\ b \in ToSet(target)
  BY <1>1 DEF ToSet
<1>3. /\ Len(c) \in Nat /\ DOMAIN longer = 1..x
      /\ \A i \in 1..x : longer[i] = target[i] /\ (i # x => i \in DOMAIN c /\ c[i] = target[i])
  BY <1>1 DEF Begins
<1>4. Cache[b].contracts \subseteq TokenContracts
  BY <1>2, ContractsTyped
<1> HIDE DEF longer
<1>5. ASSUME NEW i \in 1..x, i # x
      PROVE  /\ Cache[target[i]].contracts \subseteq d.contracts
             /\ TokenMints(target[i]) \ d.dropped \subseteq d.tokens
  BY <1>3, <1>5 DEF Lower, ToSet
<1>6. ASSUME NEW t \in TokenMints(b) PROVE ContractOf[t] \in r.contracts
  <2>1. PICK j \in 1..x : ContractOf[t] \in Cache[target[j]].contracts
    BY <1>6, DeployedBefore
  <2>2. CASE j = x
    BY <2>1, <2>2
  <2>3. CASE j # x
    BY <1>5, <2>1, <2>3
  <2> QED BY <2>2, <2>3
<1>7. ASSUME NEW i \in 1..x
      PROVE  /\ Cache[longer[i]].contracts \subseteq r.contracts
             /\ TokenMints(longer[i]) \ r.dropped \subseteq r.tokens
  <2>1. longer[i] = target[i]
    BY <1>3
  <2>2. CASE i = x
    <3>1. TokenMints(b) \subseteq r.tokens
      BY <1>6 DEF TokenMints
    <3> QED BY <2>1, <2>2, <3>1
  <2>3. CASE i # x
    BY <1>5, <2>1, <2>3
  <2> QED BY <2>2, <2>3
<1>8. Lower(r, ToSet(longer))
  BY <1>3, <1>7 DEF Lower, ToSet
<1> HIDE DEF b
<1>9. Upper(r, ToSet(target))
  <2>1. ASSUME NEW k \in r.contracts \ r.imported
        PROVE  \E y \in ToSet(target) : k \in Cache[y].contracts
    <3>1. k \in d.contracts \ d.imported \/ k \in Cache[b].contracts
      BY <2>1 DEF b
    <3> QED BY <1>2, <3>1 DEF Upper
  <2>2. ASSUME NEW t \in r.tokens \ r.early PROVE \E y \in ToSet(target) : t \in TokenMints(y)
    <3>1. t \in d.tokens \ d.early \/ t \in TokenMints(b)
      BY <1>4, <2>2 DEF TokenMints, b
    <3> QED BY <1>2, <3>1 DEF Upper
  <2> QED BY <2>1, <2>2 DEF Upper
<1> QED BY <1>8, <1>9 DEF longer, b

LEMMA ApplyBlockKeeps == ASSUME IInv, ApplyBlock PROVE IInv'
<1> DEFINE b == payload.apply[pos]
           x == Below + pos
           d == ApplyTransactions(db, b)
           e == EnqueueDynamicTokens(d)
<1>1. /\ phase = "apply" /\ phase' = "apply" /\ payload # Null /\ ~db.failed
      /\ pos \in 1..Len(payload.apply) /\ pos' = pos + 1
      /\ db \in Databases /\ chain \in Seq(Blocks) /\ AtHeights(chain)
      /\ Below + pos - 1 <= Len(chain) /\ Len(chain) <= Len(payload.target)
      /\ ~diverged => Begins(chain, payload.target)
      /\ UNCHANGED <<node, sent, payload, saved, importing, imports, reads, resent, diverged, faults>>
  BY DEF ApplyBlock, NodeUnchanged, IInv, PhaseOK, TypeOK
<1>2. /\ payload.apply \in Seq(Blocks) /\ Below \in Nat /\ Below <= Len(payload.target)
      /\ payload.target \in Seq(Blocks) /\ payload.target \in Chains \cup {<<>>}
      /\ AtHeights(payload.target)
      /\ Len(payload.apply) = Len(payload.target) - Below
      /\ Len(payload.target) \in Nat /\ Len(chain) \in Nat /\ pos \in Nat
  BY <1>1, PayloadFacts
<1>3. b \in Blocks /\ x \in DOMAIN payload.target /\ b = payload.target[x] /\ Height[b] = Genesis + x
  <2>1. x \in DOMAIN payload.target
    BY <1>1, <1>2
  <2>2. b = payload.target[x]
    BY <1>1, <1>2 DEF IInv, PayloadOK
  <2> QED BY <1>2, <2>1, <2>2 DEF AtHeights
<1>4. pos' \in 1..(Len(payload.apply) + 1) /\ pos' \in Nat
  BY <1>1, <1>2
<1>5. db.tip = Genesis + Len(chain)
  BY DEF IInv, TipOK
<1>6. CASE Height[b] <= db.tip
  <2>1. db' = db /\ chain' = chain
    BY <1>6 DEF ApplyBlock
  <2>2. TypeOK' /\ NodesOK' /\ PayloadOK' /\ ChainOK(saved.chain)' /\ Below' = Below
    BY <1>1, <1>4, <2>1, OpenStepKeeps DEF IInv, TypeOK
  <2>3. Below + pos' - 1 <= Len(chain)
    BY <1>1, <1>2, <1>3, <1>5, <1>6 DEF Genesis
  <2>4. PhaseOK'
    BY <1>1, <1>4, <2>1, <2>2, <2>3 DEF IInv, PhaseOK, AtHeights
  <2>5. TipOK' /\ RowsOK'
    BY <1>1, <2>1 DEF IInv, TipOK, RowsOK
  <2> QED BY <2>2, <2>4, <2>5 DEF IInv
<1>7. CASE ~(Height[b] <= db.tip)
  <2>1. x = Len(chain) + 1 /\ Height[b] = Genesis + x
    <3>1. x <= Len(chain) + 1 /\ x \in Nat /\ Len(chain) \in Nat
      BY <1>1, <1>2
    <3>2. Height[b] = Genesis + x
      BY <1>3
    <3>3. ~(Genesis + x <= Genesis + Len(chain))
      BY <1>5, <1>7, <3>2
    <3> HIDE DEF x
    <3>4. x = Len(chain) + 1
      BY <3>1, <3>3 DEF Genesis
    <3> QED BY <3>2, <3>4
  <2>2. db' = [e EXCEPT !.tip = Height[b]] /\ chain' = Append(chain, b)
    BY <1>7 DEF ApplyBlock
  <2>3. /\ d \in Databases /\ d.early = db.early /\ d.dropped = db.dropped
        /\ d.contracts = db.contracts \cup Cache[b].contracts
        /\ d.imported = db.imported \ Cache[b].contracts
        /\ ~d.failed => d.tokens = db.tokens \cup {t \in Mints[b] : ContractOf[t] \in d.contracts}
    <3>1. db \in Databases /\ b \in Blocks
      BY <1>1, <1>3
    <3> HIDE DEF b
    <3> QED BY <3>1, BlockApplied
  <2> HIDE DEF b, x, d
  <2>4. e \in Databases /\ Index(e) = Index(d) /\ (d.failed => e.failed)
    BY <2>3, DynamicTokensEnqueued
  <2> HIDE DEF e
  <2>5. Height[b] \in Nat /\ Height[b] >= Genesis
    BY <1>2, <1>3, <2>1 DEF Genesis
  <2>6. /\ db' \in Databases /\ db'.tip = Height[b] /\ db'.failed = e.failed
        /\ db'.contracts = e.contracts /\ db'.imported = e.imported /\ db'.tokens = e.tokens
        /\ db'.early = e.early /\ db'.dropped = e.dropped
    BY <2>2, <2>4, <2>5 DEF Databases
  <2>7. /\ db'.early = db.early /\ db'.dropped = db.dropped
        /\ db'.contracts = db.contracts \cup Cache[b].contracts
        /\ db'.imported = db.imported \ Cache[b].contracts
        /\ ~db'.failed => db'.tokens = db.tokens \cup {t \in Mints[b] : ContractOf[t] \in db'.contracts}
    BY <2>3, <2>4, <2>6 DEF Index
  <2>8. /\ chain' \in Seq(Blocks) /\ Len(chain') = x /\ chain'[x] = b
        /\ \A i \in 1..x : i # x => i \in DOMAIN chain /\ chain'[i] = chain[i]
    BY <1>1, <1>2, <1>3, <2>1, <2>2
  <2>9. AtHeights(chain')
    BY <1>1, <1>3, <2>8 DEF AtHeights
  <2>10. TypeOK' /\ NodesOK' /\ PayloadOK' /\ ChainOK(saved.chain)' /\ Below' = Below
    BY <1>1, <1>4, <2>6, <2>8, OpenStepKeeps DEF IInv, TypeOK
  <2>11. ASSUME ~diverged PROVE Begins(chain', payload.target)
    <3>1. \A i \in DOMAIN chain : chain[i] = payload.target[i]
      BY <1>1, <2>11 DEF Begins
    <3>2. DOMAIN chain' = 1..x /\ x <= Len(payload.target)
      BY <1>2, <1>3, <2>8
    <3>3. \A i \in 1..x : chain'[i] = payload.target[i]
      BY <1>3, <2>8, <3>1
    <3> QED BY <2>8, <3>2, <3>3 DEF Begins
  <2>12. Below + pos' - 1 <= Len(chain') /\ Len(chain') <= Len(payload.target)
    BY <1>1, <1>2, <1>3, <2>8 DEF x
  <2>13. PhaseOK'
    BY <1>1, <1>4, <2>8, <2>9, <2>10, <2>11, <2>12 DEF IInv, PhaseOK
  <2>14. TipOK'
    <3>1. db.contracts \subseteq TokenContracts /\ Cache[b].contracts \subseteq TokenContracts
      BY <1>3, ContractsTyped DEF IInv, TipOK
    <3> QED BY <1>1, <2>1, <2>6, <2>7, <2>8, <3>1 DEF IInv, TipOK
  <2>15. RowsOK'
    <3>1. ASSUME ~diverged, ~db'.failed
          PROVE  Lower(db', ToSet(chain')) /\ Upper(db', ToSet(payload.target))
      <4> DEFINE target == payload.target
                 r == db'
      <4>1. /\ Lower(db, ToSet(chain)) /\ Upper(db, ToSet(target)) /\ Begins(chain, target)
            /\ db.contracts \subseteq TokenContracts
        BY <1>1, <3>1 DEF IInv, RowsOK, TipOK
      <4>2. /\ target \in Chains \cup {<<>>} /\ x \in DOMAIN target /\ b = target[x]
            /\ x = Len(chain) + 1 /\ chain' = Append(chain, target[x])
        BY <1>2, <1>3, <2>1, <2>2
      <4>3. /\ r.dropped = db.dropped /\ r.early = db.early
            /\ r.contracts = db.contracts \cup Cache[target[x]].contracts
            /\ r.imported = db.imported \ Cache[target[x]].contracts
            /\ r.tokens = db.tokens \cup {t \in Mints[target[x]] : ContractOf[t] \in r.contracts}
        BY <2>7, <3>1, <4>2
      <4> HIDE DEF r, target
      <4>4. Lower(r, ToSet(Append(chain, target[x]))) /\ Upper(r, ToSet(target))
        BY <1>1, <4>1, <4>2, <4>3, ApplyBlockRows
      <4> QED BY <4>2, <4>4 DEF r, target
    <3> QED BY <1>1, <3>1 DEF IInv, RowsOK
  <2> QED BY <2>10, <2>13, <2>14, <2>15 DEF IInv
<1> QED BY <1>6, <1>7

LEMMA NextKeeps == ASSUME IInv, [Next]_vars PROVE IInv'
<1>1. CASE NodeMoves \/ Send \/ Register
  BY <1>1, NodeMovesKeeps, SendKeeps, RegisterKeeps
<1>2. CASE ProcessPayload \/ Abort
  BY <1>2, BeginTransactionKeeps, RollBackBlockKeeps, ResetTipKeeps, ApplyBlockKeeps, CommitKeeps,
     AbortKeeps DEF ProcessPayload
<1>3. CASE \E k \in Contracts : ContractJobReads(k) \/ ContractJobInserts(k) \/ ImportContractReads(k)
  BY <1>3, ContractJobReadsKeeps, ContractJobInsertsKeeps, ImportContractReadsKeeps
<1>4. CASE ImportContractInserts
  BY <1>4, ImportContractInsertsKeeps
<1>5. CASE \E t \in Tokens : TokenJobReads(t) \/ FtJobWrites(t) \/ NftJobWrites(t) \/ IntervalPasses(t)
  BY <1>5, TokenJobReadsKeeps, FtJobWritesKeeps, NftJobWritesKeeps, IntervalPassesKeeps
<1>6. CASE UNCHANGED vars
  <2>1. UNCHANGED <<node, sent, payload, phase, pos, saved, db, imports, importing, reads, chain,
                    resent, diverged, faults>>
    BY <1>6 DEF vars
  <2>2. TypeOK' /\ NodesOK'
    BY <2>1 DEF IInv, TypeOK, NodesOK
  <2>3. PayloadOK' /\ PhaseOK'
    BY <2>1 DEF IInv, PayloadOK, PhaseOK, ChainOK, Below
  <2>4. TipOK' /\ RowsOK'
    BY <2>1 DEF IInv, TipOK, RowsOK, Kept, Left, Below
  <2> QED BY <2>2, <2>3, <2>4 DEF IInv
<1> QED BY <1>1, <1>2, <1>3, <1>4, <1>5, <1>6 DEF Next

THEOREM Invariant == Spec => []IInv
<1>1. Init => IInv
  BY InitKeeps
<1>2. IInv /\ [Next]_vars => IInv'
  BY NextKeeps
<1> QED BY <1>1, <1>2, PTL DEF Spec

-----------------------------------------------------------------------------
(* What follows.                                                            *)

\* Every value is one that the columns and the payloads can hold, whatever is rolled
\* back, aborted or sent again: among others, the tip never goes below the block under
\* the first one that is ingested (chainhook-pg-store.ts:48-56).
THEOREM TypeCorrect == Spec => []TypeOK
<1>1. IInv => TypeOK
  BY DEF IInv
<1> QED BY <1>1, Invariant, PTL

\* A chain between two payloads begins as one that the node may be on.
LEMMA CommittedChain ==
  ASSUME IInv, Committed, ~diverged
  PROVE  /\ chain \in Seq(Blocks) /\ \E d \in Chains \cup {<<>>} : Begins(chain, d)
         /\ Lower(db, ToSet(chain)) /\ Upper(db, ToSet(chain))
<1>1. ChainOK(chain) /\ sent \in Chains \cup {<<>>}
  BY DEF Committed, IInv, PhaseOK, NodesOK
<1>2. chain \in Seq(Blocks)
  BY <1>1 DEF ChainOK
<1>3. Begins(chain, chain)
  BY <1>2 DEF Begins
<1>4. \E d \in Chains \cup {<<>>} : Begins(chain, d)
  <2>1. CASE payload = Null
    BY <1>1, <1>3, <2>1 DEF ChainOK
  <2>2. CASE payload # Null
    <3>1. payload.target \in Chains \cup {<<>>}
      BY <2>2, PayloadFacts
    <3> QED BY <1>1, <1>3, <2>2, <3>1 DEF ChainOK
  <2> QED BY <2>1, <2>2
<1>5. Lower(db, ToSet(chain)) /\ Upper(db, ToSet(chain))
  BY DEF Committed, IInv, RowsOK
<1> QED BY <1>2, <1>4, <1>5

\* Between two payloads the contracts are those of the ingested chain and the admin's,
\* and the tip is its last block, for any chains, forks, faults and jobs in between
\* (chainhook-pg-store.ts:21-56, 280-291).
THEOREM ContractsAreTheChains == Spec => []ContractsMatchChain
<1>1. IInv => ContractsMatchChain
  <2> SUFFICES ASSUME IInv, Committed, ~diverged
               PROVE  /\ DeployedOn(chain) \subseteq db.contracts
                      /\ db.contracts \ db.imported \subseteq DeployedOn(chain)
                      /\ db.tip = Genesis + Len(chain)
    BY DEF ContractsMatchChain
  <2>1. chain \in Seq(Blocks) /\ Lower(db, ToSet(chain)) /\ Upper(db, ToSet(chain))
    BY CommittedChain
  <2>2. ToSet(chain) \in SUBSET Blocks
    BY <2>1 DEF ToSet
  <2>3. \A k : k \in DeployedOn(chain) <=> \E b \in ToSet(chain) : k \in Cache[b].contracts
    BY <2>2, DeployedInMany DEF DeployedOn
  <2>4. db.tip = Genesis + Len(chain)
    BY DEF IInv, TipOK
  <2> QED BY <2>1, <2>3, <2>4 DEF Lower, Upper
<1> QED BY <1>1, Invariant, PTL

\* And the tokens are those minted on it, but for the two exceptions that the property
\* names (chainhook-pg-store.ts:340-425).
THEOREM TokensAreTheChains == Spec => []TokensMatchChain
<1>1. IInv => TokensMatchChain
  <2> SUFFICES ASSUME IInv, Committed, ~diverged
               PROVE  /\ MintedOn(chain) \ db.dropped \subseteq db.tokens
                      /\ db.tokens \ db.early \subseteq MintedOn(chain)
    BY DEF TokensMatchChain
  <2>1. chain \in Seq(Blocks) /\ Lower(db, ToSet(chain)) /\ Upper(db, ToSet(chain))
    BY CommittedChain
  <2>2. PICK d \in Chains \cup {<<>>} : Begins(chain, d)
    BY CommittedChain
  <2>3. \A t : t \in MintedOn(chain) <=> \E b \in ToSet(chain) : t \in TokenMints(b)
    BY <2>1, <2>2, MintedOnChain
  <2> QED BY <2>1, <2>3 DEF Lower, Upper
<1> QED BY <1>1, Invariant, PTL
-----------------------------------------------------------------------------
(* The supplies.                                                            *)

\* Those that a database of this chain may hold: the chain's, or none while the job is
\* pending.
Exact(d, c) ==
  \A t \in d.tokens \ d.raced : FtToken(t) =>
    /\ d.supply[t] # Null => d.supply[t] = SupplyOn(c, ContractOf[t])
    /\ t \notin d.pending => d.supply[t] # Null

\* What a contract's job has read is of a contract that is there.
ReadsOwned(d, jobs) ==
  \A k \in Contracts : jobs[k] # Null => k \in d.contracts /\ \A t \in jobs[k] : ContractOf[t] = k

OwnedOK ==
  /\ Owns(db) /\ ReadsOwned(db, imports)
  /\ phase # "none" => Owns(saved.db) /\ ReadsOwned(saved.db, saved.imports)

\* In the first phase the database stands for the chain without the blocks that are
\* rolled back already.
ExactOK ==
  ~diverged /\ ~resent =>
    /\ payload # Null /\ payload.rollback # <<>> =>
         (IF phase = "none" THEN chain ELSE saved.chain) = sent
    /\ phase # "none" => Exact(saved.db, saved.chain)
    /\ phase = "rollback" => Exact(db, SubSeq(chain, 1, Len(chain) + 1 - pos))
    /\ phase # "rollback" => Exact(db, chain)

SupplyInv == OwnedOK /\ ExactOK

LEMMA ExactMilder ==
  ASSUME NEW d, NEW r, NEW c, Exact(d, c), Milder(d, r) PROVE Exact(r, c)
<1> SUFFICES ASSUME NEW t \in r.tokens \ r.raced, FtToken(t)
             PROVE  /\ r.supply[t] # Null => r.supply[t] = SupplyOn(c, ContractOf[t])
                    /\ t \notin r.pending => r.supply[t] # Null
  BY DEF Exact
<1>1. CASE t \in r.pending /\ r.supply[t] = Null
  BY <1>1
<1>2. CASE t \in d.tokens /\ r.supply[t] = d.supply[t] /\ (t \in d.pending => t \in r.pending)
  <2>1. t \in d.tokens \ d.raced
    BY <1>2 DEF Milder
  <2>2. /\ d.supply[t] # Null => d.supply[t] = SupplyOn(c, ContractOf[t])
        /\ t \notin d.pending => d.supply[t] # Null
    BY <2>1 DEF Exact
  <2> QED BY <1>2, <2>2
<1> QED BY <1>1, <1>2 DEF Milder

\* A block's delta, once.
LEMMA ExactChanged ==
  ASSUME NEW d \in Databases, Owns(d), NEW b \in Blocks, NEW sign \in {1, -1},
         NEW c \in Seq(Blocks), NEW e \in Seq(Blocks), Exact(d, c),
         \A k \in Contracts : SupplyOn(e, k) = SupplyOn(c, k) + sign * SupplyDelta[b][k]
  PROVE  Exact(ChangeSupply(d, b, sign), e) /\ Owns(ChangeSupply(d, b, sign))
<1> DEFINE r == ChangeSupply(d, b, sign)
<1>1. /\ r.tokens = d.tokens /\ r.pending = d.pending /\ r.raced = d.raced
      /\ r.importDue = d.importDue /\ r.contracts = d.contracts
      /\ \A t \in d.tokens : ContractOf[t] \in d.contracts /\ FtToken(t) =>
           r.supply[t] = IF d.supply[t] = Null THEN Null
                         ELSE d.supply[t] + sign * SupplyDelta[b][ContractOf[t]]
  BY SupplyAdjusted
<1> HIDE DEF r
<1>2. Owns(r)
  BY <1>1 DEF Owns
<1>3. ASSUME NEW t \in r.tokens \ r.raced, FtToken(t)
      PROVE  /\ r.supply[t] # Null => r.supply[t] = SupplyOn(e, ContractOf[t])
             /\ t \notin r.pending => r.supply[t] # Null
  <2> DEFINE k == ContractOf[t]
  <2>1. t \in d.tokens \ d.raced /\ k \in d.contracts
    BY <1>1 DEF Owns
  <2>2. k \in Contracts /\ t \in Tokens
    BY <2>1 DEF Databases
  <2>3. /\ d.supply[t] # Null => d.supply[t] = SupplyOn(c, k)
        /\ t \notin d.pending => d.supply[t] # Null
    BY <1>3, <2>1 DEF Exact
  <2>4. r.supply[t] = IF d.supply[t] = Null THEN Null
                      ELSE d.supply[t] + sign * SupplyDelta[b][k]
    BY <1>1, <1>3, <2>1
  <2>5. SupplyOn(e, k) = SupplyOn(c, k) + sign * SupplyDelta[b][k] /\ SupplyOn(e, k) \in Int
    BY <2>2, SupplyTyped
  <2>6. \A i \in Int : i # Null
    BY BlockCacheAssumption
  <2> HIDE DEF k
  <2>7. CASE d.supply[t] = Null
    BY <1>1, <2>3, <2>4, <2>7
  <2>8. CASE d.supply[t] # Null
    <3>1. r.supply[t] = SupplyOn(e, k)
      BY <2>3, <2>4, <2>5, <2>8
    <3> QED BY <2>5, <2>6, <3>1 DEF k
  <2> QED BY <2>7, <2>8
<1>4. Exact(r, e)
  BY <1>3 DEF Exact
<1> QED BY <1>2, <1>4 DEF r

LEMMA ExactRolledBack ==
  ASSUME NEW d \in Databases, Owns(d), NEW c \in Seq(Blocks), NEW e \in Seq(Blocks), Exact(d, c),
         Len(c) = Len(e) + 1, \A i \in 1..Len(e) : c[i] = e[i], NEW b \in Blocks, b = c[Len(c)]
  PROVE  Exact(RollBackTransactions(d, b), e) /\ Owns(RollBackTransactions(d, b))
<1> DEFINE m == RollBackMints(RollBackNotifications(RollBackDeployments(d, b), b), b)
<1>1. m \in Databases /\ Milder(d, m)
  BY RolledBackMilder
<1>2. RollBackTransactions(d, b) = ChangeSupply(m, b, -1)
  BY DEF RollBackTransactions
<1> HIDE DEF m
<1>3. Owns(m) /\ Exact(m, c)
  BY <1>1, ExactMilder DEF Milder
<1>4. ASSUME NEW k \in Contracts PROVE SupplyOn(e, k) = SupplyOn(c, k) + (-1) * SupplyDelta[b][k]
  <2>1. SupplyOn(c, k) = SupplyOn(e, k) + SupplyDelta[b][k]
    BY SupplyStep
  <2>2. SupplyOn(e, k) \in Int /\ SupplyDelta[b][k] \in Int
    BY SupplyTyped, DeltaTyped
  <2> QED BY <2>1, <2>2
<1>5. -1 \in {1, -1}
  OBVIOUS
<1>6. Exact(ChangeSupply(m, b, -1), e) /\ Owns(ChangeSupply(m, b, -1))
  BY <1>1, <1>3, <1>4, <1>5, ExactChanged
<1> QED BY <1>2, <1>6

LEMMA ExactApplied ==
  ASSUME NEW d \in Databases, Owns(d), NEW c \in Seq(Blocks), NEW e \in Seq(Blocks), Exact(d, c),
         Len(e) = Len(c) + 1, \A i \in 1..Len(c) : e[i] = c[i], NEW b \in Blocks, b = e[Len(e)]
  PROVE  Exact(ApplyTransactions(d, b), e) /\ Owns(ApplyTransactions(d, b))
<1> DEFINE m == ApplyMints(ApplyNotifications(ApplyDeployments(d, b), b), b)
<1>1. m \in Databases /\ Milder(d, m)
  BY AppliedMilder
<1>2. ApplyTransactions(d, b) = ChangeSupply(m, b, 1)
  BY DEF ApplyTransactions
<1> HIDE DEF m
<1>3. Owns(m) /\ Exact(m, c)
  BY <1>1, ExactMilder DEF Milder
<1>4. ASSUME NEW k \in Contracts PROVE SupplyOn(e, k) = SupplyOn(c, k) + 1 * SupplyDelta[b][k]
  <2>1. SupplyOn(e, k) = SupplyOn(c, k) + SupplyDelta[b][k]
    BY SupplyStep
  <2>2. SupplyOn(c, k) \in Int /\ SupplyDelta[b][k] \in Int
    BY SupplyTyped, DeltaTyped
  <2> QED BY <2>1, <2>2
<1>5. 1 \in {1, -1}
  OBVIOUS
<1>6. Exact(ChangeSupply(m, b, 1), e) /\ Owns(ChangeSupply(m, b, 1))
  BY <1>1, <1>3, <1>4, <1>5, ExactChanged
<1> QED BY <1>2, <1>6
LEMMA InitSupplies == Init => SupplyInv
<1> SUFFICES ASSUME Init PROVE SupplyInv
  OBVIOUS
<1>1. /\ phase = "none" /\ payload = Null
      /\ db.tokens = {} /\ db.importDue = {} /\ db.contracts = {}
      /\ \A k \in Contracts : imports[k] = Null
  BY DEF Init, EmptyDatabase
<1>2. OwnedOK
  BY <1>1 DEF OwnedOK, Owns, ReadsOwned
<1>3. ExactOK
  BY <1>1 DEF ExactOK, Exact
<1> QED BY <1>2, <1>3 DEF SupplyInv

\* The node moves, or the admin looks a contract up.
LEMMA NodeStepSupplies ==
  ASSUME SupplyInv, UNCHANGED <<sent, payload, phase, pos, saved, db, imports, chain, resent, diverged>>
  PROVE  SupplyInv'
<1>1. OwnedOK'
  BY DEF SupplyInv, OwnedOK
<1>2. ExactOK'
  BY DEF SupplyInv, ExactOK
<1> QED BY <1>1, <1>2 DEF SupplyInv

\* A payload is made.
LEMMA PayloadStepSupplies ==
  ASSUME SupplyInv, phase = "none", UNCHANGED <<sent, phase, pos, saved, db, imports, chain, resent>>,
         ~diverged' => ~diverged,
         ~diverged' /\ payload' # Null /\ payload'.rollback # <<>> => chain = sent
  PROVE  SupplyInv'
<1>1. OwnedOK'
  BY DEF SupplyInv, OwnedOK
<1>2. ExactOK'
  BY DEF SupplyInv, ExactOK
<1> QED BY <1>1, <1>2 DEF SupplyInv

LEMMA SendSupplies == ASSUME IInv, SupplyInv, Send PROVE SupplyInv'
<1>1. payload = Null /\ diverged' = diverged /\ UNCHANGED <<sent, phase, pos, saved, db, imports, chain, resent>>
  BY DEF Send, StoreUnchanged
<1>2. phase = "none"
  BY <1>1 DEF IInv, PhaseOK
<1>3. ~diverged => chain = sent
  BY <1>1, <1>2 DEF IInv, PhaseOK, ChainOK
<1> QED BY <1>1, <1>2, <1>3, PayloadStepSupplies

LEMMA RegisterSupplies == ASSUME SupplyInv, Register PROVE SupplyInv'
<1>1. /\ phase = "none" /\ payload'.rollback = <<>> /\ (~diverged' => ~diverged)
      /\ UNCHANGED <<sent, phase, pos, saved, db, imports, chain, resent>>
  BY DEF Register, StoreUnchanged
<1> QED BY <1>1, PayloadStepSupplies

\* A job writes, between two payloads.
LEMMA JobStepSupplies ==
  ASSUME SupplyInv, phase = "none",
         UNCHANGED <<sent, payload, phase, chain, resent, diverged>>,
         Owns(db'), ReadsOwned(db', imports'), Exact(db, chain) => Exact(db', chain)
  PROVE  SupplyInv'
<1>1. OwnedOK'
  BY DEF OwnedOK
<1>2. ExactOK'
  BY DEF SupplyInv, ExactOK
<1> QED BY <1>1, <1>2 DEF SupplyInv

\* And only makes its rows milder.
LEMMA MildJobStepSupplies ==
  ASSUME SupplyInv, phase = "none",
         UNCHANGED <<sent, payload, phase, chain, resent, diverged>>,
         Milder(db, db'), ReadsOwned(db', imports')
  PROVE  SupplyInv'
<1>1. Owns(db')
  BY DEF SupplyInv, OwnedOK, Milder
<1>2. Exact(db, chain) => Exact(db', chain)
  BY ExactMilder
<1> QED BY <1>1, <1>2, JobStepSupplies

LEMMA ContractJobReadsSupplies ==
  ASSUME IInv, SupplyInv, NEW k \in Contracts, ContractJobReads(k) PROVE SupplyInv'
<1>1. phase = "none" /\ k \in db.importDue /\ UNCHANGED <<sent, payload, phase, chain, resent, diverged>>
  BY DEF ContractJobReads, ChainUnchanged
<1>2. db \in Databases /\ imports \in [Contracts -> (SUBSET Tokens) \cup {Null}]
  BY DEF IInv, TypeOK
<1>3. ReadsOwned(db, imports) /\ k \in db.contracts
  BY <1>1 DEF SupplyInv, OwnedOK, Owns
<1>4. CASE db' = db /\ \E S : imports' = [imports EXCEPT ![k] = S] /\ \A t \in S : ContractOf[t] = k
  <2>1. PICK S : imports' = [imports EXCEPT ![k] = S] /\ \A t \in S : ContractOf[t] = k
    BY <1>4
  <2>2. ReadsOwned(db', imports')
    BY <1>2, <1>3, <1>4, <2>1 DEF ReadsOwned
  <2>3. Milder(db, db')
    BY <1>4, MilderSelf
  <2> QED BY <1>1, <2>2, <2>3, MildJobStepSupplies
<1>5. CASE db' = [db EXCEPT !.importDue = @ \ {k}] /\ imports' = imports
  <2>1. /\ db'.tokens = db.tokens /\ db'.pending = db.pending /\ db'.supply = db.supply
        /\ db'.raced = db.raced /\ db'.importDue = db.importDue \ {k} /\ db'.contracts = db.contracts
    BY <1>2, <1>5 DEF Databases
  <2>2. Milder(db, db')
    BY <2>1, PendingMilder
  <2>3. ReadsOwned(db', imports')
    BY <1>3, <1>5, <2>1 DEF ReadsOwned
  <2> QED BY <1>1, <2>2, <2>3, MildJobStepSupplies
<1>6. \A t \in {TokenOne[k]} : ContractOf[t] = k
  BY ChainAssumption
<1> QED BY <1>4, <1>5, <1>6 DEF ContractJobReads

LEMMA ContractJobInsertsSupplies ==
  ASSUME IInv, SupplyInv, NEW k \in Contracts, ContractJobInserts(k) PROVE SupplyInv'
<1> DEFINE read == imports[k]
           d == InsertTokens(db, read)
           early == d.early \cup (read \ (MintedOn(chain) \cup db.tokens))
<1>1. phase = "none" /\ read # Null /\ UNCHANGED <<sent, payload, phase, chain, resent, diverged>>
  BY DEF ContractJobInserts, ChainUnchanged
<1>2. db \in Databases /\ imports \in [Contracts -> (SUBSET Tokens) \cup {Null}]
  BY DEF IInv, TypeOK
<1>3. /\ k \in db.contracts /\ ReadsOwned(db, imports) /\ read \in SUBSET Tokens
      /\ \A t \in read : ContractOf[t] \in db.contracts
  BY <1>1, <1>2 DEF SupplyInv, OwnedOK, ReadsOwned
<1>4. d \in Databases /\ Milder(db, d) /\ d.contracts = db.contracts
  <2> HIDE DEF read
  <2> QED BY <1>2, <1>3, InsertedTyped, InsertedMilder DEF Index
<1>5. db' = [d EXCEPT !.importDue = d.importDue \ {k}, !.early = early]
      /\ imports' = [imports EXCEPT ![k] = Null]
  <2>1. d.early = db.early
    BY <1>2 DEF InsertTokens, Databases
  <2> HIDE DEF d
  <2>2. /\ db' = [InsertTokens(db, read) EXCEPT !.importDue = @ \ {k},
                     !.early = @ \cup (read \ (MintedOn(chain) \cup db.tokens))]
        /\ imports' = [imports EXCEPT ![k] = Null]
    BY DEF ContractJobInserts
  <2> QED BY <1>4, <2>2 DEF d, Databases
<1> HIDE DEF d, early, read
<1>6. /\ db'.tokens = d.tokens /\ db'.pending = d.pending /\ db'.supply = d.supply
      /\ db'.raced = d.raced /\ db'.importDue = d.importDue \ {k} /\ db'.contracts = d.contracts
  BY <1>4, <1>5 DEF Databases
<1>7. Milder(d, db')
  BY <1>6, PendingMilder
<1>8. Milder(db, db')
  BY <1>4, <1>7, MilderTwice
<1>9. ReadsOwned(db', imports')
  BY <1>2, <1>3, <1>4, <1>5, <1>6 DEF ReadsOwned
<1> QED BY <1>1, <1>8, <1>9, MildJobStepSupplies

LEMMA FtJobWritesSupplies ==
  ASSUME IInv, SupplyInv, NEW t \in Tokens, FtJobWrites(t) PROVE SupplyInv'
<1> DEFINE read == reads[t]
           now == SupplyOn(chain, ContractOf[t])
<1>1. /\ phase = "none" /\ read # Null /\ imports' = imports
      /\ UNCHANGED <<sent, payload, phase, chain, resent, diverged>>
  BY DEF FtJobWrites, ChainUnchanged
<1>2. db \in Databases
  BY DEF IInv, TypeOK
<1>3. /\ db'.tokens = db.tokens /\ db'.contracts = db.contracts /\ db'.importDue = db.importDue
      /\ db'.pending = db.pending \ {t} /\ db'.supply = [db.supply EXCEPT ![t] = StoredSupply(read)]
      /\ db'.raced = IF read # 0 /\ read = now THEN db.raced \ {t} ELSE db.raced \cup {t}
  BY <1>2 DEF FtJobWrites, Databases
<1>4. db.supply \in [Tokens -> Supplies] /\ db.tokens \subseteq Tokens
  BY <1>2 DEF Databases
<1>5. Owns(db') /\ ReadsOwned(db', imports')
  BY <1>1, <1>3 DEF SupplyInv, OwnedOK, Owns, ReadsOwned
<1>6. ASSUME Exact(db, chain), NEW u \in db'.tokens \ db'.raced, FtToken(u)
      PROVE  /\ db'.supply[u] # Null => db'.supply[u] = SupplyOn(chain, ContractOf[u])
             /\ u \notin db'.pending => db'.supply[u] # Null
  <2>1. CASE u = t
    <3>1. read # 0 /\ read = now
      BY <1>3, <1>6, <2>1
    <3>2. db'.supply[t] = read
      BY <1>3, <1>4, <3>1 DEF StoredSupply
    <3> QED BY <1>1, <2>1, <3>1, <3>2
  <2>2. CASE u # t
    <3>1. db'.supply[u] = db.supply[u] /\ u \in db.tokens \ db.raced
      BY <1>3, <1>4, <1>6, <2>2
    <3>2. u \in db'.pending <=> u \in db.pending
      BY <1>3, <2>2
    <3>3. /\ db.supply[u] # Null => db.supply[u] = SupplyOn(chain, ContractOf[u])
          /\ u \notin db.pending => db.supply[u] # Null
      BY <1>6, <3>1 DEF Exact
    <3> QED BY <3>1, <3>2, <3>3
  <2> QED BY <2>1, <2>2
<1>7. Exact(db, chain) => Exact(db', chain)
  BY <1>6 DEF Exact
<1> QED BY <1>1, <1>5, <1>7, JobStepSupplies

LEMMA NftJobWritesSupplies ==
  ASSUME IInv, SupplyInv, NEW t \in Tokens, NftJobWrites(t) PROVE SupplyInv'
<1>1. /\ phase = "none" /\ Sip[ContractOf[t]] # "sip-010" /\ imports' = imports
      /\ UNCHANGED <<sent, payload, phase, chain, resent, diverged>>
  BY DEF NftJobWrites, ChainUnchanged
<1>2. db \in Databases
  BY DEF IInv, TypeOK
<1>3. /\ db'.tokens = db.tokens /\ db'.contracts = db.contracts /\ db'.importDue = db.importDue
      /\ db'.pending = db.pending \ {t} /\ db'.supply = db.supply /\ db'.raced = db.raced
  BY <1>2 DEF NftJobWrites, Databases
<1>4. Owns(db') /\ ReadsOwned(db', imports')
  BY <1>1, <1>3 DEF SupplyInv, OwnedOK, Owns, ReadsOwned
<1>5. \A u : FtToken(u) => u # t
  BY <1>1 DEF FtToken
<1>6. Exact(db, chain) => Exact(db', chain)
  BY <1>3, <1>5 DEF Exact
<1> QED BY <1>1, <1>4, <1>6, JobStepSupplies

LEMMA SmallJobStepSupplies ==
  ASSUME IInv, SupplyInv,
         \/ \E t \in Tokens : TokenJobReads(t) \/ IntervalPasses(t)
         \/ ImportContractInserts
  PROVE  SupplyInv'
<1>1. phase = "none" /\ imports' = imports /\ UNCHANGED <<sent, payload, phase, chain, resent, diverged>>
  BY DEF TokenJobReads, IntervalPasses, ImportContractInserts, ChainUnchanged
<1>2. db \in Databases /\ ReadsOwned(db, imports)
  BY DEF IInv, TypeOK, SupplyInv, OwnedOK
<1>3. CASE \E t \in Tokens : TokenJobReads(t)
  <2>1. db' = db
    BY <1>3 DEF TokenJobReads
  <2> QED BY <1>1, <1>2, <2>1, MilderSelf, MildJobStepSupplies
<1>4. CASE \E t \in Tokens : IntervalPasses(t)
  <2>1. /\ db'.tokens = db.tokens /\ db'.pending = db.pending /\ db'.supply = db.supply
        /\ db'.raced = db.raced /\ db'.importDue = db.importDue /\ db'.contracts = db.contracts
    BY <1>2, <1>4 DEF IntervalPasses, Databases
  <2>2. Milder(db, db')
    BY <2>1, PendingMilder
  <2>3. ReadsOwned(db', imports')
    BY <1>1, <1>2, <2>1 DEF ReadsOwned
  <2> QED BY <1>1, <2>2, <2>3, MildJobStepSupplies
<1>5. CASE ImportContractInserts
  <2> DEFINE d == EnqueueContracts(db, {importing})
             imported == d.imported \cup ({importing} \ DeployedOn(chain))
  <2>1. {importing} \in SUBSET Contracts
    BY <1>5 DEF ImportContractInserts, IInv, TypeOK
  <2>2. /\ d \in Databases /\ Milder(db, d) /\ d.contracts = db.contracts \cup {importing}
    BY <1>2, <2>1, ContractsEnqueued, EnqueuedMilder DEF Index
  <2>3. db' = [d EXCEPT !.imported = imported]
    BY <1>5 DEF ImportContractInserts
  <2> HIDE DEF d, imported
  <2>4. /\ db'.tokens = d.tokens /\ db'.pending = d.pending /\ db'.supply = d.supply
        /\ db'.raced = d.raced /\ db'.importDue = d.importDue /\ db'.contracts = d.contracts
    BY <2>2, <2>3 DEF Databases
  <2>5. Milder(d, db')
    BY <2>4, PendingMilder
  <2>6. Milder(db, db')
    BY <2>2, <2>5, MilderTwice
  <2>7. ReadsOwned(db', imports')
    BY <1>1, <1>2, <2>2, <2>4 DEF ReadsOwned
  <2> QED BY <1>1, <2>6, <2>7, MildJobStepSupplies
<1> QED BY <1>3, <1>4, <1>5
LEMMA BeginTransactionSupplies ==
  ASSUME IInv, SupplyInv, BeginTransaction PROVE SupplyInv'
<1>1. /\ phase = "none" /\ phase' = "rollback" /\ pos' = 1 /\ chain \in Seq(Blocks)
      /\ saved'.db = db /\ saved'.chain = chain /\ saved'.imports = imports
      /\ UNCHANGED <<sent, payload, db, imports, chain, resent, diverged>>
  BY DEF BeginTransaction, NodeUnchanged, IInv, TypeOK
<1>2. OwnedOK'
  BY <1>1 DEF SupplyInv, OwnedOK
<1>3. SubSeq(chain, 1, Len(chain) + 1 - 1) = chain
  BY <1>1
<1>4. ExactOK'
  BY <1>1, <1>3 DEF SupplyInv, ExactOK
<1> QED BY <1>2, <1>4 DEF SupplyInv

\* A step of the open transaction.
LEMMA OpenStepSupplies ==
  ASSUME SupplyInv, phase # "none", phase' # "none",
         UNCHANGED <<sent, payload, saved, resent, diverged>>,
         Owns(db'), ReadsOwned(db', imports'),
         ~diverged /\ ~resent =>
           /\ phase' = "rollback" => Exact(db', SubSeq(chain', 1, Len(chain') + 1 - pos'))
           /\ phase' # "rollback" => Exact(db', chain')
  PROVE  SupplyInv'
<1>1. OwnedOK'
  BY DEF SupplyInv, OwnedOK
<1>2. ExactOK'
  BY DEF SupplyInv, ExactOK
<1> QED BY <1>1, <1>2 DEF SupplyInv

LEMMA RollBackBlockSupplies ==
  ASSUME IInv, SupplyInv, RollBackBlock PROVE SupplyInv'
<1> DEFINE b == payload.rollback[pos]
           n == Len(chain) - pos
           longer == SubSeq(chain, 1, n + 1)
           shorter == SubSeq(chain, 1, n)
           d == RollBackTransactions(db, b)
           gone == Cache[b].contracts
           dropped == (d.dropped \cup Mints[b]) \cap MintedIn({y \in ToSet(chain) : Height[y] < Height[b]})
<1>1. /\ phase = "rollback" /\ phase' = "rollback" /\ payload # Null /\ pos \in 1..Len(payload.rollback)
      /\ db \in Databases /\ chain \in Seq(Blocks) /\ chain = saved.chain /\ pos' = pos + 1
      /\ UNCHANGED <<sent, payload, saved, chain, resent, diverged>>
  BY DEF RollBackBlock, NodeUnchanged, IInv, PhaseOK, TypeOK
<1>2. /\ payload.rollback \in Seq(Blocks) /\ payload.rollback # <<>> /\ b \in Blocks
      /\ sent \in Seq(Blocks) /\ Below \in Nat /\ pos \in Nat /\ Len(chain) \in Nat
  BY <1>1, PayloadFacts
<1>3. /\ db' = [d EXCEPT !.dropped = dropped]
      /\ imports' = [k \in Contracts |-> IF k \in gone THEN Null ELSE imports[k]]
  BY DEF RollBackBlock
<1>4. d \in Databases /\ d.contracts = db.contracts \ gone
  BY <1>1, <1>2, BlockRolledBack
<1> HIDE DEF d, dropped
<1>5. /\ db'.tokens = d.tokens /\ db'.pending = d.pending /\ db'.supply = d.supply
      /\ db'.raced = d.raced /\ db'.importDue = d.importDue /\ db'.contracts = d.contracts
  BY <1>3, <1>4 DEF Databases
<1>6. Milder(d, db')
  BY <1>5, PendingMilder
<1>7. Owns(d)
  <2> DEFINE m == RollBackMints(RollBackNotifications(RollBackDeployments(db, b), b), b)
  <2>1. m \in Databases /\ Milder(db, m)
    BY <1>1, <1>2, RolledBackMilder
  <2>2. d = ChangeSupply(m, b, -1)
    BY DEF RollBackTransactions, d
  <2> HIDE DEF m, b
  <2>3. -1 \in {1, -1}
    OBVIOUS
  <2>4. /\ d.tokens = m.tokens /\ d.importDue = m.importDue /\ d.contracts = m.contracts
    BY <1>2, <2>1, <2>2, <2>3, SupplyAdjusted
  <2>5. Owns(m)
    BY <2>1 DEF SupplyInv, OwnedOK, Milder
  <2> QED BY <2>4, <2>5 DEF Owns
<1>8. Owns(db')
  BY <1>6, <1>7 DEF Milder
<1>9. ReadsOwned(db', imports')
  <2>1. ReadsOwned(db, imports)
    BY DEF SupplyInv, OwnedOK
  <2> HIDE DEF gone
  <2> QED BY <1>3, <1>4, <1>5, <2>1 DEF ReadsOwned
<1>10. ASSUME ~diverged, ~resent PROVE Exact(db', SubSeq(chain', 1, Len(chain') + 1 - pos'))
  <2>1. chain = sent /\ Exact(db, SubSeq(chain, 1, Len(chain) + 1 - pos))
    BY <1>1, <1>2, <1>10 DEF SupplyInv, ExactOK
  <2>2. Len(payload.rollback) = Len(chain) - Below /\ b = chain[Len(chain) + 1 - pos]
    BY <1>1, <1>2, <2>1 DEF IInv, PayloadOK
  <2>3. n \in Nat /\ n + 1 <= Len(chain) /\ Len(chain) + 1 - pos = n + 1
        /\ Len(chain') + 1 - pos' = n
    <3>1. pos >= 1 /\ pos <= Len(chain) - Below
      BY <1>1, <1>2, <2>2
    <3>2. n \in Nat /\ n + 1 <= Len(chain) /\ Len(chain) + 1 - pos = n + 1
      BY <1>2, <3>1
    <3>3. Len(chain') = Len(chain) /\ pos' = pos + 1
      BY <1>1
    <3>4. Len(chain) + 1 - (pos + 1) = n
      BY <1>2
    <3> QED BY <3>2, <3>3, <3>4
  <2> HIDE DEF n
  <2>4. /\ longer \in Seq(Blocks) /\ shorter \in Seq(Blocks)
        /\ Len(longer) = n + 1 /\ Len(shorter) = n
        /\ \A i \in 1..n : longer[i] = shorter[i]
        /\ longer[n + 1] = chain[n + 1]
    <3>1. \A i \in 1..(n + 1) : chain[i] \in Blocks
      BY <1>1, <2>3
    <3>2. longer = [i \in 1..(n + 1) |-> chain[i]] /\ shorter = [i \in 1..n |-> chain[i]]
      BY <2>3
    <3> HIDE DEF longer, shorter
    <3>3. longer \in Seq(Blocks) /\ shorter \in Seq(Blocks) /\ Len(longer) = n + 1 /\ Len(shorter) = n
      BY <2>3, <3>1, <3>2
    <3> QED BY <2>3, <3>2, <3>3
  <2>5. b = longer[Len(longer)] /\ Exact(db, longer) /\ Len(longer) = Len(shorter) + 1
        /\ \A i \in 1..Len(shorter) : longer[i] = shorter[i]
    BY <2>1, <2>2, <2>3, <2>4
  <2> HIDE DEF b, longer, shorter
  <2>6. Owns(db)
    BY DEF SupplyInv, OwnedOK
  <2>7. Exact(d, shorter)
    BY <1>1, <1>2, <2>4, <2>5, <2>6, ExactRolledBack DEF d
  <2>8. Exact(db', shorter)
    BY <1>6, <2>7, ExactMilder
  <2> QED BY <1>1, <2>3, <2>8 DEF shorter
<1> QED BY <1>1, <1>8, <1>9, <1>10, OpenStepSupplies

LEMMA ResetTipSupplies == ASSUME IInv, SupplyInv, ResetTip PROVE SupplyInv'
<1>1. /\ phase = "rollback" /\ phase' = "apply" /\ payload # Null /\ pos > Len(payload.rollback)
      /\ pos \in 1..(Len(payload.rollback) + 1) /\ imports' = imports
      /\ db \in Databases /\ chain \in Seq(Blocks) /\ chain = saved.chain
      /\ UNCHANGED <<sent, payload, saved, resent, diverged>>
  BY DEF ResetTip, NodeUnchanged, IInv, PhaseOK, TypeOK
<1>2. /\ payload.rollback \in Seq(Blocks) /\ Below \in Nat /\ pos = Len(payload.rollback) + 1
      /\ Len(payload.rollback) \in Nat /\ Len(chain) \in Nat
  <2>1. payload.rollback \in Seq(Blocks) /\ Below \in Nat
    BY <1>1, PayloadFacts
  <2>2. Len(payload.rollback) \in Nat
    BY <2>1
  <2> QED BY <1>1, <2>1, <2>2
<1>3. Owns(db) /\ ReadsOwned(db, imports)
  BY DEF SupplyInv, OwnedOK
<1>4. ~diverged /\ ~resent => Exact(db, SubSeq(chain, 1, Len(chain) + 1 - pos))
  BY <1>1 DEF SupplyInv, ExactOK
<1>5. CASE payload.rollback = <<>>
  <2>1. db' = db /\ chain' = chain
    BY <1>5 DEF ResetTip
  <2>2. SubSeq(chain, 1, Len(chain) + 1 - pos) = chain
    BY <1>1, <1>2, <1>5
  <2> QED BY <1>1, <1>3, <1>4, <2>1, <2>2, OpenStepSupplies
<1>6. CASE payload.rollback # <<>>
  <2> DEFINE tip == Genesis + Below
  <2>1. Min({Height[b] : b \in ToSet(payload.rollback)}) = tip + 1
    BY <1>1, <1>2, <1>6, EarliestHeight DEF Genesis
  <2>2. (tip + 1) - 1 = tip /\ (tip + 1) - 1 - Genesis = Below
    BY <1>2 DEF Genesis
  <2> HIDE DEF tip
  <2>3. db' = [db EXCEPT !.tip = tip] /\ chain' = SubSeq(chain, 1, Below)
    BY <1>6, <2>1, <2>2 DEF ResetTip, TipBelow
  <2>4. /\ db'.tokens = db.tokens /\ db'.pending = db.pending /\ db'.supply = db.supply
        /\ db'.raced = db.raced /\ db'.importDue = db.importDue /\ db'.contracts = db.contracts
    BY <1>1, <2>3 DEF Databases
  <2>5. Milder(db, db')
    BY <2>4, PendingMilder
  <2>6. Owns(db') /\ ReadsOwned(db', imports')
    BY <1>1, <1>3, <2>4, <2>5 DEF Milder, ReadsOwned
  <2>7. ASSUME ~diverged, ~resent PROVE Exact(db', chain')
    <3>1. chain = sent
      BY <1>1, <1>6, <2>7 DEF SupplyInv, ExactOK
    <3>2. Len(chain) + 1 - pos = Below
      <4>1. Len(payload.rollback) = Len(sent) - Below
        BY <1>1, <1>6 DEF IInv, PayloadOK
      <4> QED BY <1>2, <3>1, <4>1
    <3> QED BY <1>4, <2>3, <2>5, <2>7, <3>2, ExactMilder
  <2> QED BY <1>1, <2>6, <2>7, OpenStepSupplies
<1> QED BY <1>5, <1>6

LEMMA ApplyBlockSupplies == ASSUME IInv, SupplyInv, ApplyBlock PROVE SupplyInv'
<1> DEFINE b == payload.apply[pos]
           d == ApplyTransactions(db, b)
           e == EnqueueDynamicTokens(d)
<1>1. /\ phase = "apply" /\ phase' = "apply" /\ payload # Null /\ pos \in Nat
      /\ pos \in 1..Len(payload.apply) /\ db \in Databases /\ chain \in Seq(Blocks)
      /\ UNCHANGED <<sent, payload, saved, imports, resent, diverged>>
  BY DEF ApplyBlock, NodeUnchanged, IInv, PhaseOK, TypeOK
<1>2. b \in Blocks
  <2>1. payload.apply \in Seq(Blocks)
    BY <1>1, PayloadFacts
  <2> QED BY <1>1, <2>1
<1>3. Owns(db) /\ ReadsOwned(db, imports) /\ (~diverged /\ ~resent => Exact(db, chain))
  BY <1>1 DEF SupplyInv, OwnedOK, ExactOK
<1>4. CASE Height[b] <= db.tip
  <2>1. db' = db /\ chain' = chain
    BY <1>4 DEF ApplyBlock
  <2> QED BY <1>1, <1>3, <2>1, OpenStepSupplies
<1>5. CASE ~(Height[b] <= db.tip)
  <2> DEFINE c == Append(chain, b)
             m == ApplyMints(ApplyNotifications(ApplyDeployments(db, b), b), b)
  <2>1. db' = [e EXCEPT !.tip = Height[b]] /\ chain' = c
    BY <1>5 DEF ApplyBlock
  <2>2. /\ c \in Seq(Blocks) /\ Len(c) = Len(chain) + 1 /\ c[Len(c)] = b
        /\ \A i \in 1..Len(chain) : c[i] = chain[i]
    BY <1>1, <1>2
  <2> HIDE DEF b, c
  <2>3. d \in Databases /\ d.contracts = db.contracts \cup Cache[b].contracts
    BY <1>1, <1>2, BlockApplied
  <2>4. m \in Databases /\ Milder(db, m)
    BY <1>1, <1>2, AppliedMilder
  <2>5. d = ChangeSupply(m, b, 1)
    BY DEF ApplyTransactions
  <2> HIDE DEF m
  <2>6. Owns(d)
    <3>1. 1 \in {1, -1}
      OBVIOUS
    <3>2. d.tokens = m.tokens /\ d.importDue = m.importDue /\ d.contracts = m.contracts
      BY <1>2, <2>4, <2>5, <3>1, SupplyAdjusted
    <3>3. Owns(m)
      BY <1>3, <2>4 DEF Milder
    <3> QED BY <3>2, <3>3 DEF Owns
  <2>7. ~diverged /\ ~resent => Exact(d, c)
    BY <1>1, <1>2, <1>3, <2>2, ExactApplied
  <2> HIDE DEF d
  <2>8. e \in Databases /\ Milder(d, e) /\ e.contracts = d.contracts
    BY <2>3, DynamicTokensEnqueued, DynamicMilder DEF Index
  <2> HIDE DEF e
  <2>9. /\ db'.tokens = e.tokens /\ db'.pending = e.pending /\ db'.supply = e.supply
        /\ db'.raced = e.raced /\ db'.importDue = e.importDue /\ db'.contracts = e.contracts
    BY <2>1, <2>8 DEF Databases
  <2>10. Milder(e, db')
    BY <2>9, PendingMilder
  <2>11. Milder(d, db')
    BY <2>8, <2>10, MilderTwice
  <2>12. Owns(db')
    BY <2>6, <2>11 DEF Milder
  <2>13. ReadsOwned(db', imports')
    BY <1>1, <1>3, <2>3, <2>8, <2>9 DEF ReadsOwned
  <2>14. ~diverged /\ ~resent => Exact(db', chain')
    BY <2>1, <2>7, <2>11, ExactMilder
  <2> QED BY <1>1, <2>12, <2>13, <2>14, OpenStepSupplies
<1> QED BY <1>4, <1>5

LEMMA CommitSupplies == ASSUME IInv, SupplyInv, Commit PROVE SupplyInv'
<1>1. /\ phase = "apply" /\ phase' = "none"
      /\ UNCHANGED <<db, imports, chain, diverged>>
      /\ \/ payload' = Null /\ UNCHANGED resent
         \/ payload' = payload /\ resent' = (resent \/ payload.rollback # <<>>)
  BY DEF Commit, NodeUnchanged
<1>2. OwnedOK'
  BY <1>1 DEF SupplyInv, OwnedOK
<1>3. CASE payload' = Null /\ UNCHANGED resent
  <2>1. ExactOK'
    BY <1>1, <1>3 DEF SupplyInv, ExactOK
  <2> QED BY <1>2, <2>1 DEF SupplyInv
<1>4. CASE payload' = payload /\ resent' = (resent \/ payload.rollback # <<>>)
  <2>1. CASE payload.rollback # <<>>
    <3>1. resent'
      BY <1>4, <2>1
    <3>2. ExactOK'
      BY <3>1 DEF ExactOK
    <3> QED BY <1>2, <3>2 DEF SupplyInv
  <2>2. CASE payload.rollback = <<>>
    <3>1. resent => resent'
      BY <1>4
    <3>2. ExactOK'
      BY <1>1, <1>4, <2>2, <3>1 DEF SupplyInv, ExactOK
    <3> QED BY <1>2, <3>2 DEF SupplyInv
  <2> QED BY <2>1, <2>2
<1> QED BY <1>1, <1>3, <1>4

LEMMA AbortSupplies == ASSUME IInv, SupplyInv, Abort PROVE SupplyInv'
<1>1. /\ phase # "none" /\ phase' = "none"
      /\ db' = saved.db /\ chain' = saved.chain /\ imports' = saved.imports
      /\ UNCHANGED <<sent, payload, diverged, resent>>
  BY DEF Abort, NodeUnchanged
<1>2. OwnedOK'
  BY <1>1 DEF SupplyInv, OwnedOK
<1>3. ExactOK'
  BY <1>1 DEF SupplyInv, ExactOK
<1> QED BY <1>2, <1>3 DEF SupplyInv

LEMMA NextSupplies == ASSUME IInv, SupplyInv, [Next]_vars PROVE SupplyInv'
<1>1. CASE NodeMoves \/ \E k \in Contracts : ImportContractReads(k)
  <2>1. UNCHANGED <<sent, payload, phase, pos, saved, db, imports, chain, resent, diverged>>
    BY <1>1 DEF NodeMoves, StoreUnchanged, ImportContractReads
  <2> QED BY <2>1, NodeStepSupplies
<1>2. CASE Send \/ Register
  BY <1>2, SendSupplies, RegisterSupplies
<1>3. CASE ProcessPayload \/ Abort
  BY <1>3, BeginTransactionSupplies, RollBackBlockSupplies, ResetTipSupplies, ApplyBlockSupplies,
     CommitSupplies, AbortSupplies DEF ProcessPayload
<1>4. CASE \E k \in Contracts : ContractJobReads(k) \/ ContractJobInserts(k)
  BY <1>4, ContractJobReadsSupplies, ContractJobInsertsSupplies
<1>5. CASE \E t \in Tokens : FtJobWrites(t) \/ NftJobWrites(t)
  BY <1>5, FtJobWritesSupplies, NftJobWritesSupplies
<1>6. CASE \/ \E t \in Tokens : TokenJobReads(t) \/ IntervalPasses(t)
           \/ ImportContractInserts
  BY <1>6, SmallJobStepSupplies
<1>7. CASE UNCHANGED vars
  BY <1>7, NodeStepSupplies DEF vars
<1> QED BY <1>1, <1>2, <1>3, <1>4, <1>5, <1>6, <1>7 DEF Next

\* Whatever is applied, rolled back, aborted and sent again, and whatever the jobs do in
\* between, the supply that is kept of an FT is the chain's, and none is missing once its
\* job is done (chainhook-pg-store.ts:38, 203-204, 263-278; process-token-job.ts:95-98).
THEOREM SupplyIsTheChains == Spec => []SupplyExact
<1>1. Init => SupplyInv
  BY InitSupplies
<1>2. IInv /\ SupplyInv /\ [Next]_vars => SupplyInv'
  BY NextSupplies
<1>3. SupplyInv => SupplyExact
  BY DEF SupplyInv, ExactOK, Exact, FtToken, SupplyExact, Committed
<1> QED BY <1>1, <1>2, <1>3, Invariant, PTL DEF Spec

-----------------------------------------------------------------------------
(* Notifications: a block's, in the order of their positions.               *)

\* The notification that an event stands for.
NoteOf(e) == NotificationOf(e.what, e.tx, e.event)

Before(m, n) == m.tx < n.tx \/ (m.tx = n.tx /\ m.event < n.event)

\* A list of notifications: those of the events of E, in the order of their positions.
Tells(s, E) ==
  /\ \A i \in DOMAIN s : \E e \in E : s[i] = NoteOf(e)
  /\ \A e \in E : \E i \in DOMAIN s : s[i] = NoteOf(e)
  /\ \A i, j \in DOMAIN s : i < j => Before(s[i], s[j])

LEMMA TellsMore ==
  ASSUME NEW s \in Seq(Notifications), NEW E, Tells(s, E), NEW x, \A e \in E : Before(e, x)
  PROVE  Tells(Append(s, NoteOf(x)), E \cup {x})
<1> DEFINE r == Append(s, NoteOf(x))
           n == Len(s)
<1>1. /\ n \in Nat /\ DOMAIN s = 1..n /\ DOMAIN r = 1..(n + 1) /\ r[n + 1] = NoteOf(x)
      /\ \A i \in 1..n : r[i] = s[i]
  OBVIOUS
<1>2. \A e : NoteOf(e).tx = e.tx /\ NoteOf(e).event = e.event
  BY DEF NoteOf, NotificationOf
<1> HIDE DEF r, n
<1>3. \A i \in DOMAIN r : \E e \in E \cup {x} : r[i] = NoteOf(e)
  BY <1>1 DEF Tells
<1>4. \A e \in E \cup {x} : \E i \in DOMAIN r : r[i] = NoteOf(e)
  <2> SUFFICES ASSUME NEW e \in E \cup {x} PROVE \E i \in DOMAIN r : r[i] = NoteOf(e)
    OBVIOUS
  <2>1. CASE e = x
    BY <1>1, <2>1
  <2>2. CASE e \in E
    <3>1. PICK i \in DOMAIN s : s[i] = NoteOf(e)
      BY <2>2 DEF Tells
    <3> QED BY <1>1, <3>1
  <2> QED BY <2>1, <2>2
<1>5. ASSUME NEW i \in DOMAIN r, NEW j \in DOMAIN r, i < j PROVE Before(r[i], r[j])
  <2>1. CASE j = n + 1
    <3>1. i \in DOMAIN s /\ r[i] = s[i]
      BY <1>1, <1>5, <2>1
    <3>2. PICK e \in E : s[i] = NoteOf(e)
      BY <3>1 DEF Tells
    <3>3. Before(e, x)
      OBVIOUS
    <3> QED BY <1>1, <1>2, <2>1, <3>1, <3>2, <3>3 DEF Before
  <2>2. CASE j # n + 1
    <3>1. i \in DOMAIN s /\ j \in DOMAIN s /\ r[i] = s[i] /\ r[j] = s[j]
      BY <1>1, <1>5, <2>2
    <3> QED BY <1>5, <3>1 DEF Tells
  <2> QED BY <2>1, <2>2
<1> QED BY <1>3, <1>4, <1>5 DEF Tells, r

\* An event that is an update adds a notification, and no other does.
LEMMA CacheEventNotes ==
  ASSUME NEW c \in Caches, NEW tx \in StacksTransactions, NEW i \in Nat, NEW j \in DOMAIN tx.events
  PROVE  LET e == tx.events[j]
             told == e.type = "SmartContractEvent" /\ Notifies(tx.sender, e)
         IN /\ told => CacheEvent(c, tx, i, j).notifications
                         = Append(c.notifications, NotificationOf(e, i, j))
            /\ ~told => CacheEvent(c, tx, i, j).notifications = c.notifications
<1> DEFINE e == tx.events[j]
<1>1. e \in Events /\ j \in Nat
  BY DEF StacksTransactions
<1>2. e.type \in {"SmartContractEvent", "FTMintEvent", "FTBurnEvent", "NFTMintEvent"}
  BY <1>1, EventOfType
<1> HIDE DEF e
<1>3. CASE e.type = "SmartContractEvent" /\ Notifies(tx.sender, e)
  <2> DEFINE n == NotificationOf(e, i, j)
  <2>1. ~IsSftMint(e)
    BY <1>3 DEF IsSftMint, Notifies
  <2>2. CacheEvent(c, tx, i, j) = [c EXCEPT !.notifications = Append(c.notifications, n)]
    BY <1>3, <2>1 DEF CacheEvent, Caches, e
  <2> HIDE DEF n
  <2>3. CacheEvent(c, tx, i, j).notifications = Append(c.notifications, n)
    BY <2>2 DEF Caches
  <2> QED BY <1>3, <2>3 DEF n, e
<1>4. CASE ~(e.type = "SmartContractEvent" /\ Notifies(tx.sender, e))
  <2>1. CacheEvent(c, tx, i, j).notifications = c.notifications
    <3>1. CASE e.type = "SmartContractEvent"
      BY <1>4, <3>1 DEF CacheEvent, Caches, e
    <3>2. CASE e.type \in {"FTMintEvent", "FTBurnEvent"}
      BY <3>2 DEF CacheEvent, Caches, e
    <3>3. CASE e.type = "NFTMintEvent"
      BY <3>3 DEF CacheEvent, Caches, e
    <3> QED BY <1>2, <3>1, <3>2, <3>3
  <2> QED BY <1>4, <2>1 DEF e
<1> QED BY <1>3, <1>4

\* What is collected from a block, in the order of the payload, are the notifications
\* that SIP-019 lets it make, each once, by their positions (block-cache.ts:49-80,
\* sip-validation.ts:308-371).
THEOREM NotificationsOfCache ==
  ASSUME NEW b \in Blocks PROVE Tells(Cache[b].notifications, Updates[b])
<1> DEFINE txs == Transactions[b]
           n == Len(txs)
           S == Updates[b]
           E(m) == {e \in S : e.tx <= m}
<1>1. txs \in Seq(StacksTransactions) /\ n \in Nat /\ DOMAIN txs = 1..n
  BY BlockTyped
<1>2. PICK g \in [0..n -> Caches] :
        /\ g[0] = EmptyCache
        /\ \A j \in 1..n : g[j] = CacheTransaction(g[j - 1], txs[j], j)
        /\ CacheOf(txs) = g[n]
  BY <1>1, TransactionsCollected
<1>3. \A e \in EventsOf[b] :
        e \in S <=> e.what.type = "SmartContractEvent" /\ Notifies(e.sender, e.what)
  BY DEF Updates, Printed, Notifies
<1>4. \A e \in S : /\ e.tx \in 1..n /\ txs[e.tx].success /\ e.event \in DOMAIN txs[e.tx].events
                   /\ e = EventAt(b, e.tx, e.event)
  <2>1. S \subseteq EventsOf[b]
    BY DEF Updates
  <2> HIDE DEF S, txs
  <2> USE DEF txs
  <2> QED BY <1>1, <2>1, EventPlaced
<1>5. ASSUME NEW i \in 1..n, txs[i].success, NEW j \in DOMAIN txs[i].events
      PROVE  /\ EventAt(b, i, j) \in S
                  <=> txs[i].events[j].type = "SmartContractEvent" /\ Notifies(txs[i].sender, txs[i].events[j])
             /\ EventAt(b, i, j).what = txs[i].events[j] /\ EventAt(b, i, j).tx = i
             /\ EventAt(b, i, j).event = j
  <2>1. EventAt(b, i, j) \in EventsOf[b]
    BY <1>1, <1>5, EventPlaced
  <2>2. /\ EventAt(b, i, j).what = txs[i].events[j] /\ EventAt(b, i, j).tx = i
        /\ EventAt(b, i, j).event = j /\ EventAt(b, i, j).sender = txs[i].sender
    BY DEF EventAt
  <2> HIDE DEF S, txs
  <2> QED BY <1>3, <2>1, <2>2
<1> HIDE DEF S
<1> DEFINE M == {m \in Nat : m <= n => Tells(g[m].notifications, E(m))}
<1>6. 0 \in M
  <2>1. E(0) = {}
    BY <1>4
  <2>2. EmptyCache.notifications = <<>>
    BY DEF EmptyCache
  <2>3. Tells(<<>>, {})
    BY DEF Tells
  <2> HIDE DEF E
  <2> QED BY <1>2, <2>1, <2>2, <2>3
<1>7. ASSUME NEW m \in Nat, m \in M PROVE m + 1 \in M
  <2> HIDE DEF E, n
  <2> SUFFICES ASSUME m + 1 <= n PROVE Tells(g[m + 1].notifications, E(m + 1))
    OBVIOUS
  <2> USE DEF E, n
  <2> DEFINE i == m + 1
             tx == txs[i]
  <2>1. /\ i \in 1..n /\ i \in Nat /\ i - 1 = m /\ tx \in StacksTransactions
        /\ g[m] \in Caches /\ g[i] = CacheTransaction(g[m], tx, i) /\ Tells(g[m].notifications, E(m))
    BY <1>1, <1>2, <1>7
  <2>2. CASE ~tx.success
    <3>1. E(i) = E(m)
      BY <1>4, <2>2
    <3>2. g[i] = g[m]
      BY <2>1, <2>2 DEF CacheTransaction
    <3> HIDE DEF E
    <3> QED BY <2>1, <3>1, <3>2
  <2>3. CASE tx.success
    <3> DEFINE l == Len(tx.events)
               F(j) == E(m) \cup {e \in S : e.tx = i /\ e.event <= j}
    <3>1. l \in Nat /\ DOMAIN tx.events = 1..l
      BY <2>1 DEF StacksTransactions
    <3>2. PICK f \in [0..l -> Caches] :
            /\ f[0] = CacheDeployment(g[m], tx)
            /\ \A j \in 1..l : f[j] = CacheEvent(f[j - 1], tx, i, j)
            /\ CacheTransaction(g[m], tx, i) = f[l]
      <4> HIDE DEF tx, i
      <4> QED BY <2>1, <2>3, EventsCollected
    <3> DEFINE L == {j \in Nat : j <= l => Tells(f[j].notifications, F(j))}
    <3>3. 0 \in L
      <4>1. F(0) = E(m)
        <5>1. \A e \in S : e.tx = i => e.event \in 1..l
          BY <1>4, <3>1
        <5> QED BY <5>1
      <4>2. f[0].notifications = g[m].notifications
        BY <2>1, <3>2 DEF CacheDeployment, Caches
      <4> HIDE DEF F, E
      <4> QED BY <2>1, <4>1, <4>2
    <3>4. ASSUME NEW j \in Nat, j \in L PROVE j + 1 \in L
      <4> HIDE DEF F, l
      <4> SUFFICES ASSUME j + 1 <= l PROVE Tells(f[j + 1].notifications, F(j + 1))
        OBVIOUS
      <4>0. Tells(f[j].notifications, F(j))
        BY <3>1, <3>4
      <4> USE DEF F, l
      <4> DEFINE event == tx.events[j + 1]
                 x == EventAt(b, i, j + 1)
                 told == event.type = "SmartContractEvent" /\ Notifies(tx.sender, event)
      <4>1. /\ j + 1 \in DOMAIN tx.events /\ (j + 1) - 1 = j /\ f[j] \in Caches
            /\ f[j + 1] = CacheEvent(f[j], tx, i, j + 1)
        <5> HIDE DEF F, l, tx, i
        <5> QED BY <3>1, <3>2
      <4>2. /\ told => f[j + 1].notifications
                         = Append(f[j].notifications, NotificationOf(event, i, j + 1))
            /\ ~told => f[j + 1].notifications = f[j].notifications
        <5> HIDE DEF tx, i
        <5> QED BY <2>1, <4>1, CacheEventNotes
      <4>3. /\ x \in S <=> told
            /\ x.what = event /\ x.tx = i /\ x.event = j + 1
        BY <1>5, <2>1, <2>3, <4>1
      <4>4. \A e \in S : e.tx = i /\ e.event = j + 1 => e = x
        BY <1>4
      <4>5. \A e \in S : e.tx \in Nat /\ (e.tx = i => e.event \in Nat)
        BY <1>4, <3>1
      <4> HIDE DEF x, event
      <4>6. CASE told
        <5>1. F(j + 1) = F(j) \cup {x}
          <6>1. ASSUME NEW e \in S PROVE e \in F(j + 1) <=> e \in F(j) \/ e = x
            <7>1. CASE e.tx = i
              <8>1. e.event \in Nat /\ (e.event = j + 1 <=> e = x) /\ ~(e.tx <= m)
                BY <4>3, <4>4, <4>5, <7>1
              <8> QED BY <7>1, <8>1
            <7>2. CASE e.tx # i
              <8>1. e # x
                BY <4>3, <7>2
              <8> QED BY <7>2, <8>1
            <7> QED BY <7>1, <7>2
          <6>2. x \in S
            BY <4>3, <4>6
          <6> QED BY <6>1, <6>2
        <5>2. \A e \in F(j) : Before(e, x)
          <6> SUFFICES ASSUME NEW e \in F(j) PROVE Before(e, x)
            OBVIOUS
          <6>1. CASE e \in E(m)
            <7>1. e.tx \in Nat /\ e.tx <= m
              BY <4>5, <6>1
            <7>2. e.tx < x.tx
              BY <4>3, <7>1
            <7> QED BY <7>2 DEF Before
          <6>2. CASE e \in S /\ e.tx = i /\ e.event <= j
            <7>1. e.event \in Nat
              BY <4>5, <6>2
            <7>2. e.event < x.event
              BY <4>3, <6>2, <7>1
            <7> QED BY <4>3, <6>2, <7>2 DEF Before
          <6> QED BY <6>1, <6>2
        <5>3. f[j].notifications \in Seq(Notifications)
          BY <4>1 DEF Caches
        <5>4. NoteOf(x) = NotificationOf(event, i, j + 1)
          BY <4>3 DEF NoteOf
        <5> HIDE DEF F, told
        <5> DEFINE s == f[j].notifications
                   D == F(j)
        <5>5. s \in Seq(Notifications) /\ Tells(s, D) /\ \A e \in D : Before(e, x)
          BY <4>0, <5>2, <5>3
        <5> HIDE DEF s, D
        <5>6. Tells(Append(s, NoteOf(x)), D \cup {x})
          BY <5>5, TellsMore
        <5> QED BY <4>2, <4>6, <5>1, <5>4, <5>6 DEF s, D
      <4>7. CASE ~told
        <5>1. F(j + 1) = F(j)
          <6>1. \A e \in S : ~(e.tx = i /\ e.event = j + 1)
            BY <4>3, <4>4, <4>7
          <6> QED BY <4>5, <6>1
        <5> HIDE DEF F
        <5> QED BY <4>0, <4>2, <4>7, <5>1
      <4> QED BY <4>6, <4>7
    <3> HIDE DEF L
    <3>5. l \in L
      BY <3>1, <3>3, <3>4, Induction
    <3>6. F(l) = E(i)
      BY <1>4, <2>1, <3>1
    <3> HIDE DEF F, E
    <3> QED BY <2>1, <3>1, <3>2, <3>5, <3>6 DEF L
  <2> QED BY <2>2, <2>3
<1> HIDE DEF M
<1>8. n \in M
  BY <1>1, <1>6, <1>7, Induction
<1>9. E(n) = S
  BY <1>1, <1>4
<1>10. Cache[b] = g[n]
  BY <1>2 DEF Cache
<1> HIDE DEF E
<1> QED BY <1>1, <1>8, <1>9, <1>10 DEF M, S

\* The least of some natural numbers.
LEMMA LeastExists ==
  ASSUME NEW S \in SUBSET Nat, S # {} PROVE \E x \in S : \A y \in S : x <= y
<1> DEFINE R == OpToRel(<, Nat)
<1>1. IsWellFoundedOn(R, Nat)
  BY NatLessThanWellFounded
<1> HIDE DEF R
<1>2. PICK x \in S : \A y \in S : ~(<<y, x>> \in R)
  BY <1>1, WFMin
<1>3. \A a, b \in Nat : a < b => <<a, b>> \in R
  BY DEF R, OpToRel
<1>4. ASSUME NEW y \in S PROVE x <= y
  <2>1. ~(y < x)
    BY <1>2, <1>3
  <2>2. x \in Nat /\ y \in Nat
    OBVIOUS
  <2> QED BY <2>1, <2>2
<1> QED BY <1>4

\* Rows with a place on the chain.
Placed(A) == \A n \in A : n.height \in Nat /\ n.tx \in Nat /\ n.event \in Nat

LEMMA LaterIsOrder ==
  ASSUME NEW A, Placed(A)
  PROVE  /\ \A m \in A : ~Later(m, m)
         /\ \A m, n \in A : Later(m, n) => ~Later(n, m)
         /\ \A m, n, k \in A : Later(m, n) /\ Later(n, k) => Later(m, k)
BY DEF Placed, Later

LEMMA EarliestExists ==
  ASSUME NEW A, A # {}, Placed(A) PROVE \E n \in A : \A m \in A : ~Later(n, m)
<1> DEFINE H == {n.height : n \in A}
<1>1. H \in SUBSET Nat /\ H # {}
  BY DEF Placed
<1>2. PICK h \in H : \A y \in H : h <= y
  <2> HIDE DEF H
  <2> QED BY <1>1, LeastExists
<1> DEFINE B == {n \in A : n.height = h}
           T == {n.tx : n \in B}
<1>3. T \in SUBSET Nat /\ T # {}
  BY DEF Placed
<1>4. PICK x \in T : \A y \in T : x <= y
  <2> HIDE DEF T
  <2> QED BY <1>3, LeastExists
<1> DEFINE C == {n \in B : n.tx = x}
           V == {n.event : n \in C}
<1>5. V \in SUBSET Nat /\ V # {}
  BY DEF Placed
<1>6. PICK v \in V : \A y \in V : v <= y
  <2> HIDE DEF V
  <2> QED BY <1>5, LeastExists
<1>7. PICK n \in C : n.event = v
  BY <1>6
<1>8. n \in A /\ n.height = h /\ n.tx = x /\ n.event = v
  BY <1>7
<1>9. ASSUME NEW m \in A PROVE ~Later(n, m)
  <2>1. h <= m.height /\ h \in Nat /\ m.height \in Nat
    BY <1>1, <1>2 DEF Placed
  <2>2. m.height = h => x <= m.tx /\ x \in Nat /\ m.tx \in Nat
    BY <1>3, <1>4 DEF Placed
  <2>3. m.height = h /\ m.tx = x => v <= m.event /\ v \in Nat /\ m.event \in Nat
    BY <1>5, <1>6 DEF Placed
  <2> HIDE DEF H, B, T, C, V
  <2> QED BY <1>8, <2>1, <2>2, <2>3 DEF Later
<1> QED BY <1>8, <1>9

\* Of some rows, those that come after no frozen one.
Frozen(A) == \E m \in A : m.mode = "frozen"
Heard(A) == {n \in A : ~\E m \in A : m.mode = "frozen" /\ Later(n, m)}

\* The one that froze the token is heard, and is the latest.
LEMMA FrozenHeard ==
  ASSUME NEW A, Placed(A)
  PROVE  (\E n \in Latest(Heard(A)) : n.mode = "frozen") <=> Frozen(A)
<1>1. ASSUME Frozen(A) PROVE \E n \in Latest(Heard(A)) : n.mode = "frozen"
  <2> DEFINE F == {m \in A : m.mode = "frozen"}
  <2>1. F # {} /\ Placed(F)
    BY <1>1 DEF Frozen, Placed
  <2>2. PICK f \in F : \A m \in F : ~Later(f, m)
    <3> HIDE DEF F
    <3> QED BY <2>1, EarliestExists
  <2>3. f \in Heard(A) /\ f.mode = "frozen"
    BY <2>2 DEF Heard
  <2>4. \A m \in Heard(A) : ~Later(m, f)
    BY <2>3 DEF Heard
  <2> QED BY <2>3, <2>4 DEF Latest
<1>2. ASSUME NEW n \in Latest(Heard(A)), n.mode = "frozen" PROVE Frozen(A)
  BY <1>2 DEF Latest, Heard, Frozen
<1> QED BY <1>1, <1>2

\* A row after all others is heard unless one of them is frozen.
LEMMA HeardMore ==
  ASSUME NEW A, NEW r, Placed(A \cup {r}), \A n \in A : Later(r, n)
  PROVE  Heard(A \cup {r}) = IF Frozen(A) THEN Heard(A) ELSE Heard(A) \cup {r}
<1>1. ~Later(r, r) /\ \A n \in A : ~Later(n, r)
  BY LaterIsOrder
<1>2. \A n \in A : n \in Heard(A \cup {r}) <=> n \in Heard(A)
  BY <1>1 DEF Heard
<1>3. r \in Heard(A \cup {r}) <=> ~Frozen(A)
  BY <1>1 DEF Heard, Frozen
<1>4. \A n \in Heard(A \cup {r}) : n \in A \/ n = r
  BY DEF Heard
<1>5. r \notin A
  BY <1>1
<1>6. \A n \in Heard(A) : n \in A
  BY DEF Heard
<1> QED BY <1>2, <1>3, <1>4, <1>5, <1>6

-----------------------------------------------------------------------------
(* What a chain says of a token, block by block.                            *)

ModeOf(e) == IF e.what.value.mode \in {Null, ""} THEN "standard" ELSE e.what.value.mode
RowOf(t, height, e) ==
  [token |-> t, height |-> height, tx |-> e.tx, event |-> e.event, mode |-> ModeOf(e)]
RowsAt(t, height, b) == {RowOf(t, height, e) : e \in {x \in Updates[b] : Names(x, t)}}
MintedBelow(c, t, h) == \E i \in 1..(h - 1) : t \in Mints[c[i]]
AllOn(c, t) ==
  UNION {RowsAt(t, Genesis + h, c[h]) : h \in {x \in DOMAIN c : MintedBelow(c, t, x)}}

LEMMA NotedIsHeard ==
  ASSUME NEW c, NEW t PROVE NotedOn(c, t) = Heard(AllOn(c, t))
BY DEF NotedOn, Heard, AllOn, MintedBelow, RowsAt, RowOf, ModeOf

LEMMA UpdatesPlaced ==
  ASSUME NEW b \in Blocks, NEW e \in Updates[b]
  PROVE  e \in EventsOf[b] /\ e.tx \in Nat /\ e.event \in Nat
<1>1. e \in EventsOf[b]
  BY DEF Updates
<1>2. Transactions[b] \in Seq(StacksTransactions)
  BY BlockTyped
<1>3. e.tx \in DOMAIN Transactions[b] /\ e.event \in DOMAIN Transactions[b][e.tx].events
  BY <1>1, EventPlaced
<1>4. e.tx \in Nat /\ Transactions[b][e.tx] \in StacksTransactions
  BY <1>2, <1>3
<1>5. e.event \in Nat
  BY <1>3, <1>4 DEF StacksTransactions
<1> QED BY <1>1, <1>4, <1>5

LEMMA RowsPlaced ==
  ASSUME NEW b \in Blocks, NEW t, NEW h \in Nat
  PROVE  Placed(RowsAt(t, h, b)) /\ \A n \in RowsAt(t, h, b) : n.height = h /\ n.token = t
<1> SUFFICES ASSUME NEW e \in Updates[b]
             PROVE  LET n == RowOf(t, h, e) IN n.height = h /\ n.token = t /\ n.tx \in Nat /\ n.event \in Nat
  BY DEF RowsAt, Placed
<1> QED BY UpdatesPlaced DEF RowOf

LEMMA AllPlaced ==
  ASSUME NEW c \in Seq(Blocks), NEW t
  PROVE  Placed(AllOn(c, t)) /\ \A n \in AllOn(c, t) : n.height < Genesis + Len(c) + 1 /\ n.token = t
<1> SUFFICES ASSUME NEW h \in DOMAIN c, NEW n \in RowsAt(t, Genesis + h, c[h])
             PROVE  /\ n.height \in Nat /\ n.tx \in Nat /\ n.event \in Nat
                    /\ n.height < Genesis + Len(c) + 1 /\ n.token = t
  BY DEF AllOn, Placed
<1>1. c[h] \in Blocks /\ h \in Nat /\ h <= Len(c) /\ Len(c) \in Nat /\ Genesis + h \in Nat
  BY DEF Genesis
<1>2. Placed(RowsAt(t, Genesis + h, c[h])) /\ n.height = Genesis + h /\ n.token = t
  BY <1>1, RowsPlaced
<1> QED BY <1>1, <1>2 DEF Placed, Genesis

\* One block more: what it says of a token that was minted below it.
LEMMA AllOnStep ==
  ASSUME NEW c \in Seq(Blocks), NEW e \in Seq(Blocks), Len(e) = Len(c) + 1,
         \A i \in 1..Len(c) : e[i] = c[i], NEW t
  PROVE  AllOn(e, t) = AllOn(c, t) \cup
           (IF \E i \in DOMAIN c : t \in Mints[c[i]]
            THEN RowsAt(t, Genesis + Len(e), e[Len(e)]) ELSE {})
<1> DEFINE n == Len(c)
           rows(x, h) == RowsAt(t, Genesis + h, x[h])
<1>1. n \in Nat /\ DOMAIN c = 1..n /\ DOMAIN e = 1..(n + 1) /\ Len(e) = n + 1
  OBVIOUS
<1>2. \A h \in 1..n : /\ MintedBelow(e, t, h) <=> MintedBelow(c, t, h)
                      /\ rows(e, h) = rows(c, h)
  <2> SUFFICES ASSUME NEW h \in 1..n
               PROVE  (MintedBelow(e, t, h) <=> MintedBelow(c, t, h)) /\ rows(e, h) = rows(c, h)
    OBVIOUS
  <2>1. \A i \in 1..(h - 1) : e[i] = c[i]
    BY <1>1
  <2> QED BY <2>1 DEF MintedBelow
<1>3. MintedBelow(e, t, n + 1) <=> \E i \in DOMAIN c : t \in Mints[c[i]]
  <2>1. (n + 1) - 1 = n
    BY <1>1
  <2> QED BY <1>1, <2>1 DEF MintedBelow
<1>4. ASSUME NEW m PROVE m \in AllOn(e, t) <=> \E h \in 1..(n + 1) : MintedBelow(e, t, h) /\ m \in rows(e, h)
  BY <1>1 DEF AllOn
<1>5. ASSUME NEW m PROVE m \in AllOn(c, t) <=> \E h \in 1..n : MintedBelow(c, t, h) /\ m \in rows(c, h)
  BY <1>1 DEF AllOn
<1>6. RowsAt(t, Genesis + Len(e), e[Len(e)]) = rows(e, n + 1)
  BY <1>1
<1>7. \A h : h \in 1..(n + 1) <=> h \in 1..n \/ h = n + 1
  BY <1>1
<1> HIDE DEF n, rows
<1>8. ASSUME NEW m
      PROVE  m \in AllOn(e, t) <=> \/ m \in AllOn(c, t)
                                   \/ MintedBelow(e, t, n + 1) /\ m \in rows(e, n + 1)
  BY <1>2, <1>4, <1>5, <1>7
<1> QED BY <1>3, <1>6, <1>8

-----------------------------------------------------------------------------
(* What the statements of a payload do to notifications.                    *)

Reaches(n, t) == ContractOf[t] = n.contract /\ (n.tokens = {} \/ t \in n.tokens)
RowAt(t, height, n) ==
  [token |-> t, height |-> height, tx |-> n.tx, event |-> n.event, mode |-> n.mode]

\* A notification that does not fail adds a row for each token that it reaches and that
\* is not frozen.
LEMMA NotificationNotes ==
  ASSUME NEW d \in Databases, NEW b \in Blocks, NEW n \in Notifications
  PROVE  LET r == ApplyNotification(d, b, n)
             affected == {t \in d.tokens : Reaches(n, t) /\ ~FrozenIn(d, t)}
             rows == {RowAt(t, Height[b], n) : t \in affected}
         IN /\ \A m \in r.notes : m \in d.notes \/ m.token \in d.tokens
            /\ ~r.failed => /\ ~d.failed
                            /\ r.notes = IF n.contract \in d.contracts THEN d.notes \cup rows ELSE d.notes
<1> DEFINE affected == {t \in d.tokens : /\ ContractOf[t] = n.contract
                                         /\ n.tokens = {} \/ t \in n.tokens
                                         /\ ~FrozenIn(d, t)}
           rows == {[token |-> t, height |-> Height[b], tx |-> n.tx, event |-> n.event,
                     mode |-> n.mode] : t \in affected}
           taken == \E x \in rows, m \in d.notes : [m EXCEPT !.mode = x.mode] = x
           fails == n.mode \notin Modes \/ n.tokens \cap Huge # {} \/ taken
           r == ApplyNotification(d, b, n)
<1>1. /\ affected = {t \in d.tokens : Reaches(n, t) /\ ~FrozenIn(d, t)}
      /\ rows = {RowAt(t, Height[b], n) : t \in affected}
  BY DEF Reaches, RowAt
<1>2. \A m \in rows : m.token \in d.tokens
  OBVIOUS
<1>3. \/ r = d /\ n.contract \notin d.contracts
      \/ r = [d EXCEPT !.failed = TRUE]
      \/ r = [d EXCEPT !.notes = d.notes \cup rows, !.pending = d.pending \cup affected]
         /\ n.contract \in d.contracts
  <2>1. r = CASE n.contract \notin d.contracts -> d
              [] n.contract \in d.contracts /\ fails -> [d EXCEPT !.failed = TRUE]
              [] OTHER -> [d EXCEPT !.notes = @ \cup rows, !.pending = @ \cup affected]
    BY DEF ApplyNotification
  <2> HIDE DEF r, rows, affected, fails
  <2> QED BY <2>1 DEF Databases
<1>4. d.failed => r.failed
  BY NotificationApplied
<1> HIDE DEF r, rows, affected
<1>5. \/ r.notes = d.notes /\ n.contract \notin d.contracts
      \/ r.notes = d.notes /\ r.failed
      \/ r.notes = d.notes \cup rows /\ n.contract \in d.contracts
  BY <1>3 DEF Databases
<1>6. /\ \A m \in r.notes : m \in d.notes \/ m.token \in d.tokens
      /\ ~r.failed => /\ ~d.failed
                      /\ r.notes = IF n.contract \in d.contracts THEN d.notes \cup rows ELSE d.notes
  BY <1>2, <1>4, <1>5
<1> QED BY <1>1, <1>6 DEF r

\* The same for one token.
LEMMA NotificationHeard ==
  ASSUME NEW d \in Databases, NEW b \in Blocks, NEW n \in Notifications,
         NEW t \in d.tokens, ContractOf[t] \in d.contracts, ~ApplyNotification(d, b, n).failed
  PROVE  NotesOf(ApplyNotification(d, b, n), t)
           = NotesOf(d, t) \cup (IF Reaches(n, t) /\ ~FrozenIn(d, t) THEN {RowAt(t, Height[b], n)} ELSE {})
<1> DEFINE r == ApplyNotification(d, b, n)
           affected == {x \in d.tokens : Reaches(n, x) /\ ~FrozenIn(d, x)}
           rows == {RowAt(x, Height[b], n) : x \in affected}
<1>1. r.notes = IF n.contract \in d.contracts THEN d.notes \cup rows ELSE d.notes
  BY NotificationNotes
<1>2. {m \in rows : m.token = t} = IF t \in affected THEN {RowAt(t, Height[b], n)} ELSE {}
  BY DEF RowAt
<1>3. t \in affected => n.contract \in d.contracts
  BY DEF Reaches
<1> HIDE DEF r, rows
<1>4. NotesOf(r, t) = NotesOf(d, t) \cup (IF t \in affected THEN {RowAt(t, Height[b], n)} ELSE {})
  <2> HIDE DEF affected
  <2> QED BY <1>1, <1>2, <1>3 DEF NotesOf
<1> QED BY <1>4 DEF r

\* What a block says of a token, notification by notification.
LEMMA RowsTold ==
  ASSUME NEW b \in Blocks, NEW t, NEW h
  PROVE  LET notes == Cache[b].notifications
         IN RowsAt(t, h, b) = {RowAt(t, h, notes[i]) : i \in {x \in DOMAIN notes : Reaches(notes[x], t)}}
<1> DEFINE notes == Cache[b].notifications
           told == {RowAt(t, h, notes[i]) : i \in {x \in DOMAIN notes : Reaches(notes[x], t)}}
<1>1. Tells(notes, Updates[b])
  BY NotificationsOfCache
<1>2. ASSUME NEW e \in Updates[b]
      PROVE  (Names(e, t) <=> Reaches(NoteOf(e), t)) /\ RowOf(t, h, e) = RowAt(t, h, NoteOf(e))
  <2>1. e.what.value.class \in {"ft", "nft"}
    BY DEF Updates
  <2>2. /\ NoteOf(e).contract = e.what.value.contract /\ NoteOf(e).tx = e.tx /\ NoteOf(e).event = e.event
        /\ NoteOf(e).tokens = IF e.what.value.class = "nft" /\ e.what.value.tokens # Null
                              THEN e.what.value.tokens ELSE {}
        /\ NoteOf(e).mode = ModeOf(e)
    BY DEF NoteOf, NotificationOf, ModeOf
  <2> QED BY <2>1, <2>2 DEF Names, Reaches, RowOf, RowAt
<1> HIDE DEF notes
<1>3. ASSUME NEW m \in RowsAt(t, h, b) PROVE m \in told
  <2>1. PICK e \in Updates[b] : Names(e, t) /\ m = RowOf(t, h, e)
    BY DEF RowsAt
  <2>2. PICK i \in DOMAIN notes : notes[i] = NoteOf(e)
    BY <1>1 DEF Tells
  <2> QED BY <1>2, <2>1, <2>2
<1>4. ASSUME NEW m \in told PROVE m \in RowsAt(t, h, b)
  <2>1. PICK i \in DOMAIN notes : Reaches(notes[i], t) /\ m = RowAt(t, h, notes[i])
    OBVIOUS
  <2>2. PICK e \in Updates[b] : notes[i] = NoteOf(e)
    BY <1>1 DEF Tells
  <2> QED BY <1>2, <2>1, <2>2 DEF RowsAt
<1>5. RowsAt(t, h, b) = told
  BY <1>3, <1>4
<1> QED BY <1>5 DEF notes

\* A token that has heard all of some rows, has heard those of the block too when the
\* block has been applied.
LEMMA NotificationsHeard ==
  ASSUME NEW d \in Databases, NEW b \in Blocks, NEW t \in d.tokens, ContractOf[t] \in d.contracts,
         NEW A, Placed(A), \A m \in A : m.height < Height[b], NotesOf(d, t) = Heard(A),
         ~ApplyNotifications(d, b).failed
  PROVE  NotesOf(ApplyNotifications(d, b), t) = Heard(A \cup RowsAt(t, Height[b], b))
<1> DEFINE notes == Cache[b].notifications
           n == Len(notes)
           H == Height[b]
           R(j) == {RowAt(t, H, notes[i]) : i \in {x \in 1..j : Reaches(notes[x], t)}}
<1>1. /\ n \in Nat /\ DOMAIN notes = 1..n /\ \A j \in 1..n : notes[j] \in Notifications
      /\ H \in Nat
  <2>1. notes \in Seq(Notifications)
    BY CacheTyped DEF Caches
  <2>2. H \in Nat
    BY ChainAssumption
  <2> HIDE DEF notes
  <2> QED BY <2>1, <2>2
<1>2. PICK g : /\ g[0] = d /\ ApplyNotifications(d, b) = g[n]
               /\ \A j \in 1..n : g[j] = ApplyNotification(g[j - 1], b, notes[j])
               /\ \A j \in 0..n : g[j] \in Databases /\ Index(g[j]) = Index(d)
  <2> HIDE DEF n
  <2>1. \E g : /\ g[0] = d /\ ApplyNotifications(d, b) = g[n]
               /\ \A j \in 1..n : g[j] = ApplyNotification(g[j - 1], b, notes[j])
               /\ \A j \in 0..n : /\ g[j] \in Databases /\ Index(g[j]) = Index(d)
                                  /\ (d.failed => g[j].failed)
                                  /\ Milder(d, g[j])
    BY NotificationsInTurn DEF n
  <2> QED BY <2>1
<1>3. \A i, j \in 1..n : i < j => Before(notes[i], notes[j])
  <2>1. Tells(notes, Updates[b])
    BY NotificationsOfCache
  <2> QED BY <1>1, <2>1 DEF Tells
<1>4. RowsAt(t, H, b) = R(n)
  BY <1>1, RowsTold
<1> HIDE DEF notes, n, H
<1>5. \A j \in 1..n : /\ RowAt(t, H, notes[j]).height = H
                      /\ RowAt(t, H, notes[j]).tx = notes[j].tx /\ notes[j].tx \in Nat
                      /\ RowAt(t, H, notes[j]).event = notes[j].event /\ notes[j].event \in Nat
  BY <1>1 DEF RowAt, Notifications
<1> DEFINE P == {j \in Nat : j <= n /\ ~g[j].failed => NotesOf(g[j], t) = Heard(A \cup R(j))}
<1>6. 0 \in P
  <2>1. R(0) = {}
    OBVIOUS
  <2>2. A \cup R(0) = A
    BY <2>1
  <2> HIDE DEF R
  <2> QED BY <1>2, <2>2
<1>7. ASSUME NEW j \in Nat, j \in P PROVE j + 1 \in P
  <2> HIDE DEF R
  <2> SUFFICES ASSUME j + 1 <= n, ~g[j + 1].failed
               PROVE  NotesOf(g[j + 1], t) = Heard(A \cup R(j + 1))
    OBVIOUS
  <2> DEFINE x == notes[j + 1]
             r == RowAt(t, H, x)
  <2>1. /\ j \in 0..n /\ j + 1 \in 1..n /\ (j + 1) - 1 = j /\ j <= n /\ x \in Notifications
    BY <1>1
  <2>2. g[j] \in Databases /\ g[j + 1] = ApplyNotification(g[j], b, x) /\ Index(g[j]) = Index(d)
    BY <1>2, <2>1
  <2>3. t \in g[j].tokens /\ ContractOf[t] \in g[j].contracts
    BY <2>2 DEF Index
  <2>4. ~g[j].failed
    BY <2>1, <2>2, NotificationApplied
  <2>5. NotesOf(g[j], t) = Heard(A \cup R(j))
    BY <1>7, <2>1, <2>4
  <2>6. NotesOf(g[j + 1], t)
          = NotesOf(g[j], t) \cup (IF Reaches(x, t) /\ ~FrozenIn(g[j], t) THEN {r} ELSE {})
    <3> HIDE DEF x
    <3> QED BY <2>1, <2>2, <2>3, NotificationHeard DEF H
  <2> DEFINE B == A \cup R(j)
  <2>7. /\ Placed(B) /\ Placed(B \cup {r}) /\ \A m \in B : Later(r, m)
    <3>1. ASSUME NEW m \in R(j) PROVE m.height \in Nat /\ m.tx \in Nat /\ m.event \in Nat /\ Later(r, m)
      <4>1. PICK i \in 1..j : m = RowAt(t, H, notes[i])
        BY DEF R
      <4>2. i \in 1..n /\ i < j + 1
        BY <1>1, <2>1
      <4>3. Before(notes[i], x)
        BY <1>3, <2>1, <4>2
      <4>4. /\ m.height = H /\ m.tx = notes[i].tx /\ m.event = notes[i].event
            /\ m.tx \in Nat /\ m.event \in Nat
        BY <1>5, <4>1, <4>2
      <4>5. r.height = H /\ r.tx = x.tx /\ r.event = x.event /\ r.tx \in Nat /\ r.event \in Nat
        BY <1>5, <2>1
      <4> HIDE DEF r, x
      <4> QED BY <1>1, <4>3, <4>4, <4>5 DEF Before, Later
    <3>2. ASSUME NEW m \in A PROVE Later(r, m)
      <4>1. m.height < H /\ m.height \in Nat /\ r.height = H
        BY <1>5, <2>1 DEF H, Placed
      <4> HIDE DEF r
      <4> QED BY <1>1, <4>1 DEF Later
    <3>3. r.height \in Nat /\ r.tx \in Nat /\ r.event \in Nat
      BY <1>1, <1>5, <2>1
    <3> HIDE DEF r
    <3> QED BY <3>1, <3>2, <3>3 DEF Placed
  <2>8. FrozenIn(g[j], t) <=> Frozen(B)
    <3> HIDE DEF B
    <3>1. (\E m \in Latest(Heard(B)) : m.mode = "frozen") <=> Frozen(B)
      BY <2>7, FrozenHeard
    <3> QED BY <2>5, <3>1 DEF FrozenIn, B
  <2>9. Heard(B \cup {r}) = IF Frozen(B) THEN Heard(B) ELSE Heard(B) \cup {r}
    <3> HIDE DEF B, r
    <3> QED BY <2>7, HeardMore
  <2>10. R(j + 1) = IF Reaches(x, t) THEN R(j) \cup {r} ELSE R(j)
    <3>1. \A i : i \in 1..(j + 1) <=> i \in 1..j \/ i = j + 1
      BY <2>1
    <3>2. ASSUME NEW m PROVE m \in R(j + 1) <=> m \in R(j) \/ (Reaches(x, t) /\ m = r)
      BY <3>1 DEF R
    <3> HIDE DEF r, x
    <3> QED BY <3>2
  <2>11. A \cup R(j + 1) = IF Reaches(x, t) THEN B \cup {r} ELSE B
    BY <2>10
  <2> HIDE DEF B, r, x
  <2> QED BY <2>5, <2>6, <2>8, <2>9, <2>11 DEF B
<1> HIDE DEF P
<1>8. n \in P
  BY <1>1, <1>6, <1>7, Induction
<1> HIDE DEF R
<1> QED BY <1>1, <1>2, <1>4, <1>8 DEF P, H

\* A notification is of a token that is there.
NotesOwned(d) == \A n \in d.notes : n.token \in d.tokens

LEMMA NotificationsOwned ==
  ASSUME NEW d \in Databases, NEW b \in Blocks
  PROVE  \A m \in ApplyNotifications(d, b).notes : m \in d.notes \/ m.token \in d.tokens
<1> DEFINE notes == Cache[b].notifications
           n == Len(notes)
<1>1. n \in Nat /\ \A j \in 1..n : notes[j] \in Notifications
  <2>1. notes \in Seq(Notifications)
    BY CacheTyped DEF Caches
  <2> HIDE DEF notes
  <2> QED BY <2>1
<1>2. PICK g : /\ g[0] = d /\ ApplyNotifications(d, b) = g[n]
               /\ \A j \in 1..n : g[j] = ApplyNotification(g[j - 1], b, notes[j])
               /\ \A j \in 0..n : g[j] \in Databases /\ Index(g[j]) = Index(d)
  <2> HIDE DEF n
  <2>1. \E g : /\ g[0] = d /\ ApplyNotifications(d, b) = g[n]
               /\ \A j \in 1..n : g[j] = ApplyNotification(g[j - 1], b, notes[j])
               /\ \A j \in 0..n : /\ g[j] \in Databases /\ Index(g[j]) = Index(d)
                                  /\ (d.failed => g[j].failed)
                                  /\ Milder(d, g[j])
    BY NotificationsInTurn DEF n
  <2> QED BY <2>1
<1> HIDE DEF notes, n
<1> DEFINE Ours(m) == m \in d.notes \/ m.token \in d.tokens
           P == {j \in Nat : j <= n => \A m \in g[j].notes : Ours(m)}
<1>3. 0 \in P
  BY <1>2
<1>4. ASSUME NEW j \in Nat, j \in P PROVE j + 1 \in P
  <2> SUFFICES ASSUME j + 1 <= n, NEW m \in g[j + 1].notes PROVE Ours(m)
    OBVIOUS
  <2>1. /\ j \in 0..n /\ j + 1 \in 1..n /\ (j + 1) - 1 = j /\ j <= n /\ notes[j + 1] \in Notifications
    BY <1>1
  <2>2. g[j] \in Databases /\ g[j + 1] = ApplyNotification(g[j], b, notes[j + 1]) /\ Index(g[j]) = Index(d)
    BY <1>2, <2>1
  <2>3. m \in g[j].notes \/ m.token \in g[j].tokens
    BY <2>1, <2>2, NotificationNotes
  <2>4. g[j].tokens = d.tokens
    BY <2>2 DEF Index
  <2> QED BY <1>4, <2>1, <2>3, <2>4
<1> HIDE DEF P
<1>5. n \in P
  BY <1>1, <1>3, <1>4, Induction
<1> QED BY <1>1, <1>2, <1>5 DEF P

\* Supplies and deployments leave notifications alone.
LEMMA SupplyLeavesNotes ==
  ASSUME NEW d \in Databases, NEW b \in Blocks, NEW sign
  PROVE  ChangeSupply(d, b, sign).notes = d.notes
BY DEF ChangeSupply, Databases

LEMMA DeploymentsLeaveNotes ==
  ASSUME NEW d \in Databases, NEW b \in Blocks
  PROVE  LET r == ApplyDeployments(d, b)
         IN /\ r \in Databases /\ r.notes = d.notes /\ r.tokens = d.tokens /\ r.failed = d.failed
            /\ d.contracts \subseteq r.contracts
<1> DEFINE new == Cache[b].contracts
           e == EnqueueContracts(d, new)
           r == [e EXCEPT !.imported = e.imported \ new]
<1>1. new \in SUBSET Contracts
  BY CacheTyped DEF Caches
<1>2. /\ e \in Databases /\ e.failed = d.failed /\ e.tokens = d.tokens
      /\ e.contracts = d.contracts \cup new
  BY <1>1, ContractsEnqueued DEF Index
<1>3. e.notes = d.notes
  BY DEF EnqueueContracts, Databases
<1>4. ApplyDeployments(d, b) = r
  BY DEF ApplyDeployments
<1> HIDE DEF e, new
<1>5. r \in Databases
  BY <1>2 DEF Databases
<1>6. /\ r.notes = e.notes /\ r.tokens = e.tokens /\ r.failed = e.failed /\ r.contracts = e.contracts
  BY <1>2 DEF Databases
<1> HIDE DEF r
<1> QED BY <1>2, <1>3, <1>4, <1>5, <1>6

LEMMA MintsLeaveNotes ==
  ASSUME NEW d \in Databases, NEW b \in Blocks
  PROVE  ApplyMints(d, b).notes = d.notes /\ d.tokens \subseteq ApplyMints(d, b).tokens
<1> DEFINE known == {t \in Cache[b].nftMints \cup Cache[b].sftMints : ContractOf[t] \in d.contracts}
<1>1. CASE ApplyMints(d, b) = [d EXCEPT !.failed = TRUE]
  BY <1>1 DEF Databases
<1>2. CASE ApplyMints(d, b) = InsertTokens(d, known)
  <2> HIDE DEF known
  <2> QED BY <1>2 DEF InsertTokens, Databases
<1> QED BY <1>1, <1>2 DEF ApplyMints

LEMMA DynamicLeavesNotes ==
  ASSUME NEW d \in Databases PROVE EnqueueDynamicTokens(d).notes = d.notes
BY DEF EnqueueDynamicTokens, Databases

\* What a block that is applied does to the notifications of each token.
LEMMA NotesApplied ==
  ASSUME NEW d \in Databases, NEW b \in Blocks, NotesOwned(d)
  PROVE  LET r == ApplyTransactions(d, b)
         IN /\ NotesOwned(r)
            /\ \A t \in r.tokens \ d.tokens : NotesOf(r, t) = {}
            /\ ~r.failed => \A t \in d.tokens : ContractOf[t] \in d.contracts =>
                 \A A : Placed(A) /\ (\A m \in A : m.height < Height[b]) /\ NotesOf(d, t) = Heard(A)
                          => NotesOf(r, t) = Heard(A \cup RowsAt(t, Height[b], b))
<1> DEFINE d1 == ApplyDeployments(d, b)
           d2 == ApplyNotifications(d1, b)
           d3 == ApplyMints(d2, b)
           r == ChangeSupply(d3, b, 1)
<1>1. ApplyTransactions(d, b) = r
  BY DEF ApplyTransactions
<1>2. /\ d1 \in Databases /\ d1.notes = d.notes /\ d1.tokens = d.tokens /\ d1.failed = d.failed
      /\ d.contracts \subseteq d1.contracts
  BY DeploymentsLeaveNotes
<1> HIDE DEF d1
<1>3. d2 \in Databases /\ d2.tokens = d1.tokens /\ \A m \in d2.notes : m \in d1.notes \/ m.token \in d1.tokens
  BY <1>2, NotificationsApplied, NotificationsOwned DEF Index
<1> HIDE DEF d2
<1>4. d3 \in Databases /\ d3.notes = d2.notes /\ d2.tokens \subseteq d3.tokens /\ (d2.failed => d3.failed)
  BY <1>3, MintsApplied, MintsLeaveNotes
<1> HIDE DEF d3
<1>5. r.notes = d3.notes /\ r.tokens = d3.tokens /\ r.failed = d3.failed
  <2>1. 1 \in Int
    OBVIOUS
  <2> QED BY <1>4, <2>1, SupplyLeavesNotes, SupplyChanged DEF Index
<1> HIDE DEF r
<1>6. \A m \in r.notes : m.token \in d.tokens
  BY <1>2, <1>3, <1>4, <1>5 DEF NotesOwned
<1>7. NotesOwned(r)
  BY <1>2, <1>3, <1>4, <1>5, <1>6 DEF NotesOwned
<1>8. \A t \in r.tokens \ d.tokens : NotesOf(r, t) = {}
  BY <1>6 DEF NotesOf
<1>9. ASSUME ~r.failed, NEW t \in d.tokens, ContractOf[t] \in d.contracts, NEW A, Placed(A),
             \A m \in A : m.height < Height[b], NotesOf(d, t) = Heard(A)
      PROVE  NotesOf(r, t) = Heard(A \cup RowsAt(t, Height[b], b))
  <2>1. ~d2.failed /\ t \in d1.tokens /\ ContractOf[t] \in d1.contracts
    BY <1>2, <1>4, <1>5, <1>9
  <2>2. NotesOf(d1, t) = Heard(A)
    BY <1>2, <1>9 DEF NotesOf
  <2>3. NotesOf(d2, t) = Heard(A \cup RowsAt(t, Height[b], b))
    BY <1>2, <1>9, <2>1, <2>2, NotificationsHeard DEF d2
  <2>4. NotesOf(r, t) = NotesOf(d2, t)
    BY <1>4, <1>5 DEF NotesOf
  <2> QED BY <2>3, <2>4
<1> QED BY <1>1, <1>7, <1>8, <1>9

\* A block that is rolled back takes the notifications at its positions.
Undone(m, b) ==
  \E n \in ToSet(Cache[b].notifications) : m.height = Height[b] /\ m.tx = n.tx /\ m.event = n.event

LEMMA NotesRolledBack ==
  ASSUME NEW d \in Databases, NEW b \in Blocks, NotesOwned(d)
  PROVE  LET r == RollBackTransactions(d, b)
         IN /\ NotesOwned(r)
            /\ \A t \in r.tokens : NotesOf(r, t) = {m \in NotesOf(d, t) : ~Undone(m, b)}
<1> DEFINE gone == Cache[b].contracts
           theirs == {t \in d.tokens : ContractOf[t] \in gone}
           d0 == DeleteTokens(d, theirs)
           d1 == RollBackDeployments(d, b)
           d2 == RollBackNotifications(d1, b)
           d3 == RollBackMints(d2, b)
           r == ChangeSupply(d3, b, -1)
<1>1. /\ d0 \in Databases /\ d0.tokens = d.tokens \ theirs
  BY DeletedTyped DEF Index
<1>2. d0.notes = {m \in d.notes : m.token \notin theirs}
  <2> HIDE DEF theirs
  <2> QED BY DEF DeleteTokens, Databases
<1>3. d1 = [d0 EXCEPT !.contracts = d0.contracts \ gone, !.importDue = d0.importDue \ gone,
                      !.imported = d0.imported \ gone]
  BY <1>1 DEF RollBackDeployments, Databases
<1> HIDE DEF d0, theirs, gone, d1
<1>4. d1 \in Databases /\ d1.notes = d0.notes /\ d1.tokens = d0.tokens
  <2> DEFINE q == [d0 EXCEPT !.contracts = d0.contracts \ gone, !.importDue = d0.importDue \ gone,
                             !.imported = d0.imported \ gone]
  <2>1. q \in Databases
    BY <1>1 DEF Databases
  <2>2. q.notes = d0.notes /\ q.tokens = d0.tokens
    BY <1>1 DEF Databases
  <2> HIDE DEF q
  <2> QED BY <1>3, <2>1, <2>2 DEF q
<1>5. d2 \in Databases /\ d2.notes = {m \in d1.notes : ~Undone(m, b)} /\ d2.tokens = d1.tokens
  BY <1>4 DEF RollBackNotifications, Databases, Undone
<1> HIDE DEF d2
<1>6. d3 \in Databases /\ d3.tokens = d2.tokens \ Mints[b]
  BY <1>5, MintedInOne, DeletedTyped DEF RollBackMints, Index
<1>7. d3.notes = {m \in d2.notes : m.token \notin Mints[b]}
  <2>1. d3 = DeleteTokens(d2, Mints[b])
    BY MintedInOne DEF RollBackMints
  <2> HIDE DEF d3
  <2> QED BY <1>5, <2>1 DEF DeleteTokens, Databases
<1> HIDE DEF d3
<1>8. r.notes = d3.notes /\ r.tokens = d3.tokens
  <2>1. -1 \in Int
    OBVIOUS
  <2> QED BY <1>6, <2>1, SupplyLeavesNotes, SupplyChanged DEF Index
<1>9. RollBackTransactions(d, b) = r
  BY DEF RollBackTransactions, d3, d2, d1
<1> HIDE DEF r
<1>10. /\ r.tokens = (d.tokens \ theirs) \ Mints[b]
       /\ r.notes = {m \in d.notes : m.token \notin theirs /\ m.token \notin Mints[b] /\ ~Undone(m, b)}
  BY <1>1, <1>2, <1>4, <1>5, <1>6, <1>7, <1>8
<1>11. NotesOwned(r)
  BY <1>10 DEF NotesOwned
<1>12. \A t \in r.tokens : NotesOf(r, t) = {m \in NotesOf(d, t) : ~Undone(m, b)}
  BY <1>10 DEF NotesOf
<1> QED BY <1>9, <1>11, <1>12

\* And those are what the block said of the token.
LEMMA UndoneUnheard ==
  ASSUME NEW b \in Blocks, NEW t, NEW A, Placed(A), \A m \in A : m.height < Height[b],
         NEW R \in SUBSET RowsAt(t, Height[b], b)
  PROVE  \A m : m \in Heard(A \cup R) /\ ~Undone(m, b) <=> m \in Heard(A)
<1> DEFINE H == Height[b]
<1>1. H \in Nat
  BY ChainAssumption
<1> HIDE DEF H
<1>2. Placed(RowsAt(t, H, b)) /\ \A m \in RowsAt(t, H, b) : m.height = H
  BY <1>1, RowsPlaced
<1>3. Placed(A \cup R) /\ (\A m \in A : m.height < H) /\ \A m \in R : m.height = H
  BY <1>2 DEF Placed, H
<1>4. \A n \in A, m \in R : ~Later(n, m)
  BY <1>1, <1>3 DEF Placed, Later
<1>5. ASSUME NEW m \in R PROVE Undone(m, b)
  <2> DEFINE notes == Cache[b].notifications
  <2>1. m \in {RowAt(t, H, notes[i]) : i \in {x \in DOMAIN notes : Reaches(notes[x], t)}}
    BY RowsTold DEF H
  <2>2. PICK i \in DOMAIN notes : m = RowAt(t, H, notes[i])
    BY <2>1
  <2> HIDE DEF notes
  <2>3. notes[i] \in ToSet(notes)
    BY DEF ToSet
  <2>4. m.height = H /\ m.tx = notes[i].tx /\ m.event = notes[i].event
    BY <2>2 DEF RowAt
  <2> QED BY <2>3, <2>4 DEF Undone, notes, H
<1>6. ASSUME NEW m \in A PROVE ~Undone(m, b)
  BY <1>1, <1>3 DEF Undone, H, Placed
<1> QED BY <1>4, <1>5, <1>6 DEF Heard

\* The tokens of a database of this chain are minted on it, and have the notifications
\* that it sends them.
NotesExact(d, c) ==
  /\ \A t \in d.tokens \ d.early : \E b \in ToSet(c) : t \in TokenMints(b)
  /\ \A t \in d.tokens \ (d.early \cup d.dropped) : NotesOf(d, t) = NotedOn(c, t)

\* What one block more says of a token that is minted below it.
LEMMA AllStep ==
  ASSUME NEW c \in Seq(Blocks), NEW e \in Seq(Blocks), Len(e) = Len(c) + 1,
         \A i \in 1..Len(c) : e[i] = c[i], NEW b \in Blocks, b = e[Len(e)], Height[b] = Genesis + Len(e),
         NEW t, \E x \in ToSet(c) : t \in TokenMints(x)
  PROVE  /\ AllOn(e, t) = AllOn(c, t) \cup RowsAt(t, Height[b], b)
         /\ Placed(AllOn(c, t)) /\ \A m \in AllOn(c, t) : m.height < Height[b]
<1>1. \E i \in DOMAIN c : t \in Mints[c[i]]
  BY DEF ToSet, TokenMints
<1>2. AllOn(e, t) = AllOn(c, t) \cup RowsAt(t, Height[b], b)
  BY <1>1, AllOnStep
<1>3. Height[b] = Genesis + Len(c) + 1
  BY DEF Genesis
<1>4. Placed(AllOn(c, t)) /\ \A m \in AllOn(c, t) : m.height < Height[b]
  BY <1>3, AllPlaced
<1> QED BY <1>2, <1>4

LEMMA NotesExactRolledBack ==
  ASSUME NEW d \in Databases, NotesOwned(d), NEW c \in Seq(Blocks), NEW e \in Seq(Blocks),
         NotesExact(d, e), Len(e) = Len(c) + 1, \A i \in 1..Len(c) : e[i] = c[i],
         NEW b \in Blocks, b = e[Len(e)], Height[b] = Genesis + Len(e),
         NEW target \in Chains \cup {<<>>}, Begins(c, target),
         NEW B \in SUBSET Blocks, ToSet(c) \subseteq B,
         NEW r, r.notes = RollBackTransactions(d, b).notes,
         r.tokens = RollBackTransactions(d, b).tokens, r.early = RollBackTransactions(d, b).early,
         r.dropped = (d.dropped \cup Mints[b]) \cap MintedIn(B)
  PROVE  NotesOwned(r) /\ NotesExact(r, c)
<1>0. ASSUME NEW t, \E x \in ToSet(c) : t \in TokenMints(x)
      PROVE  /\ NotedOn(c, t) = Heard(AllOn(c, t))
             /\ NotedOn(e, t) = Heard(AllOn(c, t) \cup RowsAt(t, Height[b], b))
             /\ Placed(AllOn(c, t)) /\ \A m \in AllOn(c, t) : m.height < Height[b]
  <2>1. AllOn(e, t) = AllOn(c, t) \cup RowsAt(t, Height[b], b)
    <3>1. \E i \in DOMAIN c : t \in Mints[c[i]]
      BY <1>0 DEF ToSet, TokenMints
    <3> QED BY <3>1, AllOnStep
  <2>2. Placed(AllOn(c, t)) /\ \A m \in AllOn(c, t) : m.height < Height[b]
    BY <1>0, AllStep
  <2> QED BY <2>1, <2>2, NotedIsHeard
<1> DEFINE q == RollBackTransactions(d, b)
<1>1. /\ q.tokens = {t \in d.tokens : ContractOf[t] \notin Cache[b].contracts /\ t \notin Mints[b]}
      /\ q.tokens \cap d.early \subseteq q.early
  BY BlockRolledBack
<1>2. NotesOwned(q) /\ \A t \in q.tokens : NotesOf(q, t) = {m \in NotesOf(d, t) : ~Undone(m, b)}
  BY NotesRolledBack
<1> HIDE DEF q
<1>3. r.notes = q.notes /\ r.tokens = q.tokens /\ r.early = q.early
  BY DEF q
<1>4. NotesOwned(r)
  BY <1>2, <1>3 DEF NotesOwned
<1>5. ASSUME NEW t \in r.tokens \ r.early
      PROVE  t \in d.tokens \ d.early /\ t \notin Mints[b] /\ \E x \in ToSet(c) : t \in TokenMints(x)
  <2>1. t \in d.tokens \ d.early /\ t \notin Mints[b]
    BY <1>1, <1>3
  <2>2. PICK x \in ToSet(e) : t \in TokenMints(x)
    BY <2>1 DEF NotesExact
  <2>3. PICK i \in DOMAIN e : x = e[i]
    BY <2>2 DEF ToSet
  <2>4. i # Len(e)
    BY <2>1, <2>2, <2>3 DEF TokenMints
  <2>5. i \in DOMAIN c /\ e[i] = c[i]
    <3>1. Len(c) \in Nat /\ DOMAIN e = 1..(Len(c) + 1) /\ DOMAIN c = 1..Len(c)
      OBVIOUS
    <3> QED BY <2>3, <2>4, <3>1
  <2> QED BY <2>1, <2>2, <2>3, <2>5 DEF ToSet
<1>6. ASSUME NEW t \in r.tokens \ (r.early \cup r.dropped) PROVE NotesOf(r, t) = NotedOn(c, t)
  <2>1. t \in d.tokens \ d.early /\ t \in q.tokens /\ \E x \in ToSet(c) : t \in TokenMints(x)
    BY <1>3, <1>5
  <2>2. t \notin d.dropped
    <3>1. t \in MintedIn(ToSet(c))
      BY <2>1, MintedOnChain DEF MintedOn
    <3>2. ToSet(c) \in SUBSET Blocks
      BY DEF ToSet
    <3>3. t \in MintedIn(B)
      BY <3>1, <3>2, MintedInMany
    <3> QED BY <3>3
  <2>3. NotesOf(d, t) = NotedOn(e, t)
    BY <2>1, <2>2 DEF NotesExact
  <2> DEFINE A == AllOn(c, t)
             R == RowsAt(t, Height[b], b)
  <2>4. /\ NotedOn(c, t) = Heard(A) /\ NotedOn(e, t) = Heard(A \cup R)
        /\ Placed(A) /\ \A m \in A : m.height < Height[b]
    BY <1>0, <2>1
  <2>5. \A m : m \in Heard(A \cup R) /\ ~Undone(m, b) <=> m \in Heard(A)
    <3> HIDE DEF A
    <3>1. R \in SUBSET RowsAt(t, Height[b], b)
      OBVIOUS
    <3> HIDE DEF R
    <3> QED BY <2>4, <3>1, UndoneUnheard
  <2>6. NotesOf(r, t) = {m \in NotesOf(d, t) : ~Undone(m, b)}
    BY <1>2, <1>3, <2>1 DEF NotesOf
  <2>7. \A m : m \in NotesOf(r, t) <=> m \in Heard(A)
    BY <2>3, <2>4, <2>5, <2>6
  <2> QED BY <2>4, <2>7 DEF Heard, NotesOf
<1> QED BY <1>4, <1>5, <1>6 DEF NotesExact

LEMMA NotesExactApplied ==
  ASSUME NEW d \in Databases, NotesOwned(d), Owns(d), d.contracts \subseteq TokenContracts,
         NEW c \in Seq(Blocks), NEW e \in Seq(Blocks),
         NotesExact(d, c), Lower(d, ToSet(c)), Len(e) = Len(c) + 1, \A i \in 1..Len(c) : e[i] = c[i],
         NEW b \in Blocks, b = e[Len(e)], Height[b] = Genesis + Len(e),
         ~ApplyTransactions(d, b).failed
  PROVE  NotesExact(ApplyTransactions(d, b), e)
<1>0. ASSUME NEW t, \E x \in ToSet(c) : t \in TokenMints(x)
      PROVE  /\ NotedOn(c, t) = Heard(AllOn(c, t))
             /\ NotedOn(e, t) = Heard(AllOn(c, t) \cup RowsAt(t, Height[b], b))
             /\ Placed(AllOn(c, t)) /\ \A m \in AllOn(c, t) : m.height < Height[b]
  <2>1. AllOn(e, t) = AllOn(c, t) \cup RowsAt(t, Height[b], b)
    <3>1. \E i \in DOMAIN c : t \in Mints[c[i]]
      BY <1>0 DEF ToSet, TokenMints
    <3> QED BY <3>1, AllOnStep
  <2>2. Placed(AllOn(c, t)) /\ \A m \in AllOn(c, t) : m.height < Height[b]
    BY <1>0, AllStep
  <2> QED BY <2>1, <2>2, NotedIsHeard
<1> DEFINE r == ApplyTransactions(d, b)
<1>1. /\ r.early = d.early /\ r.dropped = d.dropped
      /\ r.contracts = d.contracts \cup Cache[b].contracts
      /\ r.tokens = d.tokens \cup {t \in Mints[b] : ContractOf[t] \in r.contracts}
  BY BlockApplied
<1>2. /\ \A t \in r.tokens \ d.tokens : NotesOf(r, t) = {}
      /\ \A t \in d.tokens : ContractOf[t] \in d.contracts =>
           \A A : Placed(A) /\ (\A m \in A : m.height < Height[b]) /\ NotesOf(d, t) = Heard(A)
                    => NotesOf(r, t) = Heard(A \cup RowsAt(t, Height[b], b))
  BY NotesApplied
<1> HIDE DEF r
<1>3. r.contracts \subseteq TokenContracts
  BY <1>1, ContractsTyped
<1>4. /\ Len(c) \in Nat /\ DOMAIN c = 1..Len(c) /\ DOMAIN e = 1..(Len(c) + 1)
      /\ b \in ToSet(e) /\ ToSet(c) \subseteq ToSet(e)
  BY DEF ToSet
<1>5. ASSUME NEW t \in r.tokens \ r.early PROVE \E x \in ToSet(e) : t \in TokenMints(x)
  <2>1. CASE t \in d.tokens
    BY <1>1, <1>4, <2>1 DEF NotesExact
  <2>2. CASE t \notin d.tokens
    BY <1>1, <1>3, <1>4, <2>2 DEF TokenMints
  <2> QED BY <2>1, <2>2
<1>6. ASSUME NEW t \in r.tokens \ (r.early \cup r.dropped) PROVE NotesOf(r, t) = NotedOn(e, t)
  <2>1. CASE t \in d.tokens
    <3>1. /\ ContractOf[t] \in d.contracts /\ NotesOf(d, t) = NotedOn(c, t)
          /\ \E x \in ToSet(c) : t \in TokenMints(x)
      BY <1>1, <2>1 DEF Owns, NotesExact
    <3> DEFINE A == AllOn(c, t)
    <3>2. /\ NotedOn(c, t) = Heard(A) /\ NotedOn(e, t) = Heard(A \cup RowsAt(t, Height[b], b))
          /\ Placed(A) /\ \A m \in A : m.height < Height[b]
      BY <1>0, <3>1
    <3> HIDE DEF A
    <3> QED BY <1>2, <2>1, <3>1, <3>2
  <2>2. CASE t \notin d.tokens
    <3>1. t \in Mints[b] /\ ContractOf[t] \in TokenContracts /\ t \notin d.dropped
      BY <1>1, <1>3, <2>2
    <3>2. ASSUME NEW i \in DOMAIN c PROVE t \notin Mints[c[i]]
      BY <2>2, <3>1 DEF Lower, TokenMints, ToSet
    <3>3. \A h \in DOMAIN e : ~MintedBelow(e, t, h)
      <4> SUFFICES ASSUME NEW h \in DOMAIN e, NEW i \in 1..(h - 1) PROVE t \notin Mints[e[i]]
        BY DEF MintedBelow
      <4>1. i \in 1..Len(c)
        BY <1>4
      <4> QED BY <1>4, <3>2, <4>1
    <3>4. AllOn(e, t) = {}
      BY <3>3 DEF AllOn
    <3>5. NotedOn(e, t) = {}
      BY <3>4, NotedIsHeard DEF Heard
    <3> QED BY <1>2, <2>2, <3>5
  <2> QED BY <2>1, <2>2
<1> QED BY <1>5, <1>6 DEF NotesExact, r

-----------------------------------------------------------------------------
(* The notifications.                                                       *)

NotesOK ==
  ~diverged /\ ~resent =>
    /\ phase # "none" => NotesExact(saved.db, saved.chain)
    /\ phase = "rollback" => NotesExact(db, SubSeq(chain, 1, Len(chain) + 1 - pos))
    /\ phase # "rollback" /\ ~db.failed => NotesExact(db, chain)

NotesInv == NotesOwned(db) /\ (phase # "none" => NotesOwned(saved.db)) /\ NotesOK

\* Rows with the same tokens and notifications.
LEMMA SameNotes ==
  ASSUME NEW d, NEW r, r.notes = d.notes, r.tokens = d.tokens, r.early = d.early, r.dropped = d.dropped
  PROVE  /\ NotesOwned(d) => NotesOwned(r)
         /\ \A c : NotesExact(d, c) => NotesExact(r, c)
BY DEF NotesOwned, NotesExact, NotesOf

LEMMA InitNotes == Init => NotesInv
<1> SUFFICES ASSUME Init PROVE NotesInv
  OBVIOUS
<1>1. phase = "none" /\ db.tokens = {} /\ db.notes = {}
  BY DEF Init, EmptyDatabase
<1> QED BY <1>1 DEF NotesInv, NotesOwned, NotesOK, NotesExact

\* The node moves, a payload is made, or the admin looks a contract up.
LEMMA NodeStepNotes ==
  ASSUME NotesInv, UNCHANGED <<phase, pos, saved, db, chain, resent>>, ~diverged' => ~diverged
  PROVE  NotesInv'
<1>1. NotesOwned(db)' /\ (phase # "none" => NotesOwned(saved.db))'
  BY DEF NotesInv, NotesOwned
<1>2. NotesOK'
  BY DEF NotesInv, NotesOK, NotesExact
<1> QED BY <1>1, <1>2 DEF NotesInv

\* A job writes, between two payloads.
LEMMA JobStepNotes ==
  ASSUME IInv, NotesInv, phase = "none", UNCHANGED <<phase, chain, resent, diverged>>,
         NotesOwned(db'), ~diverged /\ NotesExact(db, chain) => NotesExact(db', chain)
  PROVE  NotesInv'
<1>1. ~db.failed
  BY DEF IInv, TipOK
<1>2. NotesOK'
  BY <1>1 DEF NotesInv, NotesOK
<1> QED BY <1>2 DEF NotesInv

\* And leaves the tokens and their notifications alone.
LEMMA SameJobStepNotes ==
  ASSUME IInv, NotesInv, phase = "none", UNCHANGED <<phase, chain, resent, diverged>>,
         db'.notes = db.notes, db'.tokens = db.tokens, db'.early = db.early, db'.dropped = db.dropped
  PROVE  NotesInv'
<1>1. NotesOwned(db') /\ (NotesExact(db, chain) => NotesExact(db', chain))
  BY SameNotes DEF NotesInv
<1> QED BY <1>1, JobStepNotes

LEMMA SmallJobStepNotes ==
  ASSUME IInv, NotesInv,
         \/ \E k \in Contracts : ContractJobReads(k)
         \/ \E t \in Tokens : TokenJobReads(t) \/ FtJobWrites(t) \/ NftJobWrites(t) \/ IntervalPasses(t)
         \/ ImportContractInserts
  PROVE  NotesInv'
<1>1. phase = "none" /\ UNCHANGED <<phase, chain, resent, diverged>>
  BY DEF ContractJobReads, TokenJobReads, FtJobWrites, NftJobWrites, IntervalPasses,
         ImportContractInserts, ChainUnchanged
<1>2. db \in Databases
  BY DEF IInv, TypeOK
<1>3. CASE ImportContractInserts
  <2> DEFINE d == EnqueueContracts(db, {importing})
             imported == d.imported \cup ({importing} \ DeployedOn(chain))
  <2>1. {importing} \in SUBSET Contracts
    BY <1>3 DEF ImportContractInserts, IInv, TypeOK
  <2>2. d \in Databases
    BY <1>2, <2>1, ContractsEnqueued
  <2>3. d.tokens = db.tokens /\ d.early = db.early /\ d.dropped = db.dropped /\ d.notes = db.notes
    BY <1>2 DEF EnqueueContracts, Databases
  <2>4. db' = [d EXCEPT !.imported = imported]
    BY <1>3 DEF ImportContractInserts
  <2> HIDE DEF d, imported
  <2>5. db'.notes = d.notes /\ db'.tokens = d.tokens /\ db'.early = d.early /\ db'.dropped = d.dropped
    BY <2>2, <2>4 DEF Databases
  <2> QED BY <1>1, <2>3, <2>5, SameJobStepNotes
<1>4. CASE ~ImportContractInserts
  <2>1. /\ db'.notes = db.notes /\ db'.tokens = db.tokens /\ db'.early = db.early
        /\ db'.dropped = db.dropped
    BY <1>2, <1>4 DEF ContractJobReads, TokenJobReads, FtJobWrites, NftJobWrites, IntervalPasses, Databases
  <2> QED BY <1>1, <2>1, SameJobStepNotes
<1> QED BY <1>3, <1>4

\* A contract's job adds tokens that have no notifications: they are early, or minted on
\* the chain, and then there already or dropped.
LEMMA ContractJobInsertsNotes ==
  ASSUME IInv, NotesInv, NEW k \in Contracts, ContractJobInserts(k) PROVE NotesInv'
<1> DEFINE read == imports[k]
           d == InsertTokens(db, read)
           early == db.early \cup (read \ (MintedOn(chain) \cup db.tokens))
<1>1. phase = "none" /\ read # Null /\ UNCHANGED <<phase, chain, resent, diverged>>
  BY DEF ContractJobInserts, ChainUnchanged
<1>2. db \in Databases /\ read \in SUBSET Tokens
  BY <1>1 DEF IInv, TypeOK
<1>3. d \in Databases /\ d.tokens = db.tokens \cup read /\ d.early = db.early /\ d.dropped = db.dropped
  <2> HIDE DEF read
  <2> QED BY <1>2, InsertedTyped DEF Index
<1>4. d.notes = db.notes
  BY <1>2 DEF InsertTokens, Databases
<1>5. db' = [d EXCEPT !.importDue = d.importDue \ {k}, !.early = early]
  <2> HIDE DEF d
  <2>1. db' = [InsertTokens(db, read) EXCEPT !.importDue = @ \ {k},
                 !.early = @ \cup (read \ (MintedOn(chain) \cup db.tokens))]
    BY DEF ContractJobInserts
  <2> QED BY <1>3, <2>1 DEF d, Databases
<1> HIDE DEF d, early, read
<1>6. /\ db'.notes = db.notes /\ db'.tokens = db.tokens \cup read /\ db'.early = early
      /\ db'.dropped = db.dropped
  BY <1>3, <1>4, <1>5 DEF Databases
<1>7. NotesOwned(db')
  BY <1>6 DEF NotesInv, NotesOwned
<1>8. ASSUME ~diverged, NotesExact(db, chain) PROVE NotesExact(db', chain)
  <2>1. /\ Lower(db, ToSet(chain))
        /\ \A t : t \in MintedOn(chain) <=> \E b \in ToSet(chain) : t \in TokenMints(b)
    <3>1. chain \in Seq(Blocks) /\ Lower(db, ToSet(chain))
      BY <1>1, <1>8, CommittedChain DEF Committed
    <3>2. PICK c \in Chains \cup {<<>>} : Begins(chain, c)
      BY <1>1, <1>8, CommittedChain DEF Committed
    <3> QED BY <3>1, <3>2, MintedOnChain
  <2>2. ASSUME NEW t \in db'.tokens \ db'.early
        PROVE  /\ \E b \in ToSet(chain) : t \in TokenMints(b)
               /\ t \notin db.early /\ (t \notin db.dropped => t \in db.tokens)
    <3>1. t \notin db.early /\ (t \in db.tokens \/ t \in MintedOn(chain))
      BY <1>6 DEF early
    <3>2. \E b \in ToSet(chain) : t \in TokenMints(b)
      BY <1>8, <2>1, <3>1 DEF NotesExact
    <3> QED BY <2>1, <3>1, <3>2 DEF Lower
  <2>3. ASSUME NEW t \in db'.tokens \ (db'.early \cup db'.dropped)
        PROVE  NotesOf(db', t) = NotedOn(chain, t)
    <3>1. t \in db.tokens \ (db.early \cup db.dropped)
      BY <1>6, <2>2
    <3> QED BY <1>6, <1>8, <3>1 DEF NotesExact, NotesOf
  <2> QED BY <2>2, <2>3 DEF NotesExact
<1> QED BY <1>1, <1>7, <1>8, JobStepNotes

LEMMA BeginTransactionNotes ==
  ASSUME IInv, NotesInv, BeginTransaction PROVE NotesInv'
<1>1. /\ phase = "none" /\ phase' = "rollback" /\ pos' = 1 /\ chain \in Seq(Blocks)
      /\ saved'.db = db /\ saved'.chain = chain /\ ~db.failed
      /\ UNCHANGED <<db, chain, resent, diverged>>
  BY DEF BeginTransaction, NodeUnchanged, IInv, TypeOK, TipOK
<1>2. NotesOwned(db)' /\ (phase # "none" => NotesOwned(saved.db))'
  BY <1>1 DEF NotesInv
<1>3. SubSeq(chain, 1, Len(chain) + 1 - 1) = chain
  BY <1>1
<1>4. NotesOK'
  BY <1>1, <1>3 DEF NotesInv, NotesOK
<1> QED BY <1>2, <1>4 DEF NotesInv

\* A step of the open transaction.
LEMMA OpenStepNotes ==
  ASSUME NotesInv, phase # "none", phase' # "none", UNCHANGED <<saved, resent, diverged>>,
         NotesOwned(db'),
         ~diverged /\ ~resent =>
           /\ phase' = "rollback" => NotesExact(db', SubSeq(chain', 1, Len(chain') + 1 - pos'))
           /\ phase' # "rollback" /\ ~db'.failed => NotesExact(db', chain')
  PROVE  NotesInv'
<1>1. NotesOK'
  BY DEF NotesInv, NotesOK
<1> QED BY <1>1 DEF NotesInv

LEMMA CommitNotes == ASSUME NotesInv, Commit PROVE NotesInv'
<1>1. /\ phase = "apply" /\ phase' = "none" /\ ~db.failed
      /\ UNCHANGED <<db, chain, diverged>>
      /\ UNCHANGED resent \/ resent' = (resent \/ payload.rollback # <<>>)
  BY DEF Commit, NodeUnchanged
<1>2. resent => resent'
  BY <1>1
<1>3. NotesOK'
  BY <1>1, <1>2 DEF NotesInv, NotesOK
<1> QED BY <1>1, <1>3 DEF NotesInv

LEMMA AbortNotes == ASSUME NotesInv, Abort PROVE NotesInv'
<1>1. /\ phase # "none" /\ phase' = "none" /\ db' = saved.db /\ chain' = saved.chain
      /\ UNCHANGED <<diverged, resent>>
  BY DEF Abort, NodeUnchanged
<1>2. NotesOK'
  BY <1>1 DEF NotesInv, NotesOK
<1> QED BY <1>1, <1>2 DEF NotesInv

LEMMA RollBackBlockNotes ==
  ASSUME IInv, SupplyInv, NotesInv, RollBackBlock PROVE NotesInv'
<1> DEFINE b == payload.rollback[pos]
           n == Len(chain) - pos
           longer == SubSeq(chain, 1, n + 1)
           shorter == SubSeq(chain, 1, n)
           d == RollBackTransactions(db, b)
           B == {y \in ToSet(chain) : Height[y] < Height[b]}
           dropped == (d.dropped \cup Mints[b]) \cap MintedIn(B)
<1>1. /\ phase = "rollback" /\ phase' = "rollback" /\ payload # Null /\ pos \in 1..Len(payload.rollback)
      /\ db \in Databases /\ chain \in Seq(Blocks) /\ chain = saved.chain /\ pos' = pos + 1
      /\ UNCHANGED <<sent, payload, saved, chain, resent, diverged>>
  BY DEF RollBackBlock, NodeUnchanged, IInv, PhaseOK, TypeOK
<1>2. /\ payload.rollback \in Seq(Blocks) /\ payload.rollback # <<>> /\ b \in Blocks
      /\ sent \in Chains \cup {<<>>} /\ sent \in Seq(Blocks) /\ AtHeights(sent)
      /\ Below \in Nat /\ pos \in Nat /\ Len(chain) \in Nat
  BY <1>1, PayloadFacts
<1>3. db' = [d EXCEPT !.dropped = dropped]
  BY DEF RollBackBlock
<1>4. d \in Databases /\ d.dropped = db.dropped
  BY <1>1, <1>2, BlockRolledBack
<1>5. NotesOwned(d)
  BY <1>1, <1>2, NotesRolledBack DEF NotesInv
<1> HIDE DEF d, dropped
<1>6. /\ db'.notes = d.notes /\ db'.tokens = d.tokens /\ db'.early = d.early
      /\ db'.dropped = dropped
  BY <1>3, <1>4 DEF Databases
<1>7. NotesOwned(db')
  BY <1>5, <1>6 DEF NotesOwned
<1>8. ASSUME ~diverged, ~resent PROVE NotesExact(db', SubSeq(chain', 1, Len(chain') + 1 - pos'))
  <2>1. chain = sent /\ NotesExact(db, SubSeq(chain, 1, Len(chain) + 1 - pos))
    BY <1>1, <1>2, <1>8 DEF SupplyInv, ExactOK, NotesInv, NotesOK
  <2>2. Len(payload.rollback) = Len(chain) - Below /\ b = chain[Len(chain) + 1 - pos]
    BY <1>1, <1>2, <2>1 DEF IInv, PayloadOK
  <2>3. n \in Nat /\ n + 1 <= Len(chain) /\ Len(chain) + 1 - pos = n + 1
        /\ Len(chain') + 1 - pos' = n
    <3>1. pos >= 1 /\ pos <= Len(chain) - Below
      BY <1>1, <1>2, <2>2
    <3>2. n \in Nat /\ n + 1 <= Len(chain) /\ Len(chain) + 1 - pos = n + 1
      BY <1>2, <3>1
    <3>3. Len(chain') = Len(chain) /\ pos' = pos + 1
      BY <1>1
    <3>4. Len(chain) + 1 - (pos + 1) = n
      BY <1>2
    <3> QED BY <3>2, <3>3, <3>4
  <2> HIDE DEF n
  <2>4. /\ longer \in Seq(Blocks) /\ shorter \in Seq(Blocks)
        /\ Len(longer) = n + 1 /\ Len(shorter) = n
        /\ \A i \in 1..n : longer[i] = shorter[i] /\ shorter[i] = chain[i]
        /\ longer[n + 1] = chain[n + 1]
    <3>1. \A i \in 1..(n + 1) : chain[i] \in Blocks
      BY <1>1, <2>3
    <3>2. longer = [i \in 1..(n + 1) |-> chain[i]] /\ shorter = [i \in 1..n |-> chain[i]]
      BY <2>3
    <3> HIDE DEF longer, shorter
    <3>3. longer \in Seq(Blocks) /\ shorter \in Seq(Blocks) /\ Len(longer) = n + 1 /\ Len(shorter) = n
      BY <2>3, <3>1, <3>2
    <3> QED BY <2>3, <3>2, <3>3
  <2>5. b = longer[Len(longer)] /\ NotesExact(db, longer) /\ Len(longer) = Len(shorter) + 1
        /\ \A i \in 1..Len(shorter) : longer[i] = shorter[i]
    BY <2>1, <2>2, <2>3, <2>4
  <2>6. Height[b] = Genesis + (n + 1) /\ \A i \in 1..n : Height[chain[i]] = Genesis + i
    BY <1>2, <2>1, <2>2, <2>3 DEF AtHeights
  <2>7. Height[b] = Genesis + Len(longer)
    BY <2>4, <2>6
  <2>8. Begins(shorter, sent)
    BY <1>2, <2>1, <2>3, <2>4 DEF Begins
  <2>9. B \in SUBSET Blocks /\ ToSet(shorter) \subseteq B
    <3>1. ToSet(chain) \subseteq Blocks
      BY <1>1 DEF ToSet
    <3>2. ASSUME NEW i \in DOMAIN shorter PROVE shorter[i] \in B
      <4>1. i \in 1..n /\ i \in DOMAIN chain /\ shorter[i] = chain[i]
        BY <1>1, <2>3, <2>4
      <4>2. Height[chain[i]] < Height[b]
        BY <2>3, <2>6, <4>1 DEF Genesis
      <4> QED BY <4>1, <4>2 DEF ToSet
    <3> QED BY <3>1, <3>2 DEF ToSet
  <2> HIDE DEF b, longer, shorter, B
  <2>10. NotesExact(db', shorter)
    <3>1. /\ db'.notes = RollBackTransactions(db, b).notes
          /\ db'.tokens = RollBackTransactions(db, b).tokens
          /\ db'.early = RollBackTransactions(db, b).early
          /\ db'.dropped = (db.dropped \cup Mints[b]) \cap MintedIn(B)
      BY <1>4, <1>6 DEF d, dropped
    <3>2. NotesOwned(db) /\ db \in Databases /\ b \in Blocks /\ sent \in Chains \cup {<<>>}
      BY <1>1, <1>2 DEF NotesInv
    <3>3. /\ shorter \in Seq(Blocks) /\ longer \in Seq(Blocks) /\ Len(longer) = Len(shorter) + 1
          /\ (\A i \in 1..Len(shorter) : longer[i] = shorter[i])
          /\ b = longer[Len(longer)] /\ NotesExact(db, longer)
      BY <2>4, <2>5
    <3> QED BY ONLY <2>7, <2>8, <2>9, <3>1, <3>2, <3>3, NotesExactRolledBack
  <2> QED BY <1>1, <2>3, <2>10 DEF shorter
<1> QED BY <1>1, <1>7, <1>8, OpenStepNotes

LEMMA ResetTipNotes == ASSUME IInv, SupplyInv, NotesInv, ResetTip PROVE NotesInv'
<1>1. /\ phase = "rollback" /\ phase' = "apply" /\ payload # Null /\ pos > Len(payload.rollback)
      /\ pos \in 1..(Len(payload.rollback) + 1)
      /\ db \in Databases /\ chain \in Seq(Blocks) /\ chain = saved.chain
      /\ UNCHANGED <<sent, payload, saved, resent, diverged>>
  BY DEF ResetTip, NodeUnchanged, IInv, PhaseOK, TypeOK
<1>2. /\ payload.rollback \in Seq(Blocks) /\ Below \in Nat /\ pos = Len(payload.rollback) + 1
      /\ Len(payload.rollback) \in Nat /\ Len(chain) \in Nat
  <2>1. payload.rollback \in Seq(Blocks) /\ Below \in Nat
    BY <1>1, PayloadFacts
  <2>2. Len(payload.rollback) \in Nat
    BY <2>1
  <2> QED BY <1>1, <2>1, <2>2
<1>3. /\ NotesOwned(db)
      /\ ~diverged /\ ~resent => NotesExact(db, SubSeq(chain, 1, Len(chain) + 1 - pos))
  BY <1>1 DEF NotesInv, NotesOK
<1>4. CASE payload.rollback = <<>>
  <2>1. db' = db /\ chain' = chain
    BY <1>4 DEF ResetTip
  <2>2. SubSeq(chain, 1, Len(chain) + 1 - pos) = chain
    BY <1>1, <1>2, <1>4
  <2> QED BY <1>1, <1>3, <2>1, <2>2, OpenStepNotes
<1>5. CASE payload.rollback # <<>>
  <2> DEFINE tip == Genesis + Below
  <2>1. Min({Height[b] : b \in ToSet(payload.rollback)}) = tip + 1
    BY <1>1, <1>2, <1>5, EarliestHeight DEF Genesis
  <2>2. (tip + 1) - 1 = tip /\ (tip + 1) - 1 - Genesis = Below
    BY <1>2 DEF Genesis
  <2> HIDE DEF tip
  <2>3. db' = [db EXCEPT !.tip = tip] /\ chain' = SubSeq(chain, 1, Below)
    BY <1>5, <2>1, <2>2 DEF ResetTip, TipBelow
  <2>4. /\ db'.notes = db.notes /\ db'.tokens = db.tokens /\ db'.early = db.early
        /\ db'.dropped = db.dropped
    BY <1>1, <2>3 DEF Databases
  <2>5. NotesOwned(db')
    BY <1>3, <2>4, SameNotes
  <2>6. ASSUME ~diverged, ~resent PROVE NotesExact(db', chain')
    <3>1. chain = sent
      BY <1>1, <1>5, <2>6 DEF SupplyInv, ExactOK
    <3>2. Len(chain) + 1 - pos = Below
      <4>1. Len(payload.rollback) = Len(sent) - Below
        BY <1>1, <1>5 DEF IInv, PayloadOK
      <4> QED BY <1>2, <3>1, <4>1
    <3> QED BY <1>3, <2>3, <2>4, <2>6, <3>2, SameNotes
  <2> QED BY <1>1, <2>5, <2>6, OpenStepNotes
<1> QED BY <1>4, <1>5

LEMMA ApplyBlockNotes == ASSUME IInv, SupplyInv, NotesInv, ApplyBlock PROVE NotesInv'
<1> DEFINE b == payload.apply[pos]
           d == ApplyTransactions(db, b)
           e == EnqueueDynamicTokens(d)
<1>1. /\ phase = "apply" /\ phase' = "apply" /\ payload # Null /\ pos \in Nat /\ ~db.failed
      /\ pos \in 1..Len(payload.apply) /\ db \in Databases /\ chain \in Seq(Blocks)
      /\ UNCHANGED <<sent, payload, saved, resent, diverged>>
  BY DEF ApplyBlock, NodeUnchanged, IInv, PhaseOK, TypeOK
<1>2. b \in Blocks
  <2>1. payload.apply \in Seq(Blocks)
    BY <1>1, PayloadFacts
  <2> QED BY <1>1, <2>1
<1>3. NotesOwned(db) /\ (~diverged /\ ~resent => NotesExact(db, chain))
  BY <1>1 DEF NotesInv, NotesOK
<1>4. CASE Height[b] <= db.tip
  <2>1. db' = db /\ chain' = chain
    BY <1>4 DEF ApplyBlock
  <2> QED BY <1>1, <1>3, <2>1, OpenStepNotes
<1>5. CASE ~(Height[b] <= db.tip)
  <2> DEFINE c == Append(chain, b)
  <2>1. db' = [e EXCEPT !.tip = Height[b]] /\ chain' = c
    BY <1>5 DEF ApplyBlock
  <2>2. /\ c \in Seq(Blocks) /\ Len(c) = Len(chain) + 1 /\ c[Len(c)] = b
        /\ \A i \in 1..Len(chain) : c[i] = chain[i]
    BY <1>1, <1>2
  <2>3. Height[b] = Genesis + Len(c)
    <3>1. AtHeights(c)
      BY <1>1, <2>1, ApplyBlockKeeps DEF IInv, PhaseOK
    <3>2. Len(c) \in DOMAIN c
      BY <1>1, <1>2
    <3> QED BY <2>2, <3>1, <3>2 DEF AtHeights
  <2> HIDE DEF b, c
  <2>4. d \in Databases /\ NotesOwned(d)
    BY <1>1, <1>2, <1>3, BlockApplied, NotesApplied
  <2>5. ~diverged => Lower(db, ToSet(chain))
    BY <1>1 DEF IInv, RowsOK
  <2>6. Owns(db) /\ db.contracts \subseteq TokenContracts
    BY DEF SupplyInv, OwnedOK, IInv, TipOK
  <2>7. ~diverged /\ ~resent /\ ~d.failed => NotesExact(d, c)
    BY <1>1, <1>2, <1>3, <2>2, <2>3, <2>5, <2>6, NotesExactApplied
  <2> HIDE DEF d
  <2>8. /\ e \in Databases /\ (d.failed => e.failed) /\ e.notes = d.notes /\ e.tokens = d.tokens
        /\ e.early = d.early /\ e.dropped = d.dropped
    BY <2>4, DynamicTokensEnqueued, DynamicLeavesNotes DEF Index
  <2> HIDE DEF e
  <2>9. /\ db'.notes = d.notes /\ db'.tokens = d.tokens /\ db'.early = d.early
        /\ db'.dropped = d.dropped /\ (d.failed => db'.failed)
    BY <2>1, <2>8 DEF Databases
  <2>10. NotesOwned(db') /\ \A x : NotesExact(d, x) => NotesExact(db', x)
    BY <2>4, <2>9, SameNotes
  <2> QED BY <1>1, <2>1, <2>7, <2>9, <2>10, OpenStepNotes
<1> QED BY <1>4, <1>5

LEMMA NextNotes == ASSUME IInv, SupplyInv, NotesInv, [Next]_vars PROVE NotesInv'
<1>1. CASE \/ NodeMoves \/ Send \/ Register
           \/ \E k \in Contracts : ImportContractReads(k)
  <2>1. UNCHANGED <<phase, pos, saved, db, chain, resent>>
    BY <1>1 DEF NodeMoves, Send, Register, StoreUnchanged, ImportContractReads
  <2>2. diverged' = diverged \/ diverged' = (diverged \/ ~IsPrefix(chain, node))
    BY <1>1 DEF NodeMoves, Send, Register, ImportContractReads
  <2>3. ~diverged' => ~diverged
    BY <2>2
  <2> QED BY <2>1, <2>3, NodeStepNotes
<1>2. CASE ProcessPayload \/ Abort
  BY <1>2, BeginTransactionNotes, RollBackBlockNotes, ResetTipNotes, ApplyBlockNotes, CommitNotes,
     AbortNotes DEF ProcessPayload
<1>3. CASE \E k \in Contracts : ContractJobInserts(k)
  BY <1>3, ContractJobInsertsNotes
<1>4. CASE \/ \E k \in Contracts : ContractJobReads(k)
           \/ \E t \in Tokens : TokenJobReads(t) \/ FtJobWrites(t) \/ NftJobWrites(t) \/ IntervalPasses(t)
           \/ ImportContractInserts
  BY <1>4, SmallJobStepNotes
<1>5. CASE UNCHANGED vars
  BY <1>5, NodeStepNotes DEF vars
<1> QED BY <1>1, <1>2, <1>3, <1>4, <1>5 DEF Next

\* Whatever is applied, rolled back, aborted and sent again, and whenever the jobs run,
\* the notifications that are kept of a token are those that its contract, or who deployed
\* it, has sent since its mint, up to the one that froze it (sip-validation.ts:308-371,
\* chainhook-pg-store.ts:207-261, 293-309).
THEOREM NotificationsAreTheChains == Spec => []NotificationsMatchChain
<1>1. Init => SupplyInv /\ NotesInv
  BY InitSupplies, InitNotes
<1>2. IInv /\ SupplyInv /\ NotesInv /\ [Next]_vars => SupplyInv' /\ NotesInv'
  BY NextSupplies, NextNotes
<1>3. IInv /\ NotesInv => NotificationsMatchChain
  <2> SUFFICES ASSUME IInv, NotesInv, Committed, ~diverged, ~resent,
                      NEW t \in MintedOn(chain) \ (db.early \cup db.dropped)
               PROVE  NotesOf(db, t) = NotedOn(chain, t)
    BY DEF NotificationsMatchChain
  <2>1. phase = "none" /\ ~db.failed
    BY DEF Committed, IInv, TipOK
  <2>2. NotesExact(db, chain)
    BY <2>1 DEF NotesInv, NotesOK
  <2>3. t \in db.tokens
    <3>1. chain \in Seq(Blocks) /\ Lower(db, ToSet(chain))
      BY CommittedChain
    <3>2. PICK d \in Chains \cup {<<>>} : Begins(chain, d)
      BY CommittedChain
    <3>3. \E b \in ToSet(chain) : t \in TokenMints(b)
      BY <3>1, <3>2, MintedOnChain
    <3> QED BY <3>1, <3>3 DEF Lower
  <2> QED BY <2>2, <2>3 DEF NotesExact
<1> QED BY <1>1, <1>2, <1>3, Invariant, PTL DEF Spec

-----------------------------------------------------------------------------
(* What makes a payload fail.                                               *)

\* A notification adds rows at its own position only, and fails for three reasons.
LEMMA NotificationStored ==
  ASSUME NEW d \in Databases, NEW b \in Blocks, NEW n \in Notifications
  PROVE  LET r == ApplyNotification(d, b, n)
             There(m) == m.height = Height[b] /\ m.tx = n.tx /\ m.event = n.event
         IN /\ \A m \in r.notes : m \in d.notes \/ There(m)
            /\ r.failed => \/ d.failed
                           \/ n.contract \in d.contracts /\ n.mode \notin Modes
                           \/ n.contract \in d.contracts /\ n.tokens \cap Huge # {}
                           \/ \E m \in d.notes : There(m)
<1> DEFINE affected == {t \in d.tokens : /\ ContractOf[t] = n.contract
                                         /\ n.tokens = {} \/ t \in n.tokens
                                         /\ ~FrozenIn(d, t)}
           rows == {[token |-> t, height |-> Height[b], tx |-> n.tx, event |-> n.event,
                     mode |-> n.mode] : t \in affected}
           taken == \E x \in rows, m \in d.notes : [m EXCEPT !.mode = x.mode] = x
           There(m) == m.height = Height[b] /\ m.tx = n.tx /\ m.event = n.event
           fails == n.mode \notin Modes \/ n.tokens \cap Huge # {} \/ taken
           r == ApplyNotification(d, b, n)
<1>1. \A m \in rows : There(m)
  OBVIOUS
<1>2. taken => \E m \in d.notes : There(m)
  <2> SUFFICES ASSUME NEW x \in rows, NEW m \in d.notes, [m EXCEPT !.mode = x.mode] = x
               PROVE  There(m)
    OBVIOUS
  <2>1. m \in [token : Tokens, height : Nat, tx : Nat, event : Nat, mode : Modes]
    BY DEF Databases
  <2>2. x.height = m.height /\ x.tx = m.tx /\ x.event = m.event
    BY <2>1
  <2>3. There(x)
    BY <1>1
  <2> QED BY <2>2, <2>3
<1>3. r = CASE n.contract \notin d.contracts -> d
            [] n.contract \in d.contracts /\ fails -> [d EXCEPT !.failed = TRUE]
            [] OTHER -> [d EXCEPT !.notes = @ \cup rows, !.pending = @ \cup affected]
  BY DEF ApplyNotification
<1> HIDE DEF rows, affected, fails, r, There
<1>4. \/ r = d
      \/ n.contract \in d.contracts /\ fails /\ r = [d EXCEPT !.failed = TRUE]
      \/ r = [d EXCEPT !.notes = @ \cup rows, !.pending = @ \cup affected]
  BY <1>3
<1>5. \A m \in r.notes : m \in d.notes \/ There(m)
  BY <1>1, <1>4 DEF Databases
<1>6. r.failed => d.failed \/ (n.contract \in d.contracts /\ fails)
  BY <1>4 DEF Databases
<1> USE DEF There
<1>7. fails => n.mode \notin Modes \/ n.tokens \cap Huge # {} \/ \E m \in d.notes : There(m)
  BY <1>2 DEF fails
<1> HIDE DEF There
<1>8. r.failed => \/ d.failed
                  \/ n.contract \in d.contracts /\ n.mode \notin Modes
                  \/ n.contract \in d.contracts /\ n.tokens \cap Huge # {}
                  \/ \E m \in d.notes : There(m)
  BY <1>6, <1>7
<1> QED BY <1>5, <1>8 DEF r, There

\* A block's notifications have values that the columns hold, unless it is unstorable.
LEMMA NotificationsStorable ==
  ASSUME NEW b \in Blocks, ~Unstorable(b)
  PROVE  LET notes == Cache[b].notifications
         IN \A i \in DOMAIN notes : notes[i].contract \in TokenContracts =>
              notes[i].mode \in Modes /\ notes[i].tokens \cap Huge = {}
<1> DEFINE notes == Cache[b].notifications
<1>1. Tells(notes, Updates[b])
  BY NotificationsOfCache
<1> HIDE DEF notes
<1> SUFFICES ASSUME NEW i \in DOMAIN notes, notes[i].contract \in TokenContracts
             PROVE  notes[i].mode \in Modes /\ notes[i].tokens \cap Huge = {}
  BY DEF notes
<1>2. PICK e \in Updates[b] : notes[i] = NoteOf(e)
  BY <1>1 DEF Tells
<1>3. /\ NoteOf(e).contract = e.what.value.contract
      /\ NoteOf(e).tokens = IF e.what.value.class = "nft" /\ e.what.value.tokens # Null
                            THEN e.what.value.tokens ELSE {}
      /\ NoteOf(e).mode = IF e.what.value.mode \in {Null, ""} THEN "standard" ELSE e.what.value.mode
  BY DEF NoteOf, NotificationOf
<1>4. /\ e.what.value.mode \in Modes \cup {Null, ""}
      /\ ~(e.what.value.class = "nft" /\ e.what.value.tokens # Null /\ e.what.value.tokens \cap Huge # {})
  BY <1>2, <1>3 DEF Unstorable
<1>5. NoteOf(e).mode \in Modes
  BY <1>3, <1>4 DEF Modes
<1>6. NoteOf(e).tokens \cap Huge = {}
  BY <1>3, <1>4
<1> QED BY <1>2, <1>5, <1>6

\* A block's notifications add rows at their positions only, and do not fail when there
\* is none at the height of the block yet.
LEMMA NotificationsStored ==
  ASSUME NEW d \in Databases, NEW b \in Blocks, d.contracts \subseteq TokenContracts
  PROVE  LET r == ApplyNotifications(d, b)
         IN /\ \A m \in r.notes : m \in d.notes \/ Undone(m, b)
            /\ ~d.failed /\ ~Unstorable(b) /\ (\A m \in d.notes : m.height # Height[b]) => ~r.failed
<1> DEFINE notes == Cache[b].notifications
           n == Len(notes)
           At(m, i) == m.height = Height[b] /\ m.tx = notes[i].tx /\ m.event = notes[i].event
           fine == ~d.failed /\ ~Unstorable(b) /\ \A m \in d.notes : m.height # Height[b]
<1>1. n \in Nat /\ DOMAIN notes = 1..n /\ \A j \in 1..n : notes[j] \in Notifications
  <2>1. notes \in Seq(Notifications)
    BY CacheTyped DEF Caches
  <2> HIDE DEF notes
  <2> QED BY <2>1
<1>2. PICK g : /\ g[0] = d /\ ApplyNotifications(d, b) = g[n]
               /\ \A j \in 1..n : g[j] = ApplyNotification(g[j - 1], b, notes[j])
               /\ \A j \in 0..n : g[j] \in Databases /\ Index(g[j]) = Index(d)
  <2> HIDE DEF n
  <2>1. \E g : /\ g[0] = d /\ ApplyNotifications(d, b) = g[n]
               /\ \A j \in 1..n : g[j] = ApplyNotification(g[j - 1], b, notes[j])
               /\ \A j \in 0..n : /\ g[j] \in Databases /\ Index(g[j]) = Index(d)
                                  /\ (d.failed => g[j].failed)
                                  /\ Milder(d, g[j])
    BY NotificationsInTurn DEF n
  <2> QED BY <2>1
<1>3. \A i, j \in 1..n : i < j => Before(notes[i], notes[j])
  BY <1>1, NotificationsOfCache DEF Tells
<1>4. ~Unstorable(b) => \A i \in 1..n : notes[i].contract \in TokenContracts =>
                          notes[i].mode \in Modes /\ notes[i].tokens \cap Huge = {}
  BY <1>1, NotificationsStorable
<1>5. ASSUME NEW i \in 1..n, NEW j \in 1..n, i < j, NEW m, At(m, i) PROVE ~At(m, j)
  <2>1. notes[i] \in Notifications /\ notes[j] \in Notifications /\ Before(notes[i], notes[j])
    BY <1>1, <1>3, <1>5
  <2>2. notes[i].tx \in Nat /\ notes[i].event \in Nat /\ notes[j].tx \in Nat /\ notes[j].event \in Nat
    BY <2>1 DEF Notifications
  <2> HIDE DEF notes
  <2> QED BY <1>5, <2>1, <2>2 DEF Before
<1>6. \A m, i : i \in 1..n /\ At(m, i) => Undone(m, b)
  BY <1>1 DEF Undone, ToSet
<1> HIDE DEF notes, n, fine, At
<1> DEFINE Ours(m, j) == m \in d.notes \/ \E i \in 1..j : At(m, i)
           P == {j \in Nat : j <= n => /\ \A m \in g[j].notes : Ours(m, j)
                                       /\ fine => ~g[j].failed}
<1>7. 0 \in P
  BY <1>2 DEF fine
<1>8. ASSUME NEW j \in Nat, j \in P PROVE j + 1 \in P
  <2> SUFFICES ASSUME j + 1 <= n
               PROVE  (\A m \in g[j + 1].notes : Ours(m, j + 1)) /\ (fine => ~g[j + 1].failed)
    OBVIOUS
  <2> DEFINE x == notes[j + 1]
             There(m) == m.height = Height[b] /\ m.tx = x.tx /\ m.event = x.event
  <2>1. /\ j \in 0..n /\ j + 1 \in 1..n /\ (j + 1) - 1 = j /\ j <= n /\ x \in Notifications
    BY <1>1
  <2>2. g[j] \in Databases /\ g[j + 1] = ApplyNotification(g[j], b, x) /\ g[j].contracts = d.contracts
    BY <1>2, <2>1 DEF Index
  <2>3. /\ \A m \in g[j + 1].notes : m \in g[j].notes \/ There(m)
        /\ g[j + 1].failed => \/ g[j].failed
                              \/ x.contract \in g[j].contracts /\ x.mode \notin Modes
                              \/ x.contract \in g[j].contracts /\ x.tokens \cap Huge # {}
                              \/ \E m \in g[j].notes : There(m)
    BY <2>1, <2>2, NotificationStored
  <2>4. (\A m \in g[j].notes : Ours(m, j)) /\ (fine => ~g[j].failed)
    BY <1>8, <2>1
  <2>5. \A m : There(m) <=> At(m, j + 1)
    BY DEF At
  <2> HIDE DEF There, x
  <2>6. \A m \in g[j + 1].notes : Ours(m, j + 1)
    <3> SUFFICES ASSUME NEW m \in g[j + 1].notes PROVE Ours(m, j + 1)
      OBVIOUS
    <3>1. CASE m \in g[j].notes
      BY <2>4, <3>1
    <3>2. CASE There(m)
      BY <2>1, <2>5, <3>2
    <3> QED BY <2>3, <3>1, <3>2
  <2>7. ASSUME fine PROVE ~g[j + 1].failed
    <3>1. ~(x.contract \in g[j].contracts /\ x.mode \notin Modes)
      BY <1>4, <2>1, <2>2, <2>7 DEF fine, x
    <3>2. ~(x.contract \in g[j].contracts /\ x.tokens \cap Huge # {})
      BY <1>4, <2>1, <2>2, <2>7 DEF fine, x
    <3>3. ASSUME NEW m \in g[j].notes, There(m) PROVE FALSE
      <4>1. At(m, j + 1)
        BY <2>5, <3>3
      <4>2. m \notin d.notes
        BY <2>7, <4>1 DEF fine, At
      <4>3. PICK i \in 1..j : At(m, i)
        BY <2>4, <4>2
      <4>4. i \in 1..n /\ i < j + 1
        BY <1>1, <2>1
      <4> QED BY <1>5, <2>1, <4>1, <4>3, <4>4
    <3> QED BY <2>3, <2>4, <2>7, <3>1, <3>2, <3>3
  <2> QED BY <2>6, <2>7
<1> HIDE DEF P
<1>9. n \in P
  BY <1>1, <1>7, <1>8, Induction
<1>10. (\A m \in g[n].notes : Ours(m, n)) /\ (fine => ~g[n].failed)
  BY <1>1, <1>9 DEF P
<1>11. \A m \in g[n].notes : m \in d.notes \/ Undone(m, b)
  BY <1>6, <1>10
<1> QED BY <1>2, <1>10, <1>11 DEF fine

\* A block that the columns can hold is applied without a failure when nothing is kept at
\* its height, and what it adds is at its positions.
LEMMA BlockStored ==
  ASSUME NEW d \in Databases, NEW b \in Blocks, d.contracts \subseteq TokenContracts
  PROVE  LET r == ApplyTransactions(d, b)
         IN /\ \A m \in r.notes : m \in d.notes \/ Undone(m, b)
            /\ ~d.failed /\ ~Unstorable(b) /\ (\A m \in d.notes : m.height # Height[b]) => ~r.failed
<1> DEFINE d1 == ApplyDeployments(d, b)
           d2 == ApplyNotifications(d1, b)
           d3 == ApplyMints(d2, b)
           r == ChangeSupply(d3, b, 1)
           known == {t \in Cache[b].nftMints \cup Cache[b].sftMints : ContractOf[t] \in d2.contracts}
<1>1. ApplyTransactions(d, b) = r
  BY DEF ApplyTransactions
<1>2. d1 \in Databases /\ d1.notes = d.notes /\ d1.failed = d.failed
  BY DeploymentsLeaveNotes
<1>3. d1.contracts \subseteq TokenContracts
  <2>1. d1.contracts = d.contracts \cup Cache[b].contracts
    <3>1. Cache[b].contracts \in SUBSET Contracts
      BY CacheTyped DEF Caches
    <3> DEFINE e == EnqueueContracts(d, Cache[b].contracts)
    <3>2. e \in Databases /\ e.contracts = d.contracts \cup Cache[b].contracts
      BY <3>1, ContractsEnqueued DEF Index
    <3>3. d1 = [e EXCEPT !.imported = @ \ Cache[b].contracts]
      BY DEF ApplyDeployments
    <3> HIDE DEF e, d1
    <3> QED BY <3>2, <3>3 DEF Databases
  <2> QED BY <2>1, ContractsTyped
<1> HIDE DEF d1
<1>4. /\ d2 \in Databases /\ d2.contracts = d1.contracts
      /\ \A m \in d2.notes : m \in d1.notes \/ Undone(m, b)
      /\ ~d1.failed /\ ~Unstorable(b) /\ (\A m \in d1.notes : m.height # Height[b]) => ~d2.failed
  BY <1>2, <1>3, NotificationsApplied, NotificationsStored DEF Index
<1> HIDE DEF d2
<1>5. d3 \in Databases /\ d3.notes = d2.notes
  BY <1>4, MintsApplied, MintsLeaveNotes
<1>6. ~Unstorable(b) => known \cap Huge = {}
  <2>1. ASSUME NEW t \in known PROVE t \in Mints[b] /\ ContractOf[t] \in TokenContracts
    BY <1>3, <1>4, MintedInOne
  <2> QED BY <2>1 DEF Unstorable
<1>7. ~Unstorable(b) /\ ~d2.failed => ~d3.failed
  <2> SUFFICES ASSUME ~Unstorable(b), ~d2.failed PROVE ~d3.failed
    OBVIOUS
  <2>1. d3 = InsertTokens(d2, known)
    BY <1>6 DEF ApplyMints
  <2> HIDE DEF known, d3
  <2> QED BY <1>4, <2>1 DEF InsertTokens, Databases
<1> HIDE DEF d3
<1>8. r.notes = d3.notes /\ r.failed = d3.failed
  <2>1. 1 \in Int
    OBVIOUS
  <2> QED BY <1>5, <2>1, SupplyLeavesNotes, SupplyChanged
<1> HIDE DEF r
<1>9. \A m \in r.notes : m \in d.notes \/ Undone(m, b)
  BY <1>2, <1>4, <1>5, <1>8
<1>10. ~d.failed /\ ~Unstorable(b) /\ (\A m \in d.notes : m.height # Height[b]) => ~r.failed
  BY <1>2, <1>4, <1>7, <1>8
<1> QED BY <1>1, <1>9, <1>10

\* The refresh fails on two tokens that are due, and leaves them due.
LEMMA RefreshFails ==
  ASSUME NEW d \in Databases, NEW tip
  PROVE  LET e == [EnqueueDynamicTokens(d) EXCEPT !.tip = tip]
         IN /\ e.notes = d.notes /\ DueForRefresh(e) = DueForRefresh(d)
            /\ e.failed => d.failed \/ Cardinality(DueForRefresh(e)) > 1
<1> DEFINE f == EnqueueDynamicTokens(d)
           e == [f EXCEPT !.tip = tip]
<1>1. f \in Databases
  BY DynamicTokensEnqueued
<1>2. f.notes = d.notes /\ f.stale = d.stale
  BY DEF EnqueueDynamicTokens, Databases
<1>3. f.failed => d.failed \/ Cardinality(DueForRefresh(d)) > 1
  BY DEF EnqueueDynamicTokens, Databases
<1> HIDE DEF f
<1>4. e.notes = f.notes /\ e.stale = f.stale /\ e.failed = f.failed
  BY <1>1 DEF Databases
<1> HIDE DEF e
<1>5. DueForRefresh(e) = DueForRefresh(d)
  BY <1>2, <1>4 DEF DueForRefresh, NotesOf
<1>6. e.notes = d.notes /\ (e.failed => d.failed \/ Cardinality(DueForRefresh(e)) > 1)
  BY <1>2, <1>3, <1>4, <1>5
<1> QED BY <1>5, <1>6 DEF e, f

\* Every notification that is kept is at a position where a block of the chain has one.
NotesSent(d, c) == \A m \in d.notes : \E b \in ToSet(c) : Undone(m, b)

SentOK ==
  ~diverged /\ ~resent =>
    /\ phase # "none" => NotesSent(saved.db, saved.chain)
    /\ phase = "rollback" => NotesSent(db, SubSeq(chain, 1, Len(chain) + 1 - pos))
    /\ phase # "rollback" => NotesSent(db, chain)

LEMMA InitSent == Init => SentOK
BY DEF Init, EmptyDatabase, SentOK, NotesSent

\* The node moves, a payload is made, a job runs, or nothing does.
LEMMA SmallStepSent ==
  ASSUME SentOK, UNCHANGED <<phase, pos, saved, chain, resent>>, ~diverged' => ~diverged,
         db'.notes = db.notes
  PROVE  SentOK'
BY DEF SentOK, NotesSent

LEMMA JobStepSent ==
  ASSUME IInv, SentOK,
         \/ \E k \in Contracts : ContractJobReads(k) \/ ContractJobInserts(k)
         \/ \E t \in Tokens : TokenJobReads(t) \/ FtJobWrites(t) \/ NftJobWrites(t) \/ IntervalPasses(t)
         \/ ImportContractInserts
  PROVE  SentOK'
<1>1. UNCHANGED <<phase, pos, saved, chain, resent, diverged>>
  BY DEF ContractJobReads, ContractJobInserts, TokenJobReads, FtJobWrites, NftJobWrites, IntervalPasses,
         ImportContractInserts, ChainUnchanged
<1>2. db \in Databases
  BY DEF IInv, TypeOK
<1>3. CASE ImportContractInserts
  <2>1. db'.notes = db.notes
    BY <1>2, <1>3 DEF ImportContractInserts, EnqueueContracts, Databases
  <2> QED BY <1>1, <2>1, SmallStepSent
<1>4. CASE \E k \in Contracts : ContractJobInserts(k)
  <2>1. db'.notes = db.notes
    BY <1>2, <1>4 DEF ContractJobInserts, InsertTokens, Databases
  <2> QED BY <1>1, <2>1, SmallStepSent
<1>5. CASE ~ImportContractInserts /\ ~\E k \in Contracts : ContractJobInserts(k)
  <2>1. db'.notes = db.notes
    BY <1>2, <1>5 DEF ContractJobReads, TokenJobReads, FtJobWrites, NftJobWrites, IntervalPasses, Databases
  <2> QED BY <1>1, <2>1, SmallStepSent
<1> QED BY <1>3, <1>4, <1>5

LEMMA BeginTransactionSent ==
  ASSUME IInv, SentOK, BeginTransaction PROVE SentOK'
<1>1. /\ phase = "none" /\ phase' = "rollback" /\ pos' = 1 /\ chain \in Seq(Blocks)
      /\ saved'.db = db /\ saved'.chain = chain /\ UNCHANGED <<db, chain, resent, diverged>>
  BY DEF BeginTransaction, NodeUnchanged, IInv, TypeOK
<1>2. SubSeq(chain, 1, Len(chain) + 1 - 1) = chain
  BY <1>1
<1> QED BY <1>1, <1>2 DEF SentOK, NotesSent

LEMMA CommitSent == ASSUME SentOK, Commit PROVE SentOK'
<1>1. /\ phase = "apply" /\ phase' = "none" /\ UNCHANGED <<db, chain, diverged>>
      /\ UNCHANGED resent \/ resent' = (resent \/ payload.rollback # <<>>)
  BY DEF Commit, NodeUnchanged
<1>2. resent => resent'
  BY <1>1
<1> QED BY <1>1, <1>2 DEF SentOK, NotesSent

LEMMA AbortSent == ASSUME SentOK, Abort PROVE SentOK'
<1>1. /\ phase # "none" /\ phase' = "none" /\ db' = saved.db /\ chain' = saved.chain
      /\ UNCHANGED <<diverged, resent>>
  BY DEF Abort, NodeUnchanged
<1> QED BY <1>1 DEF SentOK, NotesSent

\* The block that is rolled back is the last one of those that are left.
LEMMA LastOneLeft ==
  ASSUME IInv, SupplyInv, RollBackBlock, ~diverged, ~resent
  PROVE  /\ payload.rollback[pos] \in Blocks
         /\ \A b : b \in ToSet(SubSeq(chain, 1, Len(chain) + 1 - pos)) /\ b # payload.rollback[pos]
                     => b \in ToSet(SubSeq(chain', 1, Len(chain') + 1 - pos'))
<1> DEFINE n == Len(chain) - pos
<1>1. /\ phase = "rollback" /\ payload # Null /\ pos \in 1..Len(payload.rollback)
      /\ chain \in Seq(Blocks) /\ chain = saved.chain /\ pos' = pos + 1 /\ chain' = chain
  BY DEF RollBackBlock, IInv, PhaseOK, TypeOK
<1>2. /\ payload.rollback \in Seq(Blocks) /\ payload.rollback # <<>> /\ payload.rollback[pos] \in Blocks
      /\ Below \in Nat /\ pos \in Nat /\ Len(chain) \in Nat
  BY <1>1, PayloadFacts
<1>3. chain = sent
  BY <1>1, <1>2 DEF SupplyInv, ExactOK
<1>4. Len(payload.rollback) = Len(chain) - Below /\ payload.rollback[pos] = chain[Len(chain) + 1 - pos]
  BY <1>1, <1>2, <1>3 DEF IInv, PayloadOK
<1>5. pos >= 1 /\ pos <= Len(chain) - Below
  BY <1>1, <1>2, <1>4
<1>6. n \in Nat /\ n + 1 <= Len(chain) /\ Len(chain) + 1 - pos = n + 1 /\ Len(chain') + 1 - pos' = n
  <2>1. n \in Nat /\ n + 1 <= Len(chain) /\ Len(chain) + 1 - pos = n + 1
    BY <1>2, <1>5
  <2>2. Len(chain) + 1 - (pos + 1) = n
    BY <1>2
  <2> QED BY <1>1, <2>1, <2>2
<1> HIDE DEF n
<1>7. /\ SubSeq(chain, 1, n + 1) = [i \in 1..(n + 1) |-> chain[i]]
      /\ SubSeq(chain, 1, n) = [i \in 1..n |-> chain[i]]
  BY <1>1, <1>6
<1>8. ASSUME NEW i \in 1..(n + 1), chain[i] # chain[n + 1] PROVE i \in 1..n
  BY <1>6, <1>8
<1>9. \A b : b \in ToSet(SubSeq(chain, 1, n + 1)) /\ b # chain[n + 1]
               => b \in ToSet(SubSeq(chain, 1, n))
  BY <1>7, <1>8 DEF ToSet
<1> QED BY <1>1, <1>2, <1>4, <1>6, <1>9

LEMMA RollBackBlockSent ==
  ASSUME IInv, SupplyInv, NotesInv, SentOK, RollBackBlock PROVE SentOK'
<1> DEFINE b == payload.rollback[pos]
           d == RollBackTransactions(db, b)
<1>1. /\ phase = "rollback" /\ phase' = "rollback" /\ payload # Null /\ pos \in 1..Len(payload.rollback)
      /\ db \in Databases /\ UNCHANGED <<saved, resent, diverged>>
  BY DEF RollBackBlock, NodeUnchanged, IInv, PhaseOK, TypeOK
<1>2. b \in Blocks
  BY <1>1, PayloadFacts
<1>3. d \in Databases
  BY <1>1, <1>2, BlockRolledBack
<1>4. \E x : db' = [d EXCEPT !.dropped = x]
  BY DEF RollBackBlock
<1>5. NotesOwned(d) /\ \A t \in d.tokens : NotesOf(d, t) = {m \in NotesOf(db, t) : ~Undone(m, b)}
  BY <1>1, <1>2, NotesRolledBack DEF NotesInv
<1> HIDE DEF d, b
<1>6. db'.notes = d.notes
  BY <1>3, <1>4 DEF Databases
<1>7. ASSUME NEW m \in db'.notes PROVE m \in db.notes /\ ~Undone(m, b)
  <2>1. m.token \in d.tokens /\ m \in NotesOf(d, m.token)
    BY <1>5, <1>6, <1>7 DEF NotesOwned, NotesOf
  <2> QED BY <1>5, <2>1 DEF NotesOf
<1>8. ASSUME ~diverged, ~resent PROVE NotesSent(db', SubSeq(chain', 1, Len(chain') + 1 - pos'))
  <2>1. NotesSent(db, SubSeq(chain, 1, Len(chain) + 1 - pos))
    BY <1>1, <1>8 DEF SentOK
  <2>2. \A x : x \in ToSet(SubSeq(chain, 1, Len(chain) + 1 - pos)) /\ x # b
                 => x \in ToSet(SubSeq(chain', 1, Len(chain') + 1 - pos'))
    BY <1>8, LastOneLeft DEF b
  <2> QED BY <1>7, <2>1, <2>2 DEF NotesSent
<1> QED BY <1>1, <1>8 DEF SentOK

LEMMA ResetTipSent == ASSUME IInv, SupplyInv, SentOK, ResetTip PROVE SentOK'
<1>1. /\ phase = "rollback" /\ phase' = "apply" /\ payload # Null /\ pos > Len(payload.rollback)
      /\ pos \in 1..(Len(payload.rollback) + 1)
      /\ db \in Databases /\ chain \in Seq(Blocks) /\ chain = saved.chain
      /\ UNCHANGED <<sent, payload, saved, resent, diverged>>
  BY DEF ResetTip, NodeUnchanged, IInv, PhaseOK, TypeOK
<1>2. /\ payload.rollback \in Seq(Blocks) /\ Below \in Nat /\ pos = Len(payload.rollback) + 1
      /\ Len(payload.rollback) \in Nat /\ Len(chain) \in Nat
  <2>1. payload.rollback \in Seq(Blocks) /\ Below \in Nat
    BY <1>1, PayloadFacts
  <2>2. Len(payload.rollback) \in Nat
    BY <2>1
  <2> QED BY <1>1, <2>1, <2>2
<1>3. CASE payload.rollback = <<>>
  <2>1. db' = db /\ chain' = chain
    BY <1>3 DEF ResetTip
  <2>2. SubSeq(chain, 1, Len(chain) + 1 - pos) = chain
    BY <1>1, <1>2, <1>3
  <2> QED BY <1>1, <2>1, <2>2 DEF SentOK, NotesSent
<1>4. CASE payload.rollback # <<>>
  <2> DEFINE tip == Genesis + Below
  <2>1. Min({Height[b] : b \in ToSet(payload.rollback)}) = tip + 1
    BY <1>1, <1>2, <1>4, EarliestHeight DEF Genesis
  <2>2. (tip + 1) - 1 = tip /\ (tip + 1) - 1 - Genesis = Below
    BY <1>2 DEF Genesis
  <2> HIDE DEF tip
  <2>3. db' = [db EXCEPT !.tip = tip] /\ chain' = SubSeq(chain, 1, Below)
    BY <1>4, <2>1, <2>2 DEF ResetTip, TipBelow
  <2>4. db'.notes = db.notes
    BY <1>1, <2>3 DEF Databases
  <2>5. ASSUME ~diverged, ~resent PROVE NotesSent(db', chain')
    <3>1. chain = sent
      BY <1>1, <1>4, <2>5 DEF SupplyInv, ExactOK
    <3>2. Len(chain) + 1 - pos = Below
      <4>1. Len(payload.rollback) = Len(sent) - Below
        BY <1>1, <1>4 DEF IInv, PayloadOK
      <4> QED BY <1>2, <3>1, <4>1
    <3> QED BY <1>1, <2>3, <2>4, <2>5, <3>2 DEF SentOK, NotesSent
  <2> QED BY <1>1, <2>5 DEF SentOK
<1> QED BY <1>3, <1>4

\* What a block that is applied finds and leaves: nothing kept at its height, and no
\* failure but the refresh's when its values can be stored.
LEMMA ApplyBlockStores ==
  ASSUME IInv, SentOK, ApplyBlock
  PROVE  /\ ~diverged /\ ~resent => NotesSent(db', chain')
         /\ db'.failed => \/ resent \/ diverged
                          \/ \E b \in ToSet(payload.apply) : Unstorable(b)
                          \/ Cardinality(DueForRefresh(db')) > 1
<1> DEFINE b == payload.apply[pos]
           d == ApplyTransactions(db, b)
           e == [EnqueueDynamicTokens(d) EXCEPT !.tip = Height[b]]
<1>1. /\ phase = "apply" /\ payload # Null /\ ~db.failed /\ pos \in 1..Len(payload.apply)
      /\ db \in Databases /\ chain \in Seq(Blocks) /\ AtHeights(chain)
      /\ db.tip = Genesis + Len(chain) /\ db.contracts \subseteq TokenContracts
  BY DEF ApplyBlock, IInv, PhaseOK, TypeOK, TipOK
<1>2. payload.apply \in Seq(Blocks)
  BY <1>1, PayloadFacts
<1>3. b \in Blocks /\ b \in ToSet(payload.apply)
  BY <1>1, <1>2 DEF ToSet
<1>4. ~diverged /\ ~resent => NotesSent(db, chain)
  BY <1>1 DEF SentOK
<1>5. CASE Height[b] <= db.tip
  <2>1. db' = db /\ chain' = chain
    BY <1>5 DEF ApplyBlock
  <2> QED BY <1>1, <1>4, <2>1
<1>6. CASE ~(Height[b] <= db.tip)
  <2>1. db' = e /\ chain' = Append(chain, b)
    BY <1>6 DEF ApplyBlock
  <2> HIDE DEF b
  <2>2. Height[b] \in Nat /\ Len(chain) \in Nat
    BY <1>1, <1>3, ChainAssumption
  <2>3. \A x \in ToSet(chain) : Height[x] # Height[b]
    <3> SUFFICES ASSUME NEW i \in DOMAIN chain PROVE Height[chain[i]] # Height[b]
      BY DEF ToSet
    <3>1. Height[chain[i]] = Genesis + i /\ i \in 1..Len(chain)
      BY <1>1 DEF AtHeights
    <3> QED BY <1>1, <1>6, <2>2, <3>1 DEF Genesis
  <2>4. d \in Databases
    BY <1>1, <1>3, BlockApplied
  <2>5. /\ \A m \in d.notes : m \in db.notes \/ Undone(m, b)
        /\ ~db.failed /\ ~Unstorable(b) /\ (\A m \in db.notes : m.height # Height[b]) => ~d.failed
    BY <1>1, <1>3, BlockStored
  <2> HIDE DEF d
  <2>6. /\ e.notes = d.notes
        /\ e.failed => d.failed \/ Cardinality(DueForRefresh(e)) > 1
    BY <2>4, RefreshFails
  <2> HIDE DEF e
  <2>7. ASSUME ~diverged, ~resent PROVE NotesSent(e, Append(chain, b))
    <3>1. b \in ToSet(Append(chain, b)) /\ ToSet(chain) \subseteq ToSet(Append(chain, b))
      <4> DEFINE c == Append(chain, b)
      <4>1. DOMAIN c = 1..(Len(chain) + 1) /\ c[Len(chain) + 1] = b /\ \A i \in 1..Len(chain) : c[i] = chain[i]
        BY <1>1, <1>3
      <4>2. DOMAIN chain = 1..Len(chain)
        BY <1>1
      <4> HIDE DEF c
      <4>3. b \in ToSet(c) /\ ToSet(chain) \subseteq ToSet(c)
        BY <2>2, <4>1, <4>2 DEF ToSet
      <4> QED BY <4>3 DEF c
    <3> QED BY <1>4, <2>5, <2>6, <2>7, <3>1 DEF NotesSent
  <2>8. ASSUME ~diverged, ~resent PROVE \A m \in db.notes : m.height # Height[b]
    BY <1>4, <2>3, <2>8 DEF NotesSent, Undone
  <2>9. e.failed => \/ resent \/ diverged
                    \/ \E x \in ToSet(payload.apply) : Unstorable(x)
                    \/ Cardinality(DueForRefresh(e)) > 1
    BY <1>1, <1>3, <2>5, <2>6, <2>8
  <2> QED BY <2>1, <2>7, <2>9
<1> QED BY <1>5, <1>6

LEMMA NextSent ==
  ASSUME IInv, SupplyInv, NotesInv, SentOK, [Next]_vars PROVE SentOK'
<1>1. CASE \/ NodeMoves \/ Send \/ Register
           \/ \E k \in Contracts : ImportContractReads(k)
  <2>1. UNCHANGED <<phase, pos, saved, db, chain, resent>>
    BY <1>1 DEF NodeMoves, Send, Register, StoreUnchanged, ImportContractReads
  <2>2. diverged' = diverged \/ diverged' = (diverged \/ ~IsPrefix(chain, node))
    BY <1>1 DEF NodeMoves, Send, Register, ImportContractReads
  <2>3. ~diverged' => ~diverged
    BY <2>2
  <2> QED BY <2>1, <2>3, SmallStepSent
<1>2. CASE ApplyBlock
  <2>1. phase = "apply" /\ phase' = "apply" /\ UNCHANGED <<saved, resent, diverged>>
    BY <1>2 DEF ApplyBlock, NodeUnchanged
  <2> QED BY <1>2, <2>1, ApplyBlockStores DEF SentOK
<1>3. CASE BeginTransaction \/ RollBackBlock \/ ResetTip \/ Commit \/ Abort
  BY <1>3, BeginTransactionSent, RollBackBlockSent, ResetTipSent, CommitSent, AbortSent
<1>4. CASE \/ \E k \in Contracts : ContractJobReads(k) \/ ContractJobInserts(k)
           \/ \E t \in Tokens : TokenJobReads(t) \/ FtJobWrites(t) \/ NftJobWrites(t) \/ IntervalPasses(t)
           \/ ImportContractInserts
  BY <1>4, JobStepSent
<1>5. CASE UNCHANGED vars
  BY <1>5, SmallStepSent DEF vars
<1> QED BY <1>1, <1>2, <1>3, <1>4, <1>5 DEF Next, ProcessPayload

LEMMA NextBlocks ==
  ASSUME IInv, SentOK, OnlyRefreshBlocks, [Next]_vars PROVE OnlyRefreshBlocks'
<1>1. IInv'
  BY NextKeeps
<1>2. db'.failed => phase' = "apply"
  BY <1>1 DEF IInv, TipOK
<1>3. CASE ApplyBlock
  <2>1. UNCHANGED <<payload, resent, diverged>>
    BY <1>3 DEF ApplyBlock, NodeUnchanged
  <2>2. db'.failed => \/ resent' \/ diverged'
                      \/ \E b \in ToSet(payload'.apply) : Unstorable(b)
                      \/ Cardinality(DueForRefresh(db')) > 1
    BY <1>3, <2>1, ApplyBlockStores
  <2> QED BY <2>2 DEF OnlyRefreshBlocks
<1>4. CASE ResetTip
  <2>1. phase = "rollback" /\ db \in Databases
    BY <1>4 DEF ResetTip, IInv, TypeOK
  <2>2. ~db.failed
    BY <2>1 DEF IInv, TipOK
  <2>3. db'.failed = db.failed
    BY <1>4, <2>1 DEF ResetTip, Databases
  <2> QED BY <2>2, <2>3 DEF OnlyRefreshBlocks
<1>5. CASE BeginTransaction \/ RollBackBlock \/ Commit \/ Abort
  <2>1. phase' # "apply"
    BY <1>5 DEF BeginTransaction, RollBackBlock, Commit, Abort
  <2> QED BY <1>2, <2>1 DEF OnlyRefreshBlocks
<1>6. CASE Send \/ Register
  <2>1. phase' = phase
    BY <1>6 DEF Send, Register, StoreUnchanged
  <2>2. phase = "none"
    BY <1>6 DEF Send, Register, IInv, TypeOK, PhaseOK
  <2> QED BY <1>2, <2>1, <2>2 DEF OnlyRefreshBlocks
<1>7. CASE \/ \E k \in Contracts : ContractJobReads(k) \/ ContractJobInserts(k)
           \/ \E t \in Tokens : TokenJobReads(t) \/ FtJobWrites(t) \/ NftJobWrites(t) \/ IntervalPasses(t)
           \/ ImportContractInserts
  <2>1. phase = "none" /\ phase' = phase
    BY <1>7 DEF ContractJobReads, ContractJobInserts, TokenJobReads, FtJobWrites, NftJobWrites,
                IntervalPasses, ImportContractInserts, ChainUnchanged
  <2> QED BY <1>2, <2>1 DEF OnlyRefreshBlocks
<1>8. CASE NodeMoves \/ (\E k \in Contracts : ImportContractReads(k)) \/ UNCHANGED vars
  <2>1. UNCHANGED <<db, payload, resent, diverged>>
    BY <1>8 DEF NodeMoves, ImportContractReads, vars, StoreUnchanged
  <2> QED BY <2>1 DEF OnlyRefreshBlocks, DueForRefresh, NotesOf
<1> QED BY <1>3, <1>4, <1>5, <1>6, <1>7, <1>8 DEF Next, ProcessPayload

\* In any run, for any blocks whose values the columns can hold, only the refresh of two
\* dynamic tokens or more can make a payload fail.  Above all the unique key of the
\* notifications never does, for whatever was rolled back, aborted or imported before
\* (chainhook-pg-store.ts:207-261, 293-309, 311-338).
THEOREM RefreshAloneBlocks == Spec => []OnlyRefreshBlocks
<1>1. Init => SupplyInv /\ NotesInv /\ SentOK /\ OnlyRefreshBlocks
  <2>1. Init => OnlyRefreshBlocks
    BY DEF Init, EmptyDatabase, OnlyRefreshBlocks
  <2> QED BY <2>1, InitSupplies, InitNotes, InitSent
<1>2. IInv /\ SupplyInv /\ NotesInv /\ SentOK /\ OnlyRefreshBlocks /\ [Next]_vars
        => SupplyInv' /\ NotesInv' /\ SentOK' /\ OnlyRefreshBlocks'
  BY NextSupplies, NextNotes, NextSent, NextBlocks
<1> QED BY <1>1, <1>2, Invariant, PTL DEF Spec

\* Of the dynamic tokens no two are due.
OneDue == \A t, u \in DueForRefresh(db) : t = u

\* As long as no two dynamic tokens are due at once, then, no payload fails because of what
\* the index holds (chainhook-pg-store.ts:22, 311-338; env.ts:116).
THEOREM NothingBlocksWhenOneIsDue == Spec /\ []OneDue => []NothingBlocksIngestion
<1>1. OneDue => ~(Cardinality(DueForRefresh(db)) > 1)
  <2> SUFFICES ASSUME OneDue PROVE ~(Cardinality(DueForRefresh(db)) > 1)
    OBVIOUS
  <2>1. CASE DueForRefresh(db) = {}
    <3>1. Cardinality(DueForRefresh(db)) = 0
      BY <2>1, FS_EmptySet
    <3> QED BY <3>1
  <2>2. CASE DueForRefresh(db) # {}
    <3>1. PICK t : t \in DueForRefresh(db)
      BY <2>2
    <3>2. DueForRefresh(db) = {t}
      BY <3>1 DEF OneDue
    <3>3. Cardinality({t}) = 1
      BY FS_Singleton
    <3> QED BY <3>2, <3>3
  <2> QED BY <2>1, <2>2
<1>2. OneDue /\ OnlyRefreshBlocks => NothingBlocksIngestion
  BY <1>1 DEF OnlyRefreshBlocks, NothingBlocksIngestion
<1> QED BY <1>2, RefreshAloneBlocks, PTL

-----------------------------------------------------------------------------
(* What a reader sees.                                                      *)

\* From one database to another: the blocks of one set are undone, those of the other
\* applied.
Moved(d, e, left, entered) ==
  /\ \A k : k \in e.contracts <=>
       \/ k \in d.contracts /\ \A b \in left : k \notin Cache[b].contracts
       \/ \E b \in entered : k \in Cache[b].contracts
  /\ \A t : t \in e.tokens <=>
       \/ t \in d.tokens /\ \A b \in left : t \notin Mints[b] /\ ContractOf[t] \notin Cache[b].contracts
       \/ (\E b \in entered : t \in Mints[b]) /\ ContractOf[t] \in e.contracts

LEMMA MovedNowhere == ASSUME NEW d PROVE Moved(d, d, {}, {})
BY DEF Moved

LEMMA MovedBack ==
  ASSUME NEW d, NEW e, NEW f, NEW left, NEW b, Moved(d, e, left, {}),
         f.contracts = e.contracts \ Cache[b].contracts,
         f.tokens = {t \in e.tokens : ContractOf[t] \notin Cache[b].contracts /\ t \notin Mints[b]}
  PROVE  Moved(d, f, left \cup {b}, {})
<1>1. \A k : k \in f.contracts <=>
        k \in d.contracts /\ \A x \in left \cup {b} : k \notin Cache[x].contracts
  BY DEF Moved
<1>2. ASSUME NEW t
      PROVE  t \in f.tokens <=>
               /\ t \in d.tokens
               /\ \A x \in left \cup {b} : t \notin Mints[x] /\ ContractOf[t] \notin Cache[x].contracts
  BY DEF Moved
<1> QED BY <1>1, <1>2 DEF Moved

\* A block applied after others knows the contracts of what they mint already.
LEMMA MovedOn ==
  ASSUME NEW d, NEW e, NEW f, NEW left, NEW entered, NEW b, Moved(d, e, left, entered),
         f.contracts = e.contracts \cup Cache[b].contracts,
         f.tokens = e.tokens \cup {t \in Mints[b] : ContractOf[t] \in f.contracts},
         \A x \in entered : \A t \in Mints[x] :
           ContractOf[t] \in Cache[b].contracts => ContractOf[t] \in e.contracts
  PROVE  Moved(d, f, left, entered \cup {b})
<1>1. \A k : k \in f.contracts <=>
        \/ k \in d.contracts /\ \A x \in left : k \notin Cache[x].contracts
        \/ \E x \in entered \cup {b} : k \in Cache[x].contracts
  BY DEF Moved
<1>2. ASSUME NEW t
      PROVE  t \in f.tokens <=>
               \/ /\ t \in d.tokens
                  /\ \A x \in left : t \notin Mints[x] /\ ContractOf[t] \notin Cache[x].contracts
               \/ (\E x \in entered \cup {b} : t \in Mints[x]) /\ ContractOf[t] \in f.contracts
  <2>1. t \in f.tokens <=> t \in e.tokens \/ (t \in Mints[b] /\ ContractOf[t] \in f.contracts)
    OBVIOUS
  <2>2. t \in e.tokens <=>
          \/ /\ t \in d.tokens
             /\ \A x \in left : t \notin Mints[x] /\ ContractOf[t] \notin Cache[x].contracts
          \/ (\E x \in entered : t \in Mints[x]) /\ ContractOf[t] \in e.contracts
    BY DEF Moved
  <2>3. ASSUME NEW x \in entered, t \in Mints[x]
        PROVE  ContractOf[t] \in f.contracts <=> ContractOf[t] \in e.contracts
    BY <2>3
  <2>4. (\E x \in entered \cup {b} : t \in Mints[x]) /\ ContractOf[t] \in f.contracts <=>
          \/ (\E x \in entered : t \in Mints[x]) /\ ContractOf[t] \in e.contracts
          \/ t \in Mints[b] /\ ContractOf[t] \in f.contracts
    BY <2>3
  <2> QED BY <2>1, <2>2, <2>4
<1> QED BY <1>1, <1>2 DEF Moved

\* The height from which an open transaction has changed the chain.
Base == IF payload.rollback = <<>> THEN Len(saved.chain) ELSE Below
Entered == {chain[i] : i \in (Base + 1)..Len(chain)}

MovedOK ==
  /\ phase = "rollback" => Moved(saved.db, db, {payload.rollback[i] : i \in 1..(pos - 1)}, {})
  /\ phase = "apply" /\ ~db.failed /\ ~diverged =>
       Base <= Len(chain) /\ Moved(saved.db, db, ToSet(payload.rollback), Entered)

LEMMA InitMoved == Init => MovedOK
BY DEF Init, MovedOK

LEMMA ClosedMoved == ASSUME phase' = "none" PROVE MovedOK'
BY DEF MovedOK

LEMMA NodeStepMoved ==
  ASSUME MovedOK, UNCHANGED <<payload, phase, pos, saved, db, chain, diverged>> PROVE MovedOK'
BY DEF MovedOK, Moved, Base, Below, Entered

LEMMA BeginTransactionMoved == ASSUME IInv, BeginTransaction PROVE MovedOK'
<1>1. phase' = "rollback" /\ pos' = 1 /\ saved'.db = db /\ db' = db
  BY DEF BeginTransaction
<1>2. {payload'.rollback[i] : i \in 1..(pos' - 1)} = {}
  BY <1>1
<1>3. Moved(saved'.db, db', {payload'.rollback[i] : i \in 1..(pos' - 1)}, {})
  BY <1>1, <1>2, MovedNowhere
<1> QED BY <1>1, <1>3 DEF MovedOK

LEMMA RollBackBlockMoved == ASSUME IInv, MovedOK, RollBackBlock PROVE MovedOK'
<1> DEFINE b == payload.rollback[pos]
           d == RollBackTransactions(db, b)
           left == {payload.rollback[i] : i \in 1..(pos - 1)}
           more == {payload.rollback[i] : i \in 1..pos}
<1>1. /\ phase = "rollback" /\ phase' = "rollback" /\ payload # Null /\ pos \in 1..Len(payload.rollback)
      /\ db \in Databases /\ pos' = pos + 1 /\ UNCHANGED <<payload, saved>>
  BY DEF RollBackBlock, NodeUnchanged, IInv, PhaseOK, TypeOK
<1>2. b \in Blocks /\ pos \in Nat /\ pos >= 1
  BY <1>1, PayloadFacts
<1>3. /\ d \in Databases /\ d.contracts = db.contracts \ Cache[b].contracts
      /\ d.tokens = {t \in db.tokens : ContractOf[t] \notin Cache[b].contracts /\ t \notin Mints[b]}
  BY <1>1, <1>2, BlockRolledBack
<1>4. \E x : db' = [d EXCEPT !.dropped = x]
  BY DEF RollBackBlock
<1>5. more = left \cup {b}
  <2>1. \A i : i \in 1..pos <=> i \in 1..(pos - 1) \/ i = pos
    BY <1>2
  <2> QED BY <2>1
<1>6. pos' - 1 = pos
  BY <1>1, <1>2
<1>7. Moved(saved.db, db, left, {})
  BY <1>1 DEF MovedOK
<1> HIDE DEF b, d, left, more
<1>8. db'.contracts = d.contracts /\ db'.tokens = d.tokens
  BY <1>3, <1>4 DEF Databases
<1>9. /\ db'.contracts = db.contracts \ Cache[b].contracts
      /\ db'.tokens = {t \in db.tokens : ContractOf[t] \notin Cache[b].contracts /\ t \notin Mints[b]}
  BY <1>3, <1>8
<1>10. Moved(saved.db, db', left \cup {b}, {})
  BY ONLY <1>7, <1>9, MovedBack
<1>11. Moved(saved'.db, db', {payload'.rollback[i] : i \in 1..(pos' - 1)}, {})
  BY <1>1, <1>5, <1>6, <1>10 DEF more
<1> QED BY <1>1, <1>11 DEF MovedOK

LEMMA ResetTipMoved == ASSUME IInv, MovedOK, ResetTip PROVE MovedOK'
<1>1. /\ phase = "rollback" /\ phase' = "apply" /\ payload # Null /\ pos > Len(payload.rollback)
      /\ pos \in 1..(Len(payload.rollback) + 1)
      /\ db \in Databases /\ chain \in Seq(Blocks) /\ chain = saved.chain /\ ChainOK(chain)
      /\ UNCHANGED <<payload, saved, diverged>>
  BY DEF ResetTip, NodeUnchanged, IInv, PhaseOK, TypeOK
<1>2. /\ payload.rollback \in Seq(Blocks) /\ Below \in Nat /\ pos - 1 = Len(payload.rollback)
      /\ DOMAIN payload.rollback = 1..Len(payload.rollback) /\ Len(chain) \in Nat
  <2>1. payload.rollback \in Seq(Blocks) /\ Below \in Nat
    BY <1>1, PayloadFacts
  <2>2. Len(payload.rollback) \in Nat
    BY <2>1
  <2> QED BY <1>1, <2>1, <2>2
<1>3. {payload.rollback[i] : i \in 1..(pos - 1)} = ToSet(payload.rollback)
  BY <1>2 DEF ToSet
<1>4. Moved(saved.db, db, ToSet(payload.rollback), {})
  BY <1>1, <1>3 DEF MovedOK
<1>5. db'.contracts = db.contracts /\ db'.tokens = db.tokens
  BY <1>1 DEF ResetTip, Databases
<1>6. Moved(saved.db, db', ToSet(payload.rollback), {})
  BY <1>4, <1>5 DEF Moved
<1>7. Base' = Base
  BY <1>1 DEF Base, Below
<1>8. Len(chain') = Base /\ Base \in Nat
  <2>1. CASE payload.rollback = <<>>
    BY <1>1, <1>2, <2>1 DEF ResetTip, Base
  <2>2. CASE payload.rollback # <<>>
    <3>1. Min({Height[b] : b \in ToSet(payload.rollback)}) = Genesis + Below + 1
      BY <1>1, <2>2, EarliestHeight
    <3>2. (Genesis + Below + 1) - 1 - Genesis = Below
      BY <1>2 DEF Genesis
    <3>3. chain' = SubSeq(chain, 1, Below)
      BY <2>2, <3>1, <3>2 DEF ResetTip
    <3>4. Below <= Len(chain)
      BY <1>1, <2>2 DEF ChainOK
    <3> QED BY <1>1, <1>2, <2>2, <3>3, <3>4 DEF Base
  <2> QED BY <2>1, <2>2
<1>9. Entered' = {}
  <2>1. (Base' + 1)..Len(chain') = {}
    BY <1>7, <1>8
  <2> QED BY <2>1 DEF Entered
<1> QED BY <1>1, <1>6, <1>7, <1>8, <1>9 DEF MovedOK

LEMMA ApplyBlockMoved == ASSUME IInv, MovedOK, ApplyBlock PROVE MovedOK'
<1> DEFINE b == payload.apply[pos]
           d == ApplyTransactions(db, b)
           e == EnqueueDynamicTokens(d)
<1>1. /\ phase = "apply" /\ phase' = "apply" /\ payload # Null /\ ~db.failed
      /\ pos \in 1..Len(payload.apply) /\ db \in Databases /\ chain \in Seq(Blocks)
      /\ UNCHANGED <<payload, saved, diverged>>
  BY DEF ApplyBlock, NodeUnchanged, IInv, PhaseOK, TypeOK
<1>2. b \in Blocks
  <2>1. payload.apply \in Seq(Blocks)
    BY <1>1, PayloadFacts
  <2> QED BY <1>1, <2>1
<1>3. Base' = Base
  BY <1>1 DEF Base, Below
<1> SUFFICES ASSUME ~diverged, ~db'.failed
             PROVE  Base' <= Len(chain') /\ Moved(saved'.db, db', ToSet(payload'.rollback), Entered')
  BY <1>1 DEF MovedOK
<1>4. Base <= Len(chain) /\ Moved(saved.db, db, ToSet(payload.rollback), Entered)
  BY <1>1 DEF MovedOK
<1>5. CASE Height[b] <= db.tip
  <2>1. db' = db /\ chain' = chain
    BY <1>5 DEF ApplyBlock
  <2>2. Entered' = Entered
    BY <1>3, <2>1 DEF Entered
  <2> QED BY <1>1, <1>3, <1>4, <2>1, <2>2
<1>6. CASE ~(Height[b] <= db.tip)
  <2>1. db' = [e EXCEPT !.tip = Height[b]] /\ chain' = Append(chain, b)
    BY <1>6 DEF ApplyBlock
  <2> HIDE DEF b
  <2>2. /\ d \in Databases /\ d.contracts = db.contracts \cup Cache[b].contracts
        /\ ~d.failed => d.tokens = db.tokens \cup {t \in Mints[b] : ContractOf[t] \in d.contracts}
    BY <1>1, <1>2, BlockApplied
  <2> HIDE DEF d
  <2>3. e \in Databases /\ e.contracts = d.contracts /\ e.tokens = d.tokens /\ (d.failed => e.failed)
    BY <2>2, DynamicTokensEnqueued DEF Index
  <2> HIDE DEF e
  <2>4. db'.contracts = e.contracts /\ db'.tokens = e.tokens /\ db'.failed = e.failed
    BY <2>1, <2>3 DEF Databases
  <2>5. /\ db'.contracts = db.contracts \cup Cache[b].contracts
        /\ db'.tokens = db.tokens \cup {t \in Mints[b] : ContractOf[t] \in db'.contracts}
    BY <2>2, <2>3, <2>4
  <2>6. /\ Len(chain) \in Nat /\ DOMAIN chain = 1..Len(chain)
        /\ Len(chain') = Len(chain) + 1 /\ chain'[Len(chain) + 1] = b
        /\ \A i \in 1..Len(chain) : chain'[i] = chain[i]
    BY <1>1, <1>2, <2>1
  <2>7. Base \in Nat
    <3>1. Below \in Nat /\ saved.chain \in Seq(Blocks)
      BY <1>1, PayloadFacts DEF IInv, PhaseOK, ChainOK
    <3> QED BY <3>1 DEF Base
  <2>8. Entered' = Entered \cup {b}
    <3>1. \A i : i \in (Base + 1)..(Len(chain) + 1) <=> i \in (Base + 1)..Len(chain) \/ i = Len(chain) + 1
      BY <1>4, <2>6, <2>7
    <3>2. \A i \in (Base + 1)..Len(chain) : i \in 1..Len(chain)
      BY <2>6, <2>7
    <3>3. Entered' = {chain'[i] : i \in (Base + 1)..(Len(chain) + 1)}
      BY <1>3, <2>6 DEF Entered
    <3> QED BY <2>6, <3>1, <3>2, <3>3 DEF Entered
  <2>9. Lower(db, ToSet(chain)) /\ Begins(chain, payload.target) /\ payload.target \in Chains \cup {<<>>}
    BY <1>1, PayloadFacts DEF IInv, RowsOK, PhaseOK
  <2>10. ASSUME NEW x \in Entered, NEW t \in Mints[x], ContractOf[t] \in Cache[b].contracts
         PROVE  ContractOf[t] \in db.contracts
    <3>1. PICK i \in 1..Len(chain) : x = chain[i]
      <4>1. PICK i \in (Base + 1)..Len(chain) : x = chain[i]
        BY <2>10 DEF Entered
      <4>2. i \in 1..Len(chain)
        BY <2>6, <2>7
      <4> QED BY <4>1, <4>2
    <3>2. t \in TokenMints(x)
      BY <1>2, <2>10, ContractsTyped DEF TokenMints
    <3>3. i \in DOMAIN payload.target /\ x = payload.target[i]
      <4>1. payload.target \in Seq(Blocks)
        BY <2>9, ChainTyped
      <4> QED BY <2>6, <2>9, <3>1, <4>1 DEF Begins
    <3>4. PICK j \in 1..i : ContractOf[t] \in Cache[payload.target[j]].contracts
      BY <2>9, <3>2, <3>3, DeployedBefore
    <3>5. j \in DOMAIN chain /\ chain[j] = payload.target[j]
      BY <2>6, <2>9, <3>1 DEF Begins
    <3> QED BY <2>9, <3>4, <3>5 DEF Lower, ToSet
  <2> DEFINE before == saved.db
             now == db
             then == db'
             left == ToSet(payload.rollback)
             entered == Entered
  <2>11. Moved(before, now, left, entered)
    BY <1>4
  <2>12. /\ then.contracts = now.contracts \cup Cache[b].contracts
         /\ then.tokens = now.tokens \cup {t \in Mints[b] : ContractOf[t] \in then.contracts}
    BY <2>5
  <2>13. \A x \in entered : \A t \in Mints[x] :
           ContractOf[t] \in Cache[b].contracts => ContractOf[t] \in now.contracts
    BY <2>10
  <2> HIDE DEF before, now, then, left, entered
  <2>14. Moved(before, then, left, entered \cup {b})
    BY ONLY <2>11, <2>12, <2>13, MovedOn
  <2>15. Moved(saved.db, db', ToSet(payload.rollback), Entered')
    BY <2>8, <2>14 DEF before, then, left, entered
  <2> QED BY <1>1, <1>3, <1>4, <2>6, <2>7, <2>15
<1> QED BY <1>5, <1>6

LEMMA NextMoved == ASSUME IInv, MovedOK, [Next]_vars PROVE MovedOK'
<1>1. CASE NodeMoves \/ (\E k \in Contracts : ImportContractReads(k)) \/ UNCHANGED vars
  <2>1. UNCHANGED <<payload, phase, pos, saved, db, chain, diverged>>
    BY <1>1 DEF NodeMoves, StoreUnchanged, ImportContractReads, vars
  <2> QED BY <2>1, NodeStepMoved
<1>2. CASE Send \/ Register
  <2>1. CASE phase = "none"
    <3>1. phase' = "none"
      BY <1>2, <2>1 DEF Send, Register, StoreUnchanged
    <3> QED BY <3>1, ClosedMoved
  <2>2. CASE phase # "none"
    <3>1. payload = Null
      BY <1>2, <2>2 DEF Send, Register
    <3> QED BY <2>2, <3>1 DEF IInv, PhaseOK
  <2> QED BY <2>1, <2>2
<1>3. CASE BeginTransaction
  BY <1>3, BeginTransactionMoved
<1>4. CASE RollBackBlock
  BY <1>4, RollBackBlockMoved
<1>5. CASE ResetTip
  BY <1>5, ResetTipMoved
<1>6. CASE ApplyBlock
  BY <1>6, ApplyBlockMoved
<1>7. CASE Commit \/ Abort
  <2>1. phase' = "none"
    BY <1>7 DEF Commit, Abort
  <2> QED BY <2>1, ClosedMoved
<1>8. CASE \/ \E k \in Contracts : ContractJobReads(k) \/ ContractJobInserts(k)
           \/ ImportContractInserts
           \/ \E t \in Tokens : TokenJobReads(t) \/ FtJobWrites(t) \/ NftJobWrites(t) \/ IntervalPasses(t)
  <2>1. phase' = "none"
    BY <1>8 DEF ContractJobReads, ContractJobInserts, ImportContractInserts, TokenJobReads,
                FtJobWrites, NftJobWrites, IntervalPasses, ChainUnchanged
  <2> QED BY <2>1, ClosedMoved
<1> QED BY <1>1, <1>2, <1>3, <1>4, <1>5, <1>6, <1>7, <1>8 DEF Next, ProcessPayload

LEMMA SeenDeployed ==
  ASSUME NEW B \in SUBSET Blocks, NEW k
  PROVE  k \in Seen!DeployedIn(B) <=> \E b \in B : k \in Cache[b].contracts
<1>1. \A b \in B : Deployments[b] = Cache[b].contracts
  BY DeployedInOne DEF Deployments
<1> QED BY <1>1 DEF Seen!DeployedIn

LEMMA SeenMinted ==
  ASSUME NEW B, NEW t PROVE t \in Seen!MintedIn(B) <=> \E b \in B : t \in Mints[b]
BY DEF Seen!MintedIn

\* What has moved, in the words of the index.
LEMMA MovedSeen ==
  ASSUME NEW d, NEW e, NEW left \in SUBSET Blocks, NEW entered \in SUBSET Blocks,
         Moved(d, e, left, entered)
  PROVE  /\ e.contracts = (d.contracts \ Seen!DeployedIn(left)) \cup Seen!DeployedIn(entered)
         /\ \A t : t \in e.tokens <=>
              \/ /\ t \in d.tokens /\ t \notin Seen!MintedIn(left)
                 /\ ContractOf[t] \notin Seen!DeployedIn(left)
              \/ t \in Seen!MintedIn(entered) /\ ContractOf[t] \in e.contracts
<1> DEFINE out == Seen!DeployedIn(left)
           in == Seen!DeployedIn(entered)
           minted == Seen!MintedIn(entered)
           unminted == Seen!MintedIn(left)
<1>1. \A k : k \in out <=> \E b \in left : k \in Cache[b].contracts
  BY SeenDeployed
<1>2. \A k : k \in in <=> \E b \in entered : k \in Cache[b].contracts
  BY SeenDeployed
<1>3. \A t : (t \in unminted <=> \E b \in left : t \in Mints[b])
             /\ (t \in minted <=> \E b \in entered : t \in Mints[b])
  BY SeenMinted
<1> HIDE DEF out, in, minted, unminted
<1>4. e.contracts = (d.contracts \ out) \cup in
  <2>1. \A k : k \in e.contracts <=>
          \/ k \in d.contracts /\ \A b \in left : k \notin Cache[b].contracts
          \/ \E b \in entered : k \in Cache[b].contracts
    BY DEF Moved
  <2>2. \A k : k \in e.contracts <=> (k \in d.contracts /\ k \notin out) \/ k \in in
    BY <1>1, <1>2, <2>1
  <2> QED BY <2>2
<1>5. ASSUME NEW t
      PROVE  t \in e.tokens <=>
               \/ t \in d.tokens /\ t \notin unminted /\ ContractOf[t] \notin out
               \/ t \in minted /\ ContractOf[t] \in e.contracts
  <2>1. t \in e.tokens <=>
          \/ t \in d.tokens /\ \A b \in left : t \notin Mints[b] /\ ContractOf[t] \notin Cache[b].contracts
          \/ (\E b \in entered : t \in Mints[b]) /\ ContractOf[t] \in e.contracts
    BY DEF Moved
  <2> QED BY <1>1, <1>3, <2>1
<1> QED BY <1>4, <1>5 DEF out, in, minted, unminted

\* A commit takes whoever reads the database from one chain to the other at once.
LEMMA CommitFollows ==
  ASSUME IInv, MovedOK, Commit, ~diverged
  PROVE  \E new \in Chains \cup {<<>>} : \E old \in Chains \cup {saved.chain} :
           \E n \in 0..Len(old) : Seen!Follow(old, new, n)
<1> DEFINE new == payload.target
<1>1. /\ phase = "apply" /\ phase' = "none" /\ ~db.failed /\ pos > Len(payload.apply)
      /\ UNCHANGED <<db, chain, diverged>>
  BY DEF Commit, NodeUnchanged
<1>2. /\ payload # Null /\ db \in Databases /\ saved \in Snapshots /\ ChainOK(saved.chain)
      /\ chain \in Seq(Blocks) /\ pos \in Nat /\ Below + pos - 1 <= Len(chain)
      /\ Len(chain) <= Len(new) /\ Begins(chain, new)
  BY <1>1 DEF IInv, PhaseOK, TypeOK
<1>3. /\ new \in Chains \cup {<<>>} /\ new \in Seq(Blocks) /\ Below \in 0..Len(new) /\ Below \in Nat
      /\ Len(payload.apply) = Len(new) - Below /\ sent \in Chains \cup {<<>>} /\ sent \in Seq(Blocks)
      /\ payload.rollback \in Seq(Blocks)
  BY <1>2, PayloadFacts
<1>4. chain = new
  <2>1. Len(chain) = Len(new)
    BY <1>1, <1>2, <1>3
  <2> QED BY <1>2, <1>3, <2>1 DEF Begins
<1>5. Base <= Len(chain) /\ Moved(saved.db, db, ToSet(payload.rollback), Entered)
  BY <1>1 DEF MovedOK
<1>6. saved.db \in Databases /\ saved.chain \in Seq(Blocks)
  BY <1>2 DEF Snapshots
<1>7. ASSUME NEW old \in Seq(Blocks), NEW n \in 0..Len(old), saved.chain \in {old, new}, n = Base,
             \A i \in 1..n : old[i] = new[i],
             {old[i] : i \in (n + 1)..Len(old)} = ToSet(payload.rollback)
      PROVE  Seen!Follow(old, new, n)
  <2> DEFINE left == {old[i] : i \in (n + 1)..Len(old)}
             entered == {new[i] : i \in (n + 1)..Len(new)}
  <2>1. left \in SUBSET Blocks /\ entered \in SUBSET Blocks
    <3>1. \A i \in (n + 1)..Len(old) : i \in 1..Len(old)
      OBVIOUS
    <3>2. \A i \in (n + 1)..Len(new) : i \in 1..Len(new)
      BY <1>3
    <3> QED BY <1>3, <3>1, <3>2
  <2>2. entered = Entered
    BY <1>4, <1>7 DEF Entered
  <2>3. Moved(saved.db, db, left, entered)
    BY <1>5, <1>7, <2>2
  <2>4. n <= Len(new)
    BY <1>4, <1>5, <1>7
  <2>5. /\ (IF Committed THEN chain ELSE saved.chain) = saved.chain /\ CommittedDb = saved.db
        /\ (IF Committed THEN chain ELSE saved.chain)' = new /\ CommittedDb' = db /\ diverged' = diverged
    BY <1>1, <1>4 DEF Committed, CommittedDb
  <2> HIDE DEF left, entered, new
  <2>6. /\ db.contracts = (saved.db.contracts \ Seen!DeployedIn(left)) \cup Seen!DeployedIn(entered)
        /\ \A t : t \in db.tokens <=>
             \/ /\ t \in saved.db.tokens /\ t \notin Seen!MintedIn(left)
                /\ ContractOf[t] \notin Seen!DeployedIn(left)
             \/ t \in Seen!MintedIn(entered) /\ ContractOf[t] \in db.contracts
    BY ONLY <2>1, <2>3, MovedSeen
  <2>7. db.tokens = {t \in saved.db.tokens : /\ t \notin Seen!MintedIn(left)
                                             /\ ContractOf[t] \notin Seen!DeployedIn(left)}
                    \cup {t \in Seen!MintedIn(entered) : ContractOf[t] \in db.contracts}
    BY <2>6
  <2> QED BY <1>7, <2>4, <2>5, <2>6, <2>7 DEF Seen!Follow, left, entered
<1>8. CASE payload.rollback = <<>>
  <2> DEFINE old == saved.chain
             n == Len(old)
  <2>1. n \in Nat /\ n \in 0..Len(old) /\ n = Base
    BY <1>6, <1>8 DEF Base
  <2>2. \A i \in 1..n : old[i] = new[i]
    BY <1>2, <1>6, <1>8 DEF ChainOK, Begins
  <2>3. {old[i] : i \in (n + 1)..Len(old)} = ToSet(payload.rollback)
    <3>1. (n + 1)..Len(old) = {}
      BY <2>1
    <3>2. ToSet(<<>>) = {}
      BY DEF ToSet
    <3> QED BY <1>8, <3>1, <3>2
  <2>4. Seen!Follow(old, new, n)
    BY <1>6, <1>7, <2>1, <2>2, <2>3
  <2> QED BY <1>3, <2>1, <2>4
<1>9. CASE payload.rollback # <<>>
  <2>1. /\ Below <= Len(sent) /\ Len(payload.rollback) = Len(sent) - Below
        /\ \A i \in DOMAIN payload.rollback : payload.rollback[i] = sent[Len(sent) + 1 - i]
        /\ \A i \in 1..Below : sent[i] = new[i]
    BY <1>2, <1>9 DEF IInv, PayloadOK
  <2>2. Base = Below /\ Below \in 0..Len(sent) /\ Len(sent) \in Nat
    BY <1>3, <1>9, <2>1 DEF Base
  <2>3. saved.chain \in {sent, new}
    BY <1>2, <1>9 DEF ChainOK
  <2>4. {sent[i] : i \in (Below + 1)..Len(sent)} = ToSet(payload.rollback)
    <3>1. DOMAIN payload.rollback = 1..(Len(sent) - Below)
      BY <1>3, <2>1
    <3>2. ASSUME NEW i \in (Below + 1)..Len(sent) PROVE sent[i] \in ToSet(payload.rollback)
      <4> DEFINE j == Len(sent) + 1 - i
      <4>1. j \in 1..(Len(sent) - Below) /\ Len(sent) + 1 - j = i
        BY <1>3, <2>2
      <4>2. payload.rollback[j] = sent[i]
        BY <2>1, <3>1, <4>1
      <4> QED BY <3>1, <4>1, <4>2 DEF ToSet
    <3>3. ASSUME NEW j \in DOMAIN payload.rollback
          PROVE  payload.rollback[j] \in {sent[i] : i \in (Below + 1)..Len(sent)}
      <4>1. Len(sent) + 1 - j \in (Below + 1)..Len(sent)
        BY <1>3, <2>2, <3>1
      <4> QED BY <2>1, <4>1
    <3> QED BY <3>2, <3>3 DEF ToSet
  <2>5. Seen!Follow(sent, new, Below)
    BY <1>3, <1>7, <2>1, <2>2, <2>3, <2>4
  <2>6. sent \in Chains
    <3>1. Len(payload.rollback) # 0
      BY <1>3, <1>9
    <3>2. sent # <<>>
      BY <1>3, <2>1, <2>2, <3>1
    <3> QED BY <1>3, <3>2
  <2> QED BY <1>3, <2>2, <2>5, <2>6
<1> QED BY <1>8, <1>9

LEMMA NothingSeen ==
  ASSUME (IF Committed THEN chain ELSE saved.chain)' = IF Committed THEN chain ELSE saved.chain,
         CommittedDb'.contracts = CommittedDb.contracts, CommittedDb'.tokens = CommittedDb.tokens,
         diverged' = diverged
  PROVE  UNCHANGED Seen!vars
BY DEF Seen!vars

\* A step that the index sees nothing of.
LEMMA OtherStepSeen ==
  ASSUME \/ NodeMoves \/ Send \/ BeginTransaction \/ RollBackBlock \/ ResetTip \/ ApplyBlock \/ Abort
         \/ \E k \in Contracts : ImportContractReads(k)
         \/ UNCHANGED vars
  PROVE  UNCHANGED Seen!vars
<1>1. CASE NodeMoves \/ Send \/ (\E k \in Contracts : ImportContractReads(k)) \/ UNCHANGED vars
  <2>1. UNCHANGED <<phase, saved, db, chain, diverged>>
    BY <1>1 DEF NodeMoves, Send, StoreUnchanged, ImportContractReads, vars
  <2> QED BY <2>1, NothingSeen DEF Committed, CommittedDb
<1>2. CASE BeginTransaction
  <2>1. /\ phase = "none" /\ phase' = "rollback" /\ saved'.db = db /\ saved'.chain = chain
        /\ diverged' = diverged
    BY <1>2 DEF BeginTransaction, NodeUnchanged
  <2> QED BY <2>1, NothingSeen DEF Committed, CommittedDb
<1>3. CASE RollBackBlock \/ ResetTip \/ ApplyBlock
  <2>1. phase # "none" /\ phase' # "none" /\ saved' = saved /\ diverged' = diverged
    BY <1>3 DEF RollBackBlock, ResetTip, ApplyBlock, NodeUnchanged
  <2> QED BY <2>1, NothingSeen DEF Committed, CommittedDb
<1>4. CASE Abort
  <2>1. /\ phase # "none" /\ phase' = "none" /\ db' = saved.db /\ chain' = saved.chain
        /\ diverged' = diverged
    BY <1>4 DEF Abort, NodeUnchanged
  <2> QED BY <2>1, NothingSeen DEF Committed, CommittedDb
<1> QED BY <1>1, <1>2, <1>3, <1>4

\* A job that writes neither contracts nor tokens.
LEMMA JobSeen ==
  ASSUME IInv, \/ \E k \in Contracts : ContractJobReads(k)
               \/ \E t \in Tokens : TokenJobReads(t) \/ FtJobWrites(t) \/ NftJobWrites(t) \/ IntervalPasses(t)
  PROVE  UNCHANGED Seen!vars
<1>1. db \in Databases
  BY DEF IInv, TypeOK
<1>2. phase = "none" /\ phase' = "none" /\ chain' = chain /\ diverged' = diverged
  BY DEF ContractJobReads, TokenJobReads, FtJobWrites, NftJobWrites, IntervalPasses, ChainUnchanged
<1>3. db'.contracts = db.contracts /\ db'.tokens = db.tokens
  <2>1. CASE \E k \in Contracts : ContractJobReads(k)
    BY <1>1, <2>1 DEF ContractJobReads, Databases
  <2>2. CASE \E t \in Tokens : TokenJobReads(t)
    BY <2>2 DEF TokenJobReads
  <2>3. ASSUME NEW t \in Tokens, FtJobWrites(t) PROVE db'.contracts = db.contracts /\ db'.tokens = db.tokens
    <3>1. \E r : db' = [db EXCEPT !.supply[t] = StoredSupply(reads[t]), !.pending = @ \ {t},
                                  !.stale = @ \ {t}, !.raced = r]
      BY <2>3 DEF FtJobWrites
    <3> QED BY <1>1, <3>1 DEF Databases
  <2>4. CASE \E t \in Tokens : NftJobWrites(t) \/ IntervalPasses(t)
    BY <1>1, <2>4 DEF NftJobWrites, IntervalPasses, Databases
  <2> QED BY <2>1, <2>2, <2>3, <2>4
<1> QED BY <1>2, <1>3, NothingSeen DEF Committed, CommittedDb

LEMMA ContractJobInsertsSeen ==
  ASSUME IInv, SupplyInv, NEW k \in Contracts, ContractJobInserts(k)
  PROVE  \E S \in SUBSET {t \in Tokens : ContractOf[t] = k} : Seen!AddTokens(k, S)
<1> DEFINE read == imports[k]
           d == InsertTokens(db, read)
<1>1. phase = "none" /\ phase' = "none" /\ chain' = chain /\ diverged' = diverged
  BY DEF ContractJobInserts, ChainUnchanged
<1>2. db \in Databases /\ imports \in [Contracts -> (SUBSET Tokens) \cup {Null}] /\ read # Null
  BY DEF IInv, TypeOK, ContractJobInserts
<1>3. read \in SUBSET Tokens
  BY <1>2
<1>4. k \in db.contracts /\ \A t \in read : ContractOf[t] = k
  BY <1>2 DEF SupplyInv, OwnedOK, ReadsOwned
<1>5. read \in SUBSET {t \in Tokens : ContractOf[t] = k}
  BY <1>3, <1>4
<1>6. d \in Databases /\ d.contracts = db.contracts /\ d.tokens = db.tokens \cup read
  BY <1>2, <1>3, InsertedTyped DEF Index
<1>7. \E x, y : db' = [d EXCEPT !.importDue = x, !.early = y]
  BY DEF ContractJobInserts
<1> HIDE DEF d
<1>8. db'.contracts = db.contracts /\ db'.tokens = db.tokens \cup read
  BY <1>6, <1>7 DEF Databases
<1>9. Seen!AddTokens(k, read)
  BY <1>1, <1>4, <1>8 DEF Seen!AddTokens, Committed, CommittedDb
<1> QED BY <1>5, <1>9

LEMMA ImportContractInsertsSeen ==
  ASSUME IInv, ImportContractInserts PROVE \E k \in Contracts : Seen!AddContract(k)
<1> DEFINE k == importing
           d == EnqueueContracts(db, {k})
<1>1. phase = "none" /\ phase' = "none" /\ chain' = chain /\ diverged' = diverged
  BY DEF ImportContractInserts
<1>2. db \in Databases /\ k \in Contracts
  BY DEF IInv, TypeOK, ImportContractInserts
<1>3. {k} \in SUBSET Contracts
  BY <1>2
<1>4. d \in Databases /\ d.contracts = db.contracts \cup {k} /\ d.tokens = db.tokens
  BY <1>2, <1>3, ContractsEnqueued DEF Index
<1>5. \E x : db' = [d EXCEPT !.imported = x]
  BY DEF ImportContractInserts
<1> HIDE DEF d
<1>6. db'.contracts = db.contracts \cup {k} /\ db'.tokens = db.tokens
  BY <1>4, <1>5 DEF Databases
<1>7. Seen!AddContract(k)
  BY <1>1, <1>6 DEF Seen!AddContract, Committed, CommittedDb
<1> QED BY <1>2, <1>7

LEMMA NextSeen ==
  ASSUME IInv, SupplyInv, MovedOK, [Next]_vars PROVE Seen!Next \/ UNCHANGED Seen!vars
<1>1. CASE \/ NodeMoves \/ Send \/ BeginTransaction \/ RollBackBlock \/ ResetTip \/ ApplyBlock \/ Abort
           \/ \E k \in Contracts : ImportContractReads(k)
           \/ UNCHANGED vars
  BY <1>1, OtherStepSeen
<1>2. CASE Register
  <2>1. UNCHANGED <<phase, saved, db, chain>>
    BY <1>2 DEF Register, StoreUnchanged
  <2>2. CASE diverged'
    BY <2>1, <2>2 DEF Seen!Next, Seen!Stray, Committed, CommittedDb
  <2>3. CASE ~diverged'
    <3>1. diverged' = (diverged \/ ~IsPrefix(chain, node)) /\ diverged \in BOOLEAN
      BY <1>2 DEF Register, IInv, TypeOK
    <3>2. diverged' = diverged
      BY <2>3, <3>1
    <3> QED BY <2>1, <3>2, NothingSeen DEF Committed, CommittedDb
  <2> QED BY <2>2, <2>3
<1>3. CASE Commit
  <2>1. CASE diverged
    <3>1. diverged'
      BY <1>3, <2>1 DEF Commit, NodeUnchanged
    <3> QED BY <2>1, <3>1 DEF Seen!Next, Seen!Stray
  <2>2. CASE ~diverged
    <3>1. \E new \in Chains \cup {<<>>} : \E old \in Chains \cup {saved.chain} :
            \E n \in 0..Len(old) : Seen!Follow(old, new, n)
      BY <1>3, <2>2, CommitFollows
    <3>2. ~Committed
      BY <1>3 DEF Commit, Committed
    <3> QED BY <3>1, <3>2 DEF Seen!Next
  <2> QED BY <2>1, <2>2
<1>4. CASE \/ \E k \in Contracts : ContractJobReads(k)
           \/ \E t \in Tokens : TokenJobReads(t) \/ FtJobWrites(t) \/ NftJobWrites(t) \/ IntervalPasses(t)
  BY <1>4, JobSeen
<1>5. CASE \E k \in Contracts : ContractJobInserts(k)
  <2>1. \E k \in Contracts : \E S \in SUBSET {t \in Tokens : ContractOf[t] = k} : Seen!AddTokens(k, S)
    BY <1>5, ContractJobInsertsSeen
  <2> QED BY <2>1 DEF Seen!Next
<1>6. CASE ImportContractInserts
  BY <1>6, ImportContractInsertsSeen DEF Seen!Next
<1> QED BY <1>1, <1>2, <1>3, <1>4, <1>5, <1>6 DEF Next, ProcessPayload

\* For any blocks, forks, faults and jobs, whoever reads the database sees an index that
\* follows the chain by whole payloads: none that is half applied or half rolled back,
\* none that counts twice when it comes twice, and no contract or token that goes for
\* another reason (chainhook-pg-store.ts:21-56, 58-99, 280-291, 398-425).
THEOREM IngestionIsAnIndex == Spec => ImplementsIndex
<1>1. Init => SupplyInv /\ MovedOK
  BY InitSupplies, InitMoved
<1>2. Init => Seen!Init
  BY DEF Init, EmptyDatabase, Seen!Init, Committed, CommittedDb
<1>3. IInv /\ SupplyInv /\ MovedOK /\ [Next]_vars => SupplyInv' /\ MovedOK'
  BY NextSupplies, NextMoved
<1>4. IInv /\ SupplyInv /\ MovedOK /\ [Next]_vars => [Seen!Next]_(Seen!vars)
  BY NextSeen
<1> QED BY <1>1, <1>2, <1>3, <1>4, Invariant, PTL DEF Spec, ImplementsIndex, Seen!Spec
=============================================================================
