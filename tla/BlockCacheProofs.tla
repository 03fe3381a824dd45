-------------------------- MODULE BlockCacheProofs --------------------------
(* Theorems about BlockCache, for every contract interface and every block.  *)
EXTENDS BlockCache, WellFoundedInduction, TLAPS

\* What a trait's function asks of the interface that has it: a function of its
\* name with as many arguments.
LEMMA FoundFunction ==
  ASSUME NEW abi, NEW trait, NEW fun \in trait, AbiContains(abi, trait)
  PROVE  \E f \in abi.functions : f.name = fun.name /\ Len(f.args) = Len(fun.args)
BY DEF AbiContains, FindFunction

\* Two traits that have a function of one name with another number of arguments
\* are not had by one contract.
LEMMA Incompatible ==
  ASSUME NEW abi, \A f, g \in abi.functions : f.name = g.name => f = g,
         NEW trait, NEW fun \in trait, NEW other, NEW gun \in other,
         fun.name = gun.name, Len(fun.args) # Len(gun.args)
  PROVE  ~(AbiContains(abi, trait) /\ AbiContains(abi, other))
<1>1. SUFFICES ASSUME AbiContains(abi, trait), AbiContains(abi, other) PROVE FALSE
  OBVIOUS
<1>2. PICK f \in abi.functions : f.name = fun.name /\ Len(f.args) = Len(fun.args)
  BY <1>1, FoundFunction
<1>3. PICK g \in abi.functions : g.name = gun.name /\ Len(g.args) = Len(gun.args)
  BY <1>1, FoundFunction
<1>4. f = g
  BY <1>2, <1>3
<1> QED
  BY <1>2, <1>3, <1>4

\* The functions the traits disagree about.
LEMMA Disagreements ==
  /\ Function("transfer", <<"uint128", "uint128", "principal", "principal">>) \in SftTraitFunctions
  /\ Function("transfer", <<"uint128", "principal", "principal">>) \in NftTraitFunctions
  /\ Function("get-token-uri", <<"uint128">>) \in SftTraitFunctions \cap NftTraitFunctions
  /\ Function("get-token-uri", <<>>) \in FtTraitFunctions
BY DEF SftTraitFunctions, NftTraitFunctions, FtTraitFunctions

\* A contract whose functions have names of their own, as all Clarity contracts', has
\* at most one of the three traits: which SIP it is taken for does not depend on the
\* order of the tests (sip-validation.ts:219-236 getSmartContractSip()).
THEOREM OneTraitEach ==
  ASSUME NEW abi, \A f, g \in abi.functions : f.name = g.name => f = g
  PROVE  /\ ~(AbiContains(abi, SftTraitFunctions) /\ AbiContains(abi, NftTraitFunctions))
         /\ ~(AbiContains(abi, SftTraitFunctions) /\ AbiContains(abi, FtTraitFunctions))
         /\ ~(AbiContains(abi, NftTraitFunctions) /\ AbiContains(abi, FtTraitFunctions))
<1> DEFINE sftTransfer == Function("transfer", <<"uint128", "uint128", "principal", "principal">>)
           nftTransfer == Function("transfer", <<"uint128", "principal", "principal">>)
           uriOfNumber == Function("get-token-uri", <<"uint128">>)
           uri == Function("get-token-uri", <<>>)
<1>1. sftTransfer.name = nftTransfer.name /\ Len(sftTransfer.args) # Len(nftTransfer.args)
  BY DEF Function
<1>2. uriOfNumber.name = uri.name /\ Len(uriOfNumber.args) # Len(uri.args)
  BY DEF Function
<1>3. /\ sftTransfer \in SftTraitFunctions /\ nftTransfer \in NftTraitFunctions
      /\ uriOfNumber \in SftTraitFunctions /\ uriOfNumber \in NftTraitFunctions
      /\ uri \in FtTraitFunctions
  BY Disagreements
<1> HIDE DEF sftTransfer, nftTransfer, uriOfNumber, uri
<1>4. ~(AbiContains(abi, SftTraitFunctions) /\ AbiContains(abi, NftTraitFunctions))
  BY <1>1, <1>3, Incompatible
<1>5. ~(AbiContains(abi, SftTraitFunctions) /\ AbiContains(abi, FtTraitFunctions))
  BY <1>2, <1>3, Incompatible
<1>6. ~(AbiContains(abi, NftTraitFunctions) /\ AbiContains(abi, FtTraitFunctions))
  BY <1>2, <1>3, Incompatible
<1> QED
  BY <1>4, <1>5, <1>6

-----------------------------------------------------------------------------
(* Induction, and folds over intervals.                                     *)

\* Induction over the natural numbers, for a set of them.
LEMMA Induction ==
  ASSUME NEW S, 0 \in S, \A n \in Nat : n \in S => n + 1 \in S
  PROVE  Nat \subseteq S
<1> DEFINE T == Nat \ S
           R == OpToRel(<, Nat)
<1> SUFFICES ASSUME T # {} PROVE FALSE
  OBVIOUS
<1>1. IsWellFoundedOn(R, Nat)
  BY NatLessThanWellFounded
<1>2. T \subseteq Nat
  OBVIOUS
<1> HIDE DEF R, T
<1>3. \E x \in T : \A y \in T : ~ (<<y, x>> \in R)
  BY <1>1, <1>2, WFMin
<1>4. PICK x \in T : \A y \in T : ~ (<<y, x>> \in R)
  BY <1>3
<1>5. \A a, b \in Nat : a < b => <<a, b>> \in R
  BY DEF R, OpToRel
<1>6. x \in Nat /\ x # 0
  BY DEF T
<1>7. x - 1 \in Nat /\ x - 1 < x
  BY <1>6
<1>8. x - 1 \notin T
  BY <1>4, <1>5, <1>6, <1>7
<1> QED BY <1>6, <1>7, <1>8 DEF T

\* A set of numbers up to n has a greatest one.
LEMMA MaxExists ==
  ASSUME NEW n \in Nat, NEW s \in SUBSET (1..n), s # {}
  PROVE  Max(s) \in s /\ \A y \in s : y <= Max(s)
<1> DEFINE S == {m \in Nat : \A r \in SUBSET (1..m) : r # {} => \E x \in r : \A y \in r : x >= y}
<1>1. 0 \in S
  <2>1. \A r \in SUBSET (1..0) : r = {}
    OBVIOUS
  <2> QED BY <2>1
<1>2. ASSUME NEW m \in Nat, m \in S PROVE m + 1 \in S
  <2> SUFFICES ASSUME NEW r \in SUBSET (1..(m + 1)), r # {} PROVE \E x \in r : \A y \in r : x >= y
    OBVIOUS
  <2>1. CASE m + 1 \in r
    BY <2>1
  <2>2. CASE m + 1 \notin r
    <3>1. r \in SUBSET (1..m)
      BY <2>2
    <3> QED BY <1>2, <3>1
  <2> QED BY <2>1, <2>2
<1> HIDE DEF S
<1>3. n \in S
  BY <1>1, <1>2, Induction
<1>4. \E x \in s : \A y \in s : x >= y
  BY <1>3 DEF S
<1>5. Max(s) \in s /\ \A y \in s : Max(s) >= y
  BY <1>4 DEF Max
<1>6. s \subseteq Int
  OBVIOUS
<1> QED BY <1>5, <1>6

LEMMA MaxInterval ==
  ASSUME NEW n \in Nat \ {0} PROVE Max(1..n) = n /\ (1..n) \ {n} = 1..(n - 1)
<1>1. n \in Nat /\ 1..n \in SUBSET (1..n) /\ n \in 1..n /\ 1..n # {}
  OBVIOUS
<1>2. Max(1..n) \in 1..n /\ \A y \in 1..n : y <= Max(1..n)
  BY <1>1, MaxExists
<1> QED BY <1>1, <1>2

\* The recursion by which a fold over 1..m is defined, and that it has a solution.
Solves(h, m, D, base, op) ==
  /\ h \in [SUBSET (1..m) -> D]
  /\ \A s \in SUBSET (1..m) : h[s] = IF s = {} THEN base ELSE op[<<Max(s), h[s \ {Max(s)}]>>]

LEMMA FoldExists ==
  ASSUME NEW n \in Nat, NEW D, NEW base \in D, NEW op \in [(1..n) \X D -> D]
  PROVE  \E h : Solves(h, n, D, base, op)
<1> DEFINE Solvable(m) == \E h : Solves(h, m, D, base, op)
           S == {m \in Nat : m <= n => Solvable(m)}
<1>1. 0 \in S
  <2> DEFINE h == [s \in SUBSET (1..0) |-> base]
  <2>1. \A s \in SUBSET (1..0) : s = {}
    OBVIOUS
  <2>2. Solves(h, 0, D, base, op)
    BY <2>1 DEF Solves
  <2> HIDE DEF h
  <2> QED BY <2>2
<1>2. ASSUME NEW m \in Nat, m \in S PROVE m + 1 \in S
  <2> HIDE DEF Solvable
  <2> SUFFICES ASSUME m + 1 <= n PROVE Solvable(m + 1)
    OBVIOUS
  <2>0. Solvable(m)
    BY <1>2
  <2>1. PICK g : Solves(g, m, D, base, op)
    BY <2>0 DEF Solvable
  <2> DEFINE h == [s \in SUBSET (1..(m + 1)) |->
                     IF m + 1 \in s THEN op[<<m + 1, g[s \ {m + 1}]>>] ELSE g[s]]
  <2>2. ASSUME NEW s \in SUBSET (1..(m + 1))
        PROVE  h[s] \in D /\ h[s] = IF s = {} THEN base ELSE op[<<Max(s), h[s \ {Max(s)}]>>]
    <3>1. s \ {m + 1} \in SUBSET (1..m) /\ s \ {m + 1} \in SUBSET (1..(m + 1))
      OBVIOUS
    <3>2. g[s \ {m + 1}] \in D /\ h[s \ {m + 1}] = g[s \ {m + 1}]
      BY <2>1, <3>1 DEF Solves
    <3>3. CASE m + 1 \in s
      <4>1. Max(s) \in s /\ \A y \in s : y <= Max(s)
        <5>1. m + 1 \in Nat /\ s # {}
          BY <3>3
        <5> QED BY <5>1, MaxExists
      <4>2. Max(s) = m + 1
        <5>1. Max(s) \in 1..(m + 1) /\ m + 1 <= Max(s)
          BY <3>3, <4>1
        <5> QED BY <5>1
      <4>3. <<m + 1, g[s \ {m + 1}]>> \in (1..n) \X D
        BY <3>2
      <4> QED BY <3>2, <3>3, <4>2, <4>3
    <3>4. CASE m + 1 \notin s
      <4>1. s \in SUBSET (1..m) /\ h[s] = g[s]
        BY <3>4
      <4>2. s \ {Max(s)} \in SUBSET (1..(m + 1)) /\ m + 1 \notin s \ {Max(s)}
        BY <3>4
      <4>3. h[s \ {Max(s)}] = g[s \ {Max(s)}]
        BY <4>2
      <4> QED BY <2>1, <4>1, <4>3 DEF Solves
    <3> QED BY <3>3, <3>4
  <2>3. h \in [SUBSET (1..(m + 1)) -> D]
    BY <2>2
  <2>4. Solves(h, m + 1, D, base, op)
    BY <2>2, <2>3 DEF Solves
  <2> HIDE DEF h
  <2> QED BY <2>4 DEF Solvable
<1> HIDE DEF S, Solvable
<1>3. n \in S
  BY <1>1, <1>2, Induction
<1>4. Solvable(n)
  BY <1>3 DEF S
<1> QED BY <1>4 DEF Solvable

-----------------------------------------------------------------------------
(* What is collected from a block.                                          *)

Notifications ==
  [tx : Nat, event : Nat, contract : Contracts, tokens : SUBSET Tokens,
   mode : STRING \cup {"standard"}]
Deltas == UNION {[K -> Int] : K \in SUBSET Contracts}
Caches ==
  [contracts : SUBSET {k \in Contracts : Sip[k] # Null}, notifications : Seq(Notifications),
   nftMints : SUBSET Tokens, sftMints : SUBSET Tokens, ftSupplyDelta : Deltas]

\* What is known of an event, by its type.
LEMMA EventOfType ==
  ASSUME NEW e \in Events
  PROVE  /\ e.type \in {"SmartContractEvent", "FTMintEvent", "FTBurnEvent", "NFTMintEvent"}
         /\ e.type = "SmartContractEvent" => e.value \in {Null} \cup LogValues
         /\ e.type \in {"FTMintEvent", "FTBurnEvent"} => e.contract \in Contracts /\ e.amount \in Nat
         /\ e.type = "NFTMintEvent" => e.token \in {Null} \cup Tokens
BY DEF Events

\* And of a log's value, by its topic.
LEMMA ValueOfTopic ==
  ASSUME NEW v \in LogValues
  PROVE  /\ v.topic \in {"sft_mint", "token-metadata-update"}
         /\ v.topic = "sft_mint" => v.token \in Tokens
         /\ v.topic = "token-metadata-update" =>
              v.contract \in Contracts /\ v.tokens \in {Null} \cup SUBSET Tokens
              /\ v.mode \in {Null} \cup STRING
BY DEF LogValues

LEMMA NotificationTyped ==
  ASSUME NEW e \in Events, e.type = "SmartContractEvent", NEW sender, Notifies(sender, e),
         NEW i \in Nat, NEW j \in Nat
  PROVE  NotificationOf(e, i, j) \in Notifications
<1>1. e.value \in LogValues /\ e.value.topic = "token-metadata-update"
  BY EventOfType DEF Notifies
<1>2. /\ e.value.contract \in Contracts /\ e.value.tokens \in {Null} \cup SUBSET Tokens
      /\ e.value.mode \in {Null} \cup STRING
  BY <1>1, ValueOfTopic
<1> DEFINE tokens == IF e.value.class = "nft" /\ e.value.tokens # Null THEN e.value.tokens ELSE {}
           mode == IF e.value.mode \in {Null, ""} THEN "standard" ELSE e.value.mode
<1>3. tokens \in SUBSET Tokens
  BY <1>2
<1>4. mode \in STRING \cup {"standard"}
  BY <1>2
<1>5. NotificationOf(e, i, j)
        = [tx |-> i, event |-> j, contract |-> e.value.contract, tokens |-> tokens, mode |-> mode]
  BY DEF NotificationOf
<1> HIDE DEF tokens, mode
<1> QED BY <1>2, <1>3, <1>4, <1>5 DEF Notifications

LEMMA AddDeltaTyped ==
  ASSUME NEW d \in Deltas, NEW k \in Contracts, NEW amount \in Int
  PROVE  AddDelta(d, k, amount) \in Deltas
<1>1. PICK K \in SUBSET Contracts : d \in [K -> Int]
  BY DEF Deltas
<1>2. AddDelta(d, k, amount) \in [K \cup {k} -> Int]
  BY <1>1 DEF AddDelta
<1>3. K \cup {k} \in SUBSET Contracts
  OBVIOUS
<1> QED BY <1>2, <1>3 DEF Deltas

\* The tokens that an event mints.
MintOf(e) ==
  IF e.type = "NFTMintEvent" THEN {e.token} \ {Null}
  ELSE IF e.type = "SmartContractEvent" /\ IsSftMint(e) THEN {e.value.token} ELSE {}

MintsIn(cache) == cache.nftMints \cup cache.sftMints

\* One event adds a notification, a mint or a delta.
LEMMA CacheEventTyped ==
  ASSUME NEW c \in Caches, NEW tx \in StacksTransactions, NEW i \in Nat, NEW j \in DOMAIN tx.events
  PROVE  /\ CacheEvent(c, tx, i, j) \in Caches
         /\ CacheEvent(c, tx, i, j).contracts = c.contracts
         /\ MintsIn(CacheEvent(c, tx, i, j)) = MintsIn(c) \cup MintOf(tx.events[j])
<1> DEFINE e == tx.events[j]
<1>1. e \in Events /\ j \in Nat
  BY DEF StacksTransactions
<1>2. /\ e.type \in {"SmartContractEvent", "FTMintEvent", "FTBurnEvent", "NFTMintEvent"}
      /\ e.type = "SmartContractEvent" => e.value \in {Null} \cup LogValues
      /\ e.type \in {"FTMintEvent", "FTBurnEvent"} => e.contract \in Contracts /\ e.amount \in Nat
      /\ e.type = "NFTMintEvent" => e.token \in {Null} \cup Tokens
  BY <1>1, EventOfType
<1> HIDE DEF e
<1>3. CASE e.type = "SmartContractEvent" /\ Notifies(tx.sender, e)
  <2> DEFINE n == NotificationOf(e, i, j)
  <2>1. n \in Notifications
    BY <1>1, <1>3, NotificationTyped
  <2>2. ~IsSftMint(e)
    BY <1>3 DEF IsSftMint, Notifies
  <2>3. MintOf(e) = {}
    BY <1>3, <2>2 DEF MintOf
  <2>5. CacheEvent(c, tx, i, j) = [c EXCEPT !.notifications = Append(c.notifications, n)]
    BY <1>3, <2>2 DEF CacheEvent, Caches, e
  <2> HIDE DEF n
  <2>4. Append(c.notifications, n) \in Seq(Notifications)
    BY <2>1 DEF Caches
  <2> QED BY <2>3, <2>4, <2>5 DEF Caches, MintsIn, e
<1>4. CASE e.type = "SmartContractEvent" /\ ~Notifies(tx.sender, e) /\ IsSftMint(e)
  <2> DEFINE t == e.value.token
  <2>1. t \in Tokens
    BY <1>2, <1>4, ValueOfTopic DEF IsSftMint
  <2> HIDE DEF t
  <2>2. CacheEvent(c, tx, i, j) = [c EXCEPT !.sftMints = c.sftMints \cup {t}]
    BY <1>4 DEF CacheEvent, Caches, t, e
  <2>3. MintOf(e) = {t}
    BY <1>4 DEF MintOf, t
  <2> QED BY <2>1, <2>2, <2>3 DEF Caches, MintsIn, e
<1>5. CASE e.type \in {"FTMintEvent", "FTBurnEvent"}
  <2> DEFINE amount == IF e.type = "FTMintEvent" THEN e.amount ELSE -e.amount
             d == AddDelta(c.ftSupplyDelta, e.contract, amount)
  <2>1. d \in Deltas
    BY <1>2, <1>5, AddDeltaTyped DEF Caches
  <2>2. CacheEvent(c, tx, i, j) = [c EXCEPT !.ftSupplyDelta = d]
    BY <1>5 DEF CacheEvent, Caches, e
  <2> HIDE DEF d
  <2>3. MintOf(e) = {}
    BY <1>5 DEF MintOf
  <2> QED BY <2>1, <2>2, <2>3 DEF Caches, MintsIn, e
<1>6. CASE e.type = "NFTMintEvent" /\ e.token # Null
  <2>1. CacheEvent(c, tx, i, j) = [c EXCEPT !.nftMints = c.nftMints \cup {e.token}]
    BY <1>6 DEF CacheEvent, Caches, e
  <2>2. MintOf(e) = {e.token} /\ e.token \in Tokens
    BY <1>2, <1>6 DEF MintOf
  <2> QED BY <2>1, <2>2 DEF Caches, MintsIn, e
<1>7. CASE \/ e.type = "NFTMintEvent" /\ e.token = Null
           \/ e.type = "SmartContractEvent" /\ ~Notifies(tx.sender, e) /\ ~IsSftMint(e)
  <2>1. CacheEvent(c, tx, i, j) = c
    BY <1>7 DEF CacheEvent, e
  <2>2. MintOf(e) = {}
    BY <1>7 DEF MintOf
  <2> QED BY <2>1, <2>2 DEF e
<1> QED BY <1>2, <1>3, <1>4, <1>5, <1>6, <1>7

\* What a cache has of an FT's delta, and by how much an event changes it.
DeltaIn(cache, k) == IF k \in DOMAIN cache.ftSupplyDelta THEN cache.ftSupplyDelta[k] ELSE 0
ChangesFt(event, k) == event.type \in {"FTMintEvent", "FTBurnEvent"} /\ event.contract = k
AmountOf(event) == IF event.type = "FTMintEvent" THEN event.amount ELSE -event.amount

LEMMA DeltaInTyped ==
  ASSUME NEW c \in Caches, NEW k PROVE DeltaIn(c, k) \in Int
<1>1. c.ftSupplyDelta \in Deltas
  BY DEF Caches
<1>2. PICK K \in SUBSET Contracts : c.ftSupplyDelta \in [K -> Int]
  BY <1>1 DEF Deltas
<1> QED BY <1>2 DEF DeltaIn

\* Each mint or burn of an FT adds its amount, and nothing else changes a delta.
LEMMA CacheEventDelta ==
  ASSUME NEW c \in Caches, NEW tx \in StacksTransactions, NEW i \in Nat, NEW j \in DOMAIN tx.events,
         NEW k \in Contracts
  PROVE  DeltaIn(CacheEvent(c, tx, i, j), k)
           = DeltaIn(c, k) + (IF ChangesFt(tx.events[j], k) THEN AmountOf(tx.events[j]) ELSE 0)
<1> DEFINE e == tx.events[j]
<1>1. e \in Events /\ j \in Nat
  BY DEF StacksTransactions
<1>2. /\ e.type \in {"SmartContractEvent", "FTMintEvent", "FTBurnEvent", "NFTMintEvent"}
      /\ e.type \in {"FTMintEvent", "FTBurnEvent"} => e.contract \in Contracts /\ e.amount \in Nat
  BY <1>1, EventOfType
<1>3. DeltaIn(c, k) \in Int
  BY DeltaInTyped
<1> HIDE DEF e
<1>4. CASE e.type \in {"FTMintEvent", "FTBurnEvent"}
  <2> DEFINE d == c.ftSupplyDelta
             r == AddDelta(d, e.contract, AmountOf(e))
  <2>1. CacheEvent(c, tx, i, j) = [c EXCEPT !.ftSupplyDelta = r]
    BY <1>4 DEF CacheEvent, Caches, AmountOf, e
  <2>2. CacheEvent(c, tx, i, j).ftSupplyDelta = r
    <3> HIDE DEF r
    <3> QED BY <2>1 DEF Caches
  <2>3. DOMAIN r = DOMAIN d \cup {e.contract}
    BY DEF AddDelta
  <2>4. \A m \in DOMAIN r :
          r[m] = (IF m \in DOMAIN d THEN d[m] ELSE 0) + (IF m = e.contract THEN AmountOf(e) ELSE 0)
    BY DEF AddDelta
  <2>5. AmountOf(e) \in Int
    BY <1>2, <1>4 DEF AmountOf
  <2> HIDE DEF r, d
  <2>6. DeltaIn(CacheEvent(c, tx, i, j), k) = IF k \in DOMAIN r THEN r[k] ELSE 0
    BY <2>2 DEF DeltaIn
  <2>7. DeltaIn(c, k) = IF k \in DOMAIN d THEN d[k] ELSE 0
    BY DEF DeltaIn, d
  <2> QED BY <1>3, <1>4, <2>3, <2>4, <2>5, <2>6, <2>7 DEF ChangesFt, e
<1>5. CASE e.type \in {"SmartContractEvent", "NFTMintEvent"}
  <2>1. CacheEvent(c, tx, i, j).ftSupplyDelta = c.ftSupplyDelta
    BY <1>5 DEF CacheEvent, Caches, e
  <2>2. ~ChangesFt(e, k)
    BY <1>5 DEF ChangesFt
  <2> QED BY <1>3, <2>1, <2>2 DEF DeltaIn, e
<1> QED BY <1>2, <1>4, <1>5

\* The events of a transaction are collected one after the other.
LEMMA EventsCollected ==
  ASSUME NEW c \in Caches, NEW tx \in StacksTransactions, tx.success, NEW i \in Nat
  PROVE  \E g \in [0..Len(tx.events) -> Caches] :
           /\ g[0] = CacheDeployment(c, tx)
           /\ \A j \in 1..Len(tx.events) : g[j] = CacheEvent(g[j - 1], tx, i, j)
           /\ CacheTransaction(c, tx, i) = g[Len(tx.events)]
<1> DEFINE n == Len(tx.events)
           base == CacheDeployment(c, tx)
           seq == [j \in DOMAIN tx.events |-> j]
           op == [p \in (1..n) \X Caches |-> CacheEvent(p[2], tx, i, p[1])]
           Fold(it) == it = [s \in SUBSET (DOMAIN seq) |->
                                 IF s = {} THEN base
                                 ELSE CacheEvent(it[s \ {Max(s)}], tx, i, seq[Max(s)])]
           iter == CHOOSE it : Fold(it)
           g == [j \in 0..n |-> iter[1..j]]
<1>1. n \in Nat /\ DOMAIN tx.events = 1..n /\ DOMAIN seq = 1..n /\ \A j \in 1..n : seq[j] = j
  BY DEF StacksTransactions
<1>2. base \in Caches
  BY DEF CacheDeployment, Caches, StacksTransactions
<1>3. \A d \in Caches, j \in 1..n : CacheEvent(d, tx, i, j) \in Caches
  BY <1>1, CacheEventTyped
<1>4. op \in [(1..n) \X Caches -> Caches]
  BY <1>3
<1>5. CacheTransaction(c, tx, i) = iter[DOMAIN seq]
  BY DEF CacheTransaction, FoldLeft, MapThenFoldSet
<1>6. PICK h : Solves(h, n, Caches, base, op)
  <2> HIDE DEF n, base, op
  <2> QED BY <1>1, <1>2, <1>4, FoldExists
<1>7. Fold(h)
  <2>1. ASSUME NEW s \in SUBSET (1..n), s # {}
        PROVE  h[s] = CacheEvent(h[s \ {Max(s)}], tx, i, seq[Max(s)])
    <3>1. Max(s) \in 1..n /\ seq[Max(s)] = Max(s)
      BY <1>1, <2>1, MaxExists
    <3>2. h[s \ {Max(s)}] \in Caches
      BY <1>6 DEF Solves
    <3> QED BY <1>6, <2>1, <3>1, <3>2 DEF Solves
  <2> HIDE DEF base, seq, n
  <2> QED BY <1>1, <1>6, <2>1 DEF Solves
<1>8. Fold(iter)
  <2> HIDE DEF Fold
  <2> QED BY <1>7
<1>9. iter[1..0] = base
  <2> HIDE DEF iter, base, seq
  <2> QED BY <1>1, <1>8
<1>10. ASSUME NEW j \in 1..n PROVE iter[1..j] = CacheEvent(iter[1..(j - 1)], tx, i, j)
  <2> DEFINE s == 1..j
  <2>1. Max(s) = j /\ s \ {j} = 1..(j - 1) /\ s \in SUBSET (1..n) /\ s # {} /\ seq[j] = j
    BY <1>1, MaxInterval
  <2> HIDE DEF iter, base, seq, n, s
  <2>2. iter[s] = CacheEvent(iter[s \ {Max(s)}], tx, i, seq[Max(s)])
    BY <1>1, <1>8, <2>1
  <2>3. iter[s] = CacheEvent(iter[s \ {j}], tx, i, j)
    BY <2>1, <2>2
  <2> QED BY <2>1, <2>3 DEF s
<1> HIDE DEF iter, base, n, seq, op
<1>11. ASSUME NEW j \in 0..n PROVE iter[1..j] \in Caches
  <2> DEFINE S == {m \in Nat : m <= n => iter[1..m] \in Caches}
  <2>1. 0 \in S
    BY <1>2, <1>9
  <2>2. ASSUME NEW m \in Nat, m \in S PROVE m + 1 \in S
    <3> SUFFICES ASSUME m + 1 <= n PROVE iter[1..(m + 1)] \in Caches
      OBVIOUS
    <3>1. iter[1..m] \in Caches /\ m + 1 \in 1..n /\ (m + 1) - 1 = m
      BY <1>1, <2>2
    <3> QED BY <1>3, <1>10, <3>1
  <2> HIDE DEF S
  <2>3. j \in S
    BY <2>1, <2>2, <1>1, Induction
  <2> QED BY <2>3 DEF S
<1>12. /\ g \in [0..n -> Caches] /\ g[0] = base
       /\ \A j \in 1..n : g[j] = CacheEvent(g[j - 1], tx, i, j)
       /\ CacheTransaction(c, tx, i) = g[n]
  BY <1>1, <1>5, <1>9, <1>10, <1>11
<1> HIDE DEF g
<1> QED BY <1>12 DEF n, base

LEMMA DeploymentTyped ==
  ASSUME NEW c \in Caches, NEW tx \in StacksTransactions
  PROVE  /\ CacheDeployment(c, tx) \in Caches
         /\ CacheDeployment(c, tx).contracts
              = c.contracts \cup {k \in {tx.deploys} : k # Null /\ Sip[k] # Null}
         /\ MintsIn(CacheDeployment(c, tx)) = MintsIn(c)
         /\ \A k : DeltaIn(CacheDeployment(c, tx), k) = DeltaIn(c, k)
BY DEF CacheDeployment, Caches, StacksTransactions, MintsIn, DeltaIn

LEMMA EmptyCacheTyped == EmptyCache \in Caches
<1>1. [k \in {} |-> 0] \in Deltas
  <2>1. [k \in {} |-> 0] \in [{} -> Int] /\ {} \in SUBSET Contracts
    OBVIOUS
  <2> QED BY <2>1 DEF Deltas
<1> QED BY <1>1 DEF EmptyCache, Caches

\* What a transaction deploys and mints.
DeployedBy(tx) == {k \in {tx.deploys} : tx.success /\ k # Null /\ Sip[k] # Null}
MintedBy(tx) == UNION {MintOf(tx.events[j]) : j \in {x \in DOMAIN tx.events : tx.success}}

LEMMA TransactionTyped ==
  ASSUME NEW c \in Caches, NEW tx \in StacksTransactions, NEW i \in Nat
  PROVE  /\ CacheTransaction(c, tx, i) \in Caches
         /\ CacheTransaction(c, tx, i).contracts = c.contracts \cup DeployedBy(tx)
         /\ MintsIn(CacheTransaction(c, tx, i)) = MintsIn(c) \cup MintedBy(tx)
<1>1. CASE ~tx.success
  BY <1>1 DEF CacheTransaction, DeployedBy, MintedBy
<1>2. CASE tx.success
  <2> DEFINE n == Len(tx.events)
             Minted(m) == UNION {MintOf(tx.events[j]) : j \in 1..m}
  <2>1. n \in Nat /\ DOMAIN tx.events = 1..n
    BY DEF StacksTransactions
  <2>2. PICK g \in [0..n -> Caches] :
          /\ g[0] = CacheDeployment(c, tx)
          /\ \A j \in 1..n : g[j] = CacheEvent(g[j - 1], tx, i, j)
          /\ CacheTransaction(c, tx, i) = g[n]
    BY <1>2, EventsCollected
  <2> DEFINE S == {m \in Nat : m <= n => /\ g[m].contracts = c.contracts \cup DeployedBy(tx)
                                         /\ MintsIn(g[m]) = MintsIn(c) \cup Minted(m)}
  <2>3. 0 \in S
    <3>1. Minted(0) = {}
      OBVIOUS
    <3> HIDE DEF n, Minted
    <3> QED BY <1>2, <2>1, <2>2, <3>1, DeploymentTyped DEF DeployedBy
  <2>4. ASSUME NEW m \in Nat, m \in S PROVE m + 1 \in S
    <3> SUFFICES ASSUME m + 1 <= n
                 PROVE  /\ g[m + 1].contracts = c.contracts \cup DeployedBy(tx)
                        /\ MintsIn(g[m + 1]) = MintsIn(c) \cup Minted(m + 1)
      OBVIOUS
    <3>1. m + 1 \in 1..n /\ (m + 1) - 1 = m /\ m \in 0..n
      BY <2>1
    <3>2. g[m] \in Caches /\ g[m + 1] = CacheEvent(g[m], tx, i, m + 1)
      BY <2>2, <3>1
    <3>3. /\ g[m + 1].contracts = g[m].contracts
          /\ MintsIn(g[m + 1]) = MintsIn(g[m]) \cup MintOf(tx.events[m + 1])
      BY <2>1, <3>1, <3>2, CacheEventTyped
    <3>4. Minted(m + 1) = Minted(m) \cup MintOf(tx.events[m + 1])
      <4>1. 1..(m + 1) = (1..m) \cup {m + 1}
        OBVIOUS
      <4> QED BY <4>1
    <3> HIDE DEF Minted
    <3> QED BY <2>4, <3>1, <3>3, <3>4
  <2> HIDE DEF S
  <2>5. n \in S
    BY <2>1, <2>3, <2>4, Induction
  <2>6. MintedBy(tx) = Minted(n)
    BY <1>2, <2>1 DEF MintedBy
  <2> HIDE DEF Minted
  <2> QED BY <2>1, <2>2, <2>5, <2>6 DEF S
<1> QED BY <1>1, <1>2

\* And so are the transactions of a block.
LEMMA TransactionsCollected ==
  ASSUME NEW txs \in Seq(StacksTransactions)
  PROVE  \E g \in [0..Len(txs) -> Caches] :
           /\ g[0] = EmptyCache
           /\ \A j \in 1..Len(txs) : g[j] = CacheTransaction(g[j - 1], txs[j], j)
           /\ CacheOf(txs) = g[Len(txs)]
<1> DEFINE n == Len(txs)
           base == EmptyCache
           seq == [j \in DOMAIN txs |-> j]
           op == [p \in (1..n) \X Caches |-> CacheTransaction(p[2], txs[p[1]], p[1])]
           Fold(it) == it = [s \in SUBSET (DOMAIN seq) |->
                                 IF s = {} THEN base
                                 ELSE CacheTransaction(it[s \ {Max(s)}], txs[seq[Max(s)]], seq[Max(s)])]
           iter == CHOOSE it : Fold(it)
           g == [j \in 0..n |-> iter[1..j]]
<1>1. n \in Nat /\ DOMAIN txs = 1..n /\ DOMAIN seq = 1..n /\ \A j \in 1..n : seq[j] = j
  OBVIOUS
<1>2. base \in Caches
  BY EmptyCacheTyped
<1>3. \A d \in Caches, j \in 1..n : CacheTransaction(d, txs[j], j) \in Caches
  BY <1>1, TransactionTyped
<1>4. op \in [(1..n) \X Caches -> Caches]
  BY <1>3
<1>5. CacheOf(txs) = iter[DOMAIN seq]
  BY DEF CacheOf, FoldLeft, MapThenFoldSet
<1>6. PICK h : Solves(h, n, Caches, base, op)
  <2> HIDE DEF n, base, op
  <2> QED BY <1>1, <1>2, <1>4, FoldExists
<1>7. Fold(h)
  <2>1. ASSUME NEW s \in SUBSET (1..n), s # {}
        PROVE  h[s] = CacheTransaction(h[s \ {Max(s)}], txs[seq[Max(s)]], seq[Max(s)])
    <3>1. Max(s) \in 1..n /\ seq[Max(s)] = Max(s)
      BY <1>1, <2>1, MaxExists
    <3>2. h[s \ {Max(s)}] \in Caches
      BY <1>6 DEF Solves
    <3> QED BY <1>6, <2>1, <3>1, <3>2 DEF Solves
  <2> HIDE DEF base, seq, n
  <2> QED BY <1>1, <1>6, <2>1 DEF Solves
<1>8. Fold(iter)
  <2> HIDE DEF Fold
  <2> QED BY <1>7
<1>9. iter[1..0] = base
  <2> HIDE DEF iter, base, seq
  <2> QED BY <1>1, <1>8
<1>10. ASSUME NEW j \in 1..n PROVE iter[1..j] = CacheTransaction(iter[1..(j - 1)], txs[j], j)
  <2> DEFINE s == 1..j
  <2>1. Max(s) = j /\ s \ {j} = 1..(j - 1) /\ s \in SUBSET (1..n) /\ s # {} /\ seq[j] = j
    BY <1>1, MaxInterval
  <2> HIDE DEF iter, base, seq, n, s
  <2>2. iter[s] = CacheTransaction(iter[s \ {Max(s)}], txs[seq[Max(s)]], seq[Max(s)])
    BY <1>1, <1>8, <2>1
  <2>3. iter[s] = CacheTransaction(iter[s \ {j}], txs[j], j)
    BY <2>1, <2>2
  <2> QED BY <2>1, <2>3 DEF s
<1> HIDE DEF iter, base, n, seq, op
<1>11. ASSUME NEW j \in 0..n PROVE iter[1..j] \in Caches
  <2> DEFINE S == {m \in Nat : m <= n => iter[1..m] \in Caches}
  <2>1. 0 \in S
    BY <1>2, <1>9
  <2>2. ASSUME NEW m \in Nat, m \in S PROVE m + 1 \in S
    <3> SUFFICES ASSUME m + 1 <= n PROVE iter[1..(m + 1)] \in Caches
      OBVIOUS
    <3>1. iter[1..m] \in Caches /\ m + 1 \in 1..n /\ (m + 1) - 1 = m
      BY <1>1, <2>2
    <3> QED BY <1>3, <1>10, <3>1
  <2> HIDE DEF S
  <2>3. j \in S
    BY <2>1, <2>2, <1>1, Induction
  <2> QED BY <2>3 DEF S
<1>12. /\ g \in [0..n -> Caches] /\ g[0] = base
       /\ \A j \in 1..n : g[j] = CacheTransaction(g[j - 1], txs[j], j)
       /\ CacheOf(txs) = g[n]
  BY <1>1, <1>5, <1>9, <1>10, <1>11
<1> HIDE DEF g
<1> QED BY <1>12 DEF n, base

\* block-cache.ts: a block's cache has exactly the contracts of a standard that its successful
\* transactions deploy, and the tokens that their events mint, whatever else is in the block.
THEOREM CacheContents ==
  ASSUME NEW txs \in Seq(StacksTransactions)
  PROVE  /\ CacheOf(txs) \in Caches
         /\ CacheOf(txs).contracts = UNION {DeployedBy(txs[j]) : j \in DOMAIN txs}
         /\ MintsIn(CacheOf(txs)) = UNION {MintedBy(txs[j]) : j \in DOMAIN txs}
<1> DEFINE n == Len(txs)
           Deployed(m) == UNION {DeployedBy(txs[j]) : j \in 1..m}
           Minted(m) == UNION {MintedBy(txs[j]) : j \in 1..m}
<1>1. n \in Nat /\ DOMAIN txs = 1..n
  OBVIOUS
<1>2. PICK g \in [0..n -> Caches] :
        /\ g[0] = EmptyCache
        /\ \A j \in 1..n : g[j] = CacheTransaction(g[j - 1], txs[j], j)
        /\ CacheOf(txs) = g[n]
  BY TransactionsCollected
<1> DEFINE S == {m \in Nat : m <= n => g[m].contracts = Deployed(m) /\ MintsIn(g[m]) = Minted(m)}
<1>3. 0 \in S
  <2>1. Deployed(0) = {} /\ Minted(0) = {}
    OBVIOUS
  <2>2. EmptyCache.contracts = {} /\ MintsIn(EmptyCache) = {}
    BY DEF EmptyCache, MintsIn
  <2> HIDE DEF Deployed, Minted
  <2> QED BY <1>1, <1>2, <2>1, <2>2
<1>4. ASSUME NEW m \in Nat, m \in S PROVE m + 1 \in S
  <2> SUFFICES ASSUME m + 1 <= n
               PROVE  g[m + 1].contracts = Deployed(m + 1) /\ MintsIn(g[m + 1]) = Minted(m + 1)
    OBVIOUS
  <2>1. m + 1 \in 1..n /\ (m + 1) - 1 = m /\ m \in 0..n /\ txs[m + 1] \in StacksTransactions /\ m + 1 \in Nat
    BY <1>1
  <2>2. g[m] \in Caches /\ g[m + 1] = CacheTransaction(g[m], txs[m + 1], m + 1)
    BY <1>2, <2>1
  <2>3. /\ g[m + 1].contracts = g[m].contracts \cup DeployedBy(txs[m + 1])
        /\ MintsIn(g[m + 1]) = MintsIn(g[m]) \cup MintedBy(txs[m + 1])
    <3> DEFINE tx == txs[m + 1]
               i == m + 1
               c == g[m]
    <3>1. c \in Caches /\ tx \in StacksTransactions /\ i \in Nat /\ g[i] = CacheTransaction(c, tx, i)
      BY <2>1, <2>2
    <3> HIDE DEF tx, i, c
    <3>2. /\ g[i].contracts = c.contracts \cup DeployedBy(tx)
          /\ MintsIn(g[i]) = MintsIn(c) \cup MintedBy(tx)
      BY <3>1, TransactionTyped
    <3> QED BY <3>2 DEF tx, i, c
  <2>4. /\ Deployed(m + 1) = Deployed(m) \cup DeployedBy(txs[m + 1])
        /\ Minted(m + 1) = Minted(m) \cup MintedBy(txs[m + 1])
    <3>1. 1..(m + 1) = (1..m) \cup {m + 1}
      OBVIOUS
    <3> QED BY <3>1
  <2> HIDE DEF Deployed, Minted
  <2> QED BY <1>4, <2>1, <2>3, <2>4
<1> HIDE DEF S
<1>5. n \in S
  BY <1>1, <1>3, <1>4, Induction
<1>6. g[n] \in Caches /\ g[n].contracts = Deployed(n) /\ MintsIn(g[n]) = Minted(n)
  <2> HIDE DEF Deployed, Minted
  <2> QED BY <1>1, <1>2, <1>5 DEF S
<1> QED BY <1>1, <1>2, <1>6
=============================================================================
