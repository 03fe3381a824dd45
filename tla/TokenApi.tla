------------------------------ MODULE TokenApi ------------------------------
(***************************************************************************)
(* The API's token endpoints beside the program that writes the tokens: the *)
(* preHandler answers 304 when If-None-Match has the token's ETag           *)
(* (api/util/cache.ts), else getTokenMetadataBundle() builds the body from   *)
(* one SELECT after the other (pg-store.ts).  Its transaction is READ        *)
(* COMMITTED, so each SELECT sees what is committed by then.                 *)
(*                                                                          *)
(* One contract with its tokens and one client that keeps the last answer    *)
(* of each URL.  A writer's transaction is one step: readers see none of it  *)
(* before its COMMIT.  A value stands for the write it is from.              *)
(***************************************************************************)
EXTENDS Integers, FiniteSets

CONSTANTS
  Fungible,    \* whether the contract is SIP-010: its token has number 1, and no number in the URL
  Numbers,     \* token numbers
  Urls,        \* the URLs the client asks: a number, with or without ?locale=
  Null,        \* SQL NULL; no row, no header
  MaxWrites    \* bound: transactions that change a token or its metadata

ASSUME TokenApiAssumption ==
  /\ Fungible \in BOOLEAN
  /\ Numbers \subseteq Nat /\ 1 \in Numbers
  /\ Urls \subseteq [number : Numbers, locale : BOOLEAN]
  /\ MaxWrites \in Nat

VARIABLES
  contract,  \* the status of the contract's job, or Null when there is no contract
  token,     \* [Numbers -> its row of tokens, or Null]
  metadata,  \* [Numbers -> its rows of metadata, or Null]
  job,       \* [Numbers -> the status of its job, or Null]
  writes,    \* how many writes there have been; NOW() in each
  request,   \* the request being handled
  kept       \* [Urls -> the answer the client keeps, or Null]

vars == <<contract, token, metadata, job, writes, request, kept>>

Stamps == 1..MaxWrites
TokenRows == [id : Stamps, updated_at : Stamps \cup {Null}, values : Stamps \cup {Null}]
\* The attributes and properties refer to the id; a token's rows share their images' write.
MetadataRows == [id : Stamps, images : Stamps, localized : BOOLEAN]
Children == {Null} \cup Stamps
Bodies == [token : TokenRows, metadata : MetadataRows \cup {Null}, attributes : Children, properties : Children]
PCs == {"idle", "etag", "contract", "id", "locale", "job", "token", "metadata",
        "attributes", "properties", "reply"}
Statuses == {"pending", "queued", "done", "failed", "invalid"}
Answers == [etag : Stamps, body : Bodies]

ASSUME NullAssumption ==
  Null \notin Nat \cup TokenRows \cup MetadataRows \cup Answers \cup Urls \cup Statuses

NoBody == [token |-> Null, metadata |-> Null, attributes |-> Null, properties |-> Null]
NoRequest == [pc |-> "idle", url |-> Null, etag |-> Null, id |-> Null, status |-> Null, body |-> NoBody]

TypeOK ==
  /\ contract \in {"done", "invalid", Null}
  /\ token \in [Numbers -> TokenRows \cup {Null}]
  /\ metadata \in [Numbers -> MetadataRows \cup {Null}]
  /\ job \in [Numbers -> Statuses \cup {Null}]
  /\ writes \in 0..MaxWrites
  /\ request \in [pc : PCs, url : Urls \cup {Null}, etag : Stamps \cup {Null}, id : Stamps \cup {Null},
                  status : (Statuses \ {"invalid"}) \cup {Null},
                  body : [token : TokenRows \cup {Null}, metadata : MetadataRows \cup {Null},
                          attributes : Children, properties : Children]]
  /\ kept \in [Urls -> Answers \cup {Null}]
  \* foreign keys
  /\ \A n \in Numbers : (token[n] = Null) <=> (job[n] = Null)
  /\ \A n \in Numbers : token[n] = Null => metadata[n] = Null

Init ==
  /\ contract = "done"
  /\ token = [n \in Numbers |-> Null]
  /\ metadata = [n \in Numbers |-> Null]
  /\ job = [n \in Numbers |-> Null]
  /\ writes = 0
  /\ request = NoRequest
  /\ kept = [u \in Urls |-> Null]

-----------------------------------------------------------------------------
(* The writers.                                                             *)

NewWrite == writes < MaxWrites /\ writes' = writes + 1
Readers == <<request, kept>>

\* insertAndEnqueueSequentialTokens(), applyTokenMints(): a new row, or the old
\* one with the values of a new row; the metadata stays.
Mint(n) ==
  /\ contract # Null /\ NewWrite
  /\ token' = [token EXCEPT ![n] =
       IF token[n] = Null THEN [id |-> writes', updated_at |-> Null, values |-> Null]
       ELSE [token[n] EXCEPT !.values = Null, !.updated_at = writes']]
  /\ job' = [job EXCEPT ![n] = "pending"]
  /\ UNCHANGED <<contract, metadata>> /\ UNCHANGED Readers

\* updateProcessedTokenWithMetadata(), and the job is done.
ProcessToken(n) ==
  /\ token[n] # Null /\ NewWrite
  /\ token' = [token EXCEPT ![n].values = writes', ![n].updated_at = writes']
  /\ \/ metadata' = [metadata EXCEPT ![n] = Null]
     \/ \E localized \in BOOLEAN :
          metadata' = [metadata EXCEPT ![n] = [id |-> writes', images |-> writes', localized |-> localized]]
  /\ UNCHANGED <<contract, job>> /\ UNCHANGED Readers

\* applyFtSupplyChange()
ChangeSupply ==
  /\ Fungible /\ token[1] # Null /\ NewWrite
  /\ token' = [token EXCEPT ![1].values = writes', ![1].updated_at = writes']
  /\ UNCHANGED <<contract, metadata, job>> /\ UNCHANGED Readers

\* Mutant: the token is not touched.
UpdateImagesOnly(n) ==
  /\ metadata[n] # Null /\ NewWrite
  /\ metadata' = [metadata EXCEPT ![n].images = writes']
  /\ UNCHANGED <<contract, token, job>> /\ UNCHANGED Readers

\* updateTokenCachedImages(): for cache-images, should image-cache.ts:183 ever hand it
\* an image that can be fetched.
UpdateCachedImages(n) ==
  /\ metadata[n] # Null /\ NewWrite
  /\ token' = [token EXCEPT ![n].updated_at = writes']
  /\ metadata' = [metadata EXCEPT ![n].images = writes']
  /\ UNCHANGED <<contract, job>> /\ UNCHANGED Readers

\* The queue and Job.work(): a job is done only after its write.
ChangeJob(n, status) ==
  /\ job[n] # Null
  /\ status = "queued" => job[n] = "pending"
  /\ status \in {"done", "failed", "invalid"} => job[n] = "queued"
  /\ status = "done" => token[n].updated_at # Null
  /\ job' = [job EXCEPT ![n] = status]
  /\ UNCHANGED <<contract, token, metadata, writes>> /\ UNCHANGED Readers

\* ProcessSmartContractJob may fail on the contract.
ChangeContract(status) ==
  /\ contract # Null
  /\ contract' = status
  /\ UNCHANGED <<token, metadata, job, writes>> /\ UNCHANGED Readers

\* Mutant: the metadata is left behind.
DeleteTokenRow(S) ==
  /\ token' = [n \in Numbers |-> IF n \in S THEN Null ELSE token[n]]
  /\ job' = [n \in Numbers |-> IF n \in S THEN Null ELSE job[n]]
  /\ metadata' = metadata

\* ON DELETE CASCADE
DeleteTokens(S) ==
  /\ token' = [n \in Numbers |-> IF n \in S THEN Null ELSE token[n]]
  /\ job' = [n \in Numbers |-> IF n \in S THEN Null ELSE job[n]]
  /\ metadata' = [n \in Numbers |-> IF n \in S THEN Null ELSE metadata[n]]

\* rollBackTokenMints()
RollBackMint(n) ==
  /\ token[n] # Null
  /\ DeleteTokens({n})
  /\ UNCHANGED <<contract, writes>> /\ UNCHANGED Readers

\* rollBackContractDeployment(), and the contract deployed again.
RollBackContract ==
  /\ contract # Null
  /\ contract' = Null
  /\ DeleteTokens(Numbers)
  /\ UNCHANGED writes /\ UNCHANGED Readers

Deploy ==
  /\ contract = Null
  /\ contract' = "done"
  /\ UNCHANGED <<token, metadata, job, writes>> /\ UNCHANGED Readers

-----------------------------------------------------------------------------
(* A request.                                                               *)

Tables == <<contract, token, metadata, job, writes>>
At(pc) == request.pc = pc
Goto(pc) == request' = [request EXCEPT !.pc = pc] /\ UNCHANGED kept
\* generateTokenErrorResponse(): not cacheable.
ReplyError == request' = NoRequest /\ kept' = [kept EXCEPT ![request.url] = Null]

\* The client asks, with the ETag it has.
Ask(u) == At("idle") /\ request' = [NoRequest EXCEPT !.pc = "etag", !.url = u] /\ UNCHANGED kept /\ UNCHANGED Tables

\* getTokenEtag() splits request.url, its query included, at the slashes: a
\* last part with a query is neither a number nor a contract.
EtagNumber(u) == IF ~u.locale THEN u.number ELSE IF Fungible THEN Null ELSE 1

Etag(u) ==
  LET n == EtagNumber(u) IN IF n = Null \/ token[n] = Null THEN Null ELSE token[n].updated_at

\* handleCache(): 304
NotModified ==
  /\ At("etag")
  /\ kept[request.url] # Null /\ Etag(request.url) = kept[request.url].etag
  /\ request' = NoRequest /\ UNCHANGED kept /\ UNCHANGED Tables

\* handleCache(): the ETag is set on the reply.
Modified ==
  /\ At("etag")
  /\ (kept[request.url] # Null => Etag(request.url) # kept[request.url].etag)
  /\ request' = [request EXCEPT !.pc = "contract", !.etag = Etag(request.url)]
  /\ UNCHANGED kept /\ UNCHANGED Tables

\* getTokenMetadataBundle(): is the contract invalid?
ReadContract ==
  /\ At("contract")
  /\ IF contract = Null \/ contract = "invalid" THEN ReplyError ELSE Goto("id")
  /\ UNCHANGED Tables

\* getTokenMetadataBundle(): the token's id.
ReadTokenId ==
  LET row == token[request.url.number] IN
  /\ At("id")
  /\ IF row = Null THEN ReplyError
     ELSE /\ request' = [request EXCEPT !.id = row.id, !.pc = IF request.url.locale THEN "locale" ELSE "job"]
          /\ UNCHANGED kept
  /\ UNCHANGED Tables

\* What a SELECT by the token's id finds: nothing once the token is another one.
Found == token[request.url.number] # Null /\ token[request.url.number].id = request.id

\* isTokenLocaleAvailable()
ReadLocale ==
  LET m == metadata[request.url.number] IN
  /\ At("locale")
  /\ IF Found /\ m # Null THEN IF m.localized THEN Goto("job") ELSE ReplyError ELSE ReplyError
  /\ UNCHANGED Tables

\* getTokenMetadataBundleInternal(): is the token invalid?
ReadJob ==
  LET n == request.url.number IN
  /\ At("job")
  /\ IF ~Found \/ job[n] = "invalid" THEN ReplyError
     ELSE request' = [request EXCEPT !.status = job[n], !.pc = "token"] /\ UNCHANGED kept
  /\ UNCHANGED Tables

\* Mutant: queued is forgotten.
WaitingIfPending(row, status) == row.updated_at = Null /\ status = "pending"

\* Is it still waiting to be processed?
Waiting(row, status) == row.updated_at = Null /\ status \in {"queued", "pending"}

\* The row of the token; a token deleted since makes it throw.
ReadToken ==
  LET row == token[request.url.number] IN
  /\ At("token")
  /\ IF ~Found THEN ReplyError
     ELSE IF Waiting(row, request.status) THEN ReplyError
     ELSE request' = [request EXCEPT !.body.token = row, !.pc = "metadata"] /\ UNCHANGED kept
  /\ UNCHANGED Tables

\* The locale's row of metadata, or the default's.
ReadMetadata ==
  LET m == metadata[request.url.number]
      has == Found /\ m # Null
  IN
  /\ At("metadata")
  /\ IF has /\ (request.url.locale => m.localized)
     THEN request' = [request EXCEPT !.body.metadata = m, !.pc = "attributes"] /\ UNCHANGED kept
     ELSE Goto("reply")
  /\ UNCHANGED Tables

\* Attributes and properties go with the row they refer to.
ChildrenOf(m) ==
  LET n == request.url.number IN
  IF metadata[n] # Null /\ Found THEN IF metadata[n].id = m.id THEN m.id ELSE Null ELSE Null

ReadAttributes ==
  /\ At("attributes")
  /\ request' = [request EXCEPT !.body.attributes = ChildrenOf(request.body.metadata), !.pc = "properties"]
  /\ UNCHANGED kept /\ UNCHANGED Tables

ReadProperties ==
  /\ At("properties")
  /\ request' = [request EXCEPT !.body.properties = ChildrenOf(request.body.metadata), !.pc = "reply"]
  /\ UNCHANGED kept /\ UNCHANGED Tables

\* getSmartContract(), then 200.  An answer without an ETag is not kept.
Reply ==
  /\ At("reply")
  /\ IF contract = Null THEN ReplyError
     ELSE /\ kept' = [kept EXCEPT ![request.url] =
               IF request.etag = Null THEN Null ELSE [etag |-> request.etag, body |-> request.body]]
          /\ request' = NoRequest
  /\ UNCHANGED Tables

HandleRequest ==
  \/ NotModified \/ Modified \/ ReadContract \/ ReadTokenId \/ ReadLocale \/ ReadJob \/ ReadToken
  \/ ReadMetadata \/ ReadAttributes \/ ReadProperties \/ Reply

WriteTables ==
  \/ \E n \in Numbers : Mint(n) \/ ProcessToken(n) \/ UpdateCachedImages(n) \/ RollBackMint(n)
  \/ \E n \in Numbers, status \in Statuses : ChangeJob(n, status)
  \/ ChangeSupply
  \/ \E status \in {"done", "invalid"} : ChangeContract(status)
  \/ RollBackContract \/ Deploy

Next == WriteTables \/ HandleRequest \/ \E u \in Urls : Ask(u)

Spec == Init /\ [][Next]_vars

-----------------------------------------------------------------------------
(* Properties.                                                              *)

\* The body an undisturbed read of the token would give.
Body(u) ==
  LET m == metadata[u.number]
      row == IF m # Null THEN IF u.locale => m.localized THEN m ELSE Null ELSE Null
      children == IF row # Null THEN row.id ELSE Null
  IN [token |-> token[u.number], metadata |-> row, attributes |-> children, properties |-> children]

\* A 304 is true: what the client keeps is what the token and its metadata are
\* now.  An answer put together from SELECTs before and after a write, or from
\* the ETag before it and the body after it, never has the ETag of what follows
\* (cache.ts handleCache(), and every statement that writes tokens or metadata).
NotModifiedIsTrue ==
  [][NotModified /\ ~request.url.locale => kept[request.url].body = Body(request.url)]_vars

\* A token that no job has written is answered with an empty body only when its
\* job has failed; never because the job ended between two of the reads
\* (pg-store.ts getTokenMetadataBundleInternal()).
BlankOnlyIfFailed ==
  [][Reply /\ contract # Null /\ request.body.token.updated_at = Null => request.status = "failed"]_vars

\* pg-store.ts: getTokenEtag() "Returns a token ETag based on its last updated
\* date": also of a URL with a locale, so that a 304 is true.
LocalizedNotModifiedIsTrue ==
  [][NotModified => kept[request.url].body = Body(request.url)]_vars
=============================================================================
