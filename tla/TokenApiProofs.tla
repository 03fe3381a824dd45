--------------------------- MODULE TokenApiProofs ---------------------------
(* Theorems about TokenApi, for any tokens, URLs and number of writes.       *)
EXTENDS TokenApi, TLAPS

-----------------------------------------------------------------------------
(* The invariant.                                                           *)

\* Where a request has read the token's id, its job, its row, its metadata.
HasId == {"locale", "job", "token", "metadata", "attributes", "properties", "reply"}
HasStatus == {"token", "metadata", "attributes", "properties", "reply"}
HasToken == {"metadata", "attributes", "properties", "reply"}
HasMetadata == {"attributes", "properties", "reply"}

\* No stamp is from a write to come.
Stamped ==
  /\ \A n \in Numbers : token[n] # Null =>
       token[n].id <= writes /\ (token[n].updated_at # Null => token[n].updated_at <= writes)
  /\ request.etag # Null => request.etag <= writes
  /\ request.id # Null => request.id <= writes
  /\ \A u \in Urls : kept[u] # Null => kept[u].etag <= writes

\* A job is done only after its token was written.
JobsOK == \A n \in Numbers : job[n] = "done" => token[n].updated_at # Null

\* What a request has read, by how far it is.
RequestOK ==
  LET body == request.body
  IN /\ request.pc # "idle" => request.url \in Urls
     /\ request.pc \in HasId <=> request.id # Null
     /\ request.pc \in HasStatus => request.status # Null
     /\ request.pc \in HasToken => body.token # Null
     /\ request.pc \in {"attributes", "properties"} => body.metadata # Null
     /\ request.pc \notin HasMetadata => body.metadata = Null
     /\ request.pc \notin {"properties", "reply"} \/ body.metadata = Null => body.attributes = Null
     /\ request.pc # "reply" \/ body.metadata = Null => body.properties = Null

\* The row that a request found done has been written, and one that it answers
\* with is not waiting.
StatusOK ==
  LET n == request.url.number
      row == request.body.token
  IN /\ /\ request.pc \in HasStatus /\ request.status = "done"
           /\ token[n] # Null /\ token[n].id = request.id
        => token[n].updated_at # Null
     /\ request.pc \in HasToken /\ row.updated_at = Null => request.status = "failed"

\* Is the token of u as it was when it had the ETag e?
Still(u, e) == e # Null /\ token[u.number] # Null /\ token[u.number].updated_at = e

\* As long as it is, what a request has read since is what there is.
ReadOK ==
  LET u == request.url
      body == request.body
  IN request.pc # "idle" /\ ~u.locale /\ Still(u, request.etag) =>
       /\ request.pc \in HasId => token[u.number].id = request.id
       /\ request.pc \in HasToken => body.token = token[u.number]
       /\ request.pc \in HasMetadata => body.metadata = Body(u).metadata
       /\ request.pc \in {"properties", "reply"} => body.attributes = Body(u).attributes
       /\ request.pc = "reply" => body.properties = Body(u).properties

\* And so is the answer that the client keeps.
KeptOK ==
  \A u \in Urls : kept[u] # Null /\ ~u.locale /\ Still(u, kept[u].etag) => kept[u].body = Body(u)

IInv == TypeOK /\ Stamped /\ JobsOK /\ RequestOK /\ StatusOK /\ ReadOK /\ KeptOK

-----------------------------------------------------------------------------
(* The writers.                                                             *)

\* What a transaction does to a token: it leaves it and its metadata alone, or the
\* token gets a stamp of its own or none.  The id is another one only when the token is
\* new.
Written(n) ==
  /\ \/ token'[n] = token[n] /\ metadata'[n] = metadata[n]
     \/ token'[n] = Null
     \/ token'[n] # Null /\ token'[n].updated_at \in {Null, writes'} /\ writes' = writes + 1
  /\ token'[n] # Null =>
       \/ token[n] = Null /\ token'[n].id = writes' /\ writes' = writes + 1
       \/ /\ token[n] # Null /\ token'[n].id = token[n].id
          /\ token[n].updated_at # Null => token'[n].updated_at # Null

\* Such a transaction makes no answer and nothing that a request has read wrong.
LEMMA WrittenKeeps ==
  ASSUME IInv, TypeOK', JobsOK', UNCHANGED Readers, writes' \in {writes, writes + 1},
         \A n \in Numbers : Written(n)
  PROVE  IInv'
<1>1. writes \in Nat /\ UNCHANGED <<request, kept>>
  BY DEF IInv, TypeOK, Readers
<1>2. Stamped'
  <2>1. ASSUME NEW n \in Numbers, token'[n] # Null
        PROVE  token'[n].id <= writes' /\ (token'[n].updated_at # Null => token'[n].updated_at <= writes')
    <3>1. /\ token[n] # Null =>
               /\ token[n].id <= writes /\ token[n].id \in Nat
               /\ token[n].updated_at # Null =>
                    token[n].updated_at <= writes /\ token[n].updated_at \in Nat
      BY NullAssumption DEF IInv, Stamped, TypeOK, TokenRows, Stamps
    <3> QED BY <1>1, <2>1, <3>1 DEF Written
  <2>2. ASSUME NEW e \in Stamps \cup {Null}, e # Null => e <= writes PROVE e # Null => e <= writes'
    BY <1>1, <2>2 DEF Stamps
  <2>3. request.etag \in Stamps \cup {Null} /\ request.id \in Stamps \cup {Null}
    BY DEF IInv, TypeOK
  <2>4. /\ request'.etag # Null => request'.etag <= writes'
        /\ request'.id # Null => request'.id <= writes'
    BY <1>1, <2>2, <2>3 DEF IInv, Stamped
  <2>5. ASSUME NEW u \in Urls, kept'[u] # Null PROVE kept'[u].etag <= writes'
    <3>1. kept[u] # Null /\ kept'[u] = kept[u] /\ kept[u].etag \in Stamps
      BY <1>1, <2>5 DEF IInv, TypeOK, Answers
    <3>2. kept[u].etag <= writes /\ kept[u].etag \in Nat
      BY <3>1 DEF IInv, Stamped, Stamps
    <3> QED BY <1>1, <3>1, <3>2
  <2> QED BY <2>1, <2>4, <2>5 DEF Stamped
<1>3. RequestOK'
  BY <1>1 DEF IInv, RequestOK
<1>4. \A u \in Urls : u.number \in Numbers
  BY TokenApiAssumption
<1>5. ASSUME NEW n \in Numbers, NEW id \in Stamps, id <= writes, token'[n] # Null, token'[n].id = id
      PROVE  /\ token[n] # Null /\ token[n].id = id
             /\ token[n].updated_at # Null => token'[n].updated_at # Null
  BY <1>1, <1>5 DEF Written, Stamps
<1>6. ASSUME NEW n \in Numbers, NEW e \in Stamps, e <= writes, token'[n] # Null, token'[n].updated_at = e
      PROVE  token'[n] = token[n] /\ metadata'[n] = metadata[n]
  BY <1>1, <1>6, NullAssumption DEF Written, Stamps
<1>7. StatusOK'
  <2>1. CASE request.pc \notin HasStatus
    BY <1>1, <2>1 DEF StatusOK, HasToken, HasStatus
  <2>2. CASE request.pc \in HasStatus
    <3> DEFINE n == request.url.number
    <3>1. n \in Numbers /\ request.id \in Stamps /\ request.id <= writes
      BY <1>4, <2>2 DEF IInv, TypeOK, RequestOK, Stamped, HasStatus, HasId
    <3>2. ASSUME token'[n] # Null, token'[n].id = request.id, request.status = "done"
          PROVE  token'[n].updated_at # Null
      <4>1. token[n] # Null /\ token[n].id = request.id
            /\ (token[n].updated_at # Null => token'[n].updated_at # Null)
        BY <1>5, <3>1, <3>2
      <4> QED BY <2>2, <3>2, <4>1 DEF IInv, StatusOK
    <3> QED BY <1>1, <3>2 DEF IInv, StatusOK
  <2> QED BY <2>1, <2>2
<1>8. ASSUME NEW u \in Urls, NEW e \in Stamps \cup {Null}, e # Null => e <= writes, Still(u, e)'
      PROVE  Still(u, e) /\ token'[u.number] = token[u.number] /\ Body(u)' = Body(u)
  <2>1. token'[u.number] # Null /\ token'[u.number].updated_at = e /\ e # Null
    BY <1>8 DEF Still
  <2>2. token'[u.number] = token[u.number] /\ metadata'[u.number] = metadata[u.number]
    BY <1>4, <1>6, <1>8, <2>1
  <2> QED BY <2>1, <2>2 DEF Still, Body
<1>9. ReadOK'
  <2> DEFINE u == request.url
             e == request.etag
  <2> SUFFICES ASSUME request.pc # "idle", ~u.locale, Still(u, e)' PROVE ReadOK'
    BY <1>1 DEF ReadOK
  <2>1. u \in Urls /\ e \in Stamps \cup {Null} /\ (e # Null => e <= writes)
    BY DEF IInv, RequestOK, TypeOK, Stamped
  <2>2. Still(u, e)'
    BY <1>1
  <2>3. Still(u, e) /\ token'[u.number] = token[u.number] /\ Body(u)' = Body(u)
    <3> HIDE DEF u, e
    <3>1. u' = u /\ e' = e
      BY <1>1 DEF u, e
    <3> QED BY <1>8, <2>1, <2>2, <3>1 DEF Still
  <2> QED BY <1>1, <2>3 DEF IInv, ReadOK
<1>10. KeptOK'
  <2> SUFFICES ASSUME NEW u \in Urls, kept[u] # Null, ~u.locale, Still(u, kept[u].etag)'
               PROVE  kept[u].body = Body(u)'
    BY <1>1 DEF KeptOK
  <2> DEFINE e == kept[u].etag
  <2>1. e \in Stamps \cup {Null} /\ (e # Null => e <= writes)
    BY DEF IInv, TypeOK, Stamped, Answers
  <2>2. Still(u, e) /\ Body(u)' = Body(u)
    <3>1. e' = e /\ Still(u, e)'
      BY <1>1
    <3> HIDE DEF e
    <3> QED BY <1>8, <2>1, <3>1 DEF Still
  <2> QED BY <2>2 DEF IInv, KeptOK
<1> QED BY <1>2, <1>3, <1>7, <1>9, <1>10 DEF IInv

\* The tables that a transaction writes keep their types.
TablesOK ==
  /\ contract \in {"done", "invalid", Null}
  /\ token \in [Numbers -> TokenRows \cup {Null}]
  /\ metadata \in [Numbers -> MetadataRows \cup {Null}]
  /\ job \in [Numbers -> Statuses \cup {Null}]
  /\ writes \in 0..MaxWrites
  /\ \A n \in Numbers : (token[n] = Null) <=> (job[n] = Null)
  /\ \A n \in Numbers : token[n] = Null => metadata[n] = Null

LEMMA TablesKeep ==
  ASSUME IInv, TablesOK', JobsOK', UNCHANGED Readers, writes' \in {writes, writes + 1},
         \A n \in Numbers : Written(n)
  PROVE  IInv'
<1>1. TypeOK'
  BY DEF TablesOK, TypeOK, IInv, Readers, Statuses
<1> QED BY <1>1, WrittenKeeps

\* A stamp of its own for every write.
LEMMA NewStamp ==
  ASSUME IInv, NewWrite
  PROVE  /\ writes' \in Stamps /\ writes' \in 0..MaxWrites /\ writes' = writes + 1 /\ writes' # Null
         /\ writes' \in {writes, writes + 1}
BY TokenApiAssumption, NullAssumption DEF IInv, TypeOK, NewWrite, Stamps

\* The tokens as they are.
LEMMA Tables0 ==
  ASSUME IInv
  PROVE  /\ TablesOK /\ JobsOK /\ Null \notin TokenRows \cup MetadataRows
         /\ \A n \in Numbers : token[n] # Null => token[n] \in TokenRows
         /\ \A n \in Numbers : metadata[n] # Null => metadata[n] \in MetadataRows /\ token[n] # Null
BY NullAssumption DEF IInv, TypeOK, TablesOK, Statuses

LEMMA MintKeeps ==
  ASSUME IInv, NEW n \in Numbers, Mint(n) PROVE IInv'
<1> DEFINE row == IF token[n] = Null THEN [id |-> writes', updated_at |-> Null, values |-> Null]
                  ELSE [token[n] EXCEPT !.values = Null, !.updated_at = writes']
<1>1. /\ writes' \in Stamps /\ writes' \in 0..MaxWrites /\ writes' = writes + 1 /\ writes' # Null
      /\ writes' \in {writes, writes + 1}
  BY NewStamp DEF Mint
<1>2. /\ row \in TokenRows /\ row.updated_at \in {Null, writes'}
      /\ token[n] = Null => row.id = writes'
      /\ token[n] # Null => row.id = token[n].id /\ row.updated_at # Null
  BY <1>1, Tables0 DEF TokenRows
<1>3. /\ token' = [token EXCEPT ![n] = row] /\ job' = [job EXCEPT ![n] = "pending"]
      /\ UNCHANGED <<contract, metadata>> /\ UNCHANGED Readers
  BY DEF Mint
<1> HIDE DEF row
<1>4. row # Null
  BY <1>2, NullAssumption
<1>5. TablesOK'
  BY <1>1, <1>2, <1>3, <1>4, Tables0, NullAssumption DEF TablesOK, Statuses
<1>6. JobsOK'
  BY <1>3, Tables0 DEF JobsOK, TablesOK
<1>7. \A m \in Numbers : Written(m)
  BY <1>1, <1>2, <1>3, <1>4, Tables0 DEF Written, TablesOK
<1> QED BY <1>1, <1>3, <1>5, <1>6, <1>7, TablesKeep

\* Token n gets a stamp, and its metadata is what it may be.
LEMMA StampKeeps ==
  ASSUME IInv, NEW n \in Numbers, token[n] # Null, NewWrite, UNCHANGED <<contract, job>>,
         UNCHANGED Readers,
         NEW row \in TokenRows, row.id = token[n].id, row.updated_at = writes',
         token' = [token EXCEPT ![n] = row],
         NEW m \in MetadataRows \cup {Null}, metadata' = [metadata EXCEPT ![n] = m]
  PROVE  IInv'
<1>1. /\ writes' \in Stamps /\ writes' \in 0..MaxWrites /\ writes' = writes + 1 /\ writes' # Null
      /\ writes' \in {writes, writes + 1}
  BY NewStamp
<1>2. row # Null
  BY NullAssumption
<1>3. TablesOK'
  BY <1>1, <1>2, Tables0 DEF TablesOK
<1>4. JobsOK'
  BY <1>1, Tables0 DEF JobsOK, TablesOK
<1>5. \A k \in Numbers : Written(k)
  BY <1>1, <1>2, Tables0 DEF Written, TablesOK
<1> QED BY <1>1, <1>3, <1>4, <1>5, TablesKeep

LEMMA ProcessTokenKeeps ==
  ASSUME IInv, NEW n \in Numbers, ProcessToken(n) PROVE IInv'
<1> DEFINE row == [token[n] EXCEPT !.values = writes', !.updated_at = writes']
<1>1. writes' \in Stamps /\ NewWrite /\ token[n] # Null /\ UNCHANGED <<contract, job>> /\ UNCHANGED Readers
  BY NewStamp DEF ProcessToken
<1>2. row \in TokenRows /\ row.id = token[n].id /\ row.updated_at = writes'
  BY <1>1, Tables0 DEF TokenRows
<1>3. token' = [token EXCEPT ![n] = row]
  BY Tables0 DEF ProcessToken, TablesOK
<1>4. PICK m \in MetadataRows \cup {Null} : metadata' = [metadata EXCEPT ![n] = m]
  BY <1>1 DEF ProcessToken, MetadataRows
<1> HIDE DEF row
<1> QED BY <1>1, <1>2, <1>3, <1>4, StampKeeps

LEMMA ChangeSupplyKeeps ==
  ASSUME IInv, ChangeSupply PROVE IInv'
<1> DEFINE row == [token[1] EXCEPT !.values = writes', !.updated_at = writes']
<1>1. /\ writes' \in Stamps /\ NewWrite /\ token[1] # Null /\ UNCHANGED <<contract, job>>
      /\ UNCHANGED Readers /\ 1 \in Numbers
  BY NewStamp, TokenApiAssumption DEF ChangeSupply
<1>2. row \in TokenRows /\ row.id = token[1].id /\ row.updated_at = writes'
  BY <1>1, Tables0 DEF TokenRows
<1>3. token' = [token EXCEPT ![1] = row]
  BY Tables0 DEF ChangeSupply, TablesOK
<1>4. metadata[1] \in MetadataRows \cup {Null} /\ metadata' = [metadata EXCEPT ![1] = metadata[1]]
  BY <1>1, Tables0 DEF ChangeSupply, TablesOK
<1> HIDE DEF row
<1> QED BY <1>1, <1>2, <1>3, <1>4, StampKeeps

LEMMA UpdateCachedImagesKeeps ==
  ASSUME IInv, NEW n \in Numbers, UpdateCachedImages(n) PROVE IInv'
<1> DEFINE row == [token[n] EXCEPT !.updated_at = writes']
           m == [metadata[n] EXCEPT !.images = writes']
<1>1. /\ writes' \in Stamps /\ NewWrite /\ metadata[n] # Null /\ UNCHANGED <<contract, job>>
      /\ UNCHANGED Readers /\ token[n] # Null
  BY NewStamp, Tables0 DEF UpdateCachedImages
<1>2. row \in TokenRows /\ row.id = token[n].id /\ row.updated_at = writes'
  BY <1>1, Tables0 DEF TokenRows
<1>3. m \in MetadataRows
  BY <1>1, Tables0 DEF MetadataRows
<1>4. token' = [token EXCEPT ![n] = row] /\ metadata' = [metadata EXCEPT ![n] = m]
  BY Tables0 DEF UpdateCachedImages, TablesOK
<1> HIDE DEF row, m
<1> QED BY <1>1, <1>2, <1>3, <1>4, StampKeeps

LEMMA ChangeJobKeeps ==
  ASSUME IInv, NEW n \in Numbers, NEW status \in Statuses, ChangeJob(n, status) PROVE IInv'
<1>1. TablesOK'
  BY Tables0, NullAssumption DEF ChangeJob, TablesOK, Statuses
<1>2. JobsOK'
  BY Tables0 DEF ChangeJob, TablesOK, JobsOK
<1>3. \A k \in Numbers : Written(k)
  BY DEF ChangeJob, Written
<1>4. UNCHANGED Readers /\ writes' = writes
  BY DEF ChangeJob
<1> QED BY <1>1, <1>2, <1>3, <1>4, TablesKeep

LEMMA DeleteKeeps ==
  ASSUME IInv, NEW S \in SUBSET Numbers, DeleteTokens(S), contract' \in {contract, Null},
         UNCHANGED writes, UNCHANGED Readers
  PROVE  IInv'
<1>1. TablesOK'
  BY Tables0 DEF DeleteTokens, TablesOK
<1>2. JobsOK'
  BY Tables0, NullAssumption DEF DeleteTokens, TablesOK, JobsOK, Statuses
<1>3. \A k \in Numbers : Written(k)
  BY DEF DeleteTokens, Written
<1> QED BY <1>1, <1>2, <1>3, TablesKeep

LEMMA ContractKeeps ==
  ASSUME IInv, NEW status \in {"done", "invalid"}, ChangeContract(status) \/ Deploy PROVE IInv'
<1>1. /\ contract' \in {"done", "invalid"} /\ UNCHANGED <<token, metadata, job, writes>>
      /\ UNCHANGED Readers
  BY DEF ChangeContract, Deploy
<1>2. TablesOK' /\ JobsOK'
  BY <1>1, Tables0 DEF TablesOK, JobsOK
<1>3. \A k \in Numbers : Written(k)
  BY <1>1 DEF Written
<1> QED BY <1>1, <1>2, <1>3, TablesKeep

LEMMA WritersKeep ==
  ASSUME IInv, WriteTables PROVE IInv'
<1>1. ASSUME NEW n \in Numbers, RollBackMint(n) PROVE IInv'
  BY <1>1, DeleteKeeps DEF RollBackMint
<1>2. CASE RollBackContract
  BY <1>2, DeleteKeeps DEF RollBackContract
<1> QED BY <1>1, <1>2, MintKeeps, ProcessTokenKeeps, UpdateCachedImagesKeeps, ChangeJobKeeps,
           ChangeSupplyKeeps, ContractKeeps DEF WriteTables, Statuses

-----------------------------------------------------------------------------
(* The request.                                                             *)

Requests ==
  [pc : PCs, url : Urls \cup {Null}, etag : Stamps \cup {Null}, id : Stamps \cup {Null},
   status : (Statuses \ {"invalid"}) \cup {Null},
   body : [token : TokenRows \cup {Null}, metadata : MetadataRows \cup {Null},
           attributes : Children, properties : Children]]

\* What of the invariant a step that only reads must show.
LEMMA ReadKeeps ==
  ASSUME IInv, UNCHANGED Tables, request' \in Requests, kept' \in [Urls -> Answers \cup {Null}],
         request'.etag # Null => request'.etag <= writes,
         request'.id # Null => request'.id <= writes,
         RequestOK', StatusOK', ReadOK',
         \A u \in Urls : kept'[u] # Null =>
           kept'[u] = kept[u] \/ (kept'[u].etag <= writes
                                  /\ (~u.locale /\ Still(u, kept'[u].etag) => kept'[u].body = Body(u)))
  PROVE  IInv'
<1>1. UNCHANGED <<contract, token, metadata, job, writes>>
  BY DEF Tables
<1>2. TypeOK'
  BY <1>1 DEF IInv, TypeOK, Requests
<1>3. Stamped'
  BY <1>1 DEF IInv, Stamped
<1>4. JobsOK'
  BY <1>1 DEF IInv, JobsOK
<1>5. KeptOK'
  BY <1>1 DEF IInv, KeptOK, Still, Body
<1> QED BY <1>2, <1>3, <1>4, <1>5 DEF IInv

\* The end of a request that keeps no answer, or a true one.
LEMMA IdleKeeps ==
  ASSUME IInv, UNCHANGED Tables, request' = NoRequest, kept' \in [Urls -> Answers \cup {Null}],
         \A u \in Urls : kept'[u] # Null =>
           kept'[u] = kept[u] \/ (kept'[u].etag <= writes
                                  /\ (~u.locale /\ Still(u, kept'[u].etag) => kept'[u].body = Body(u)))
  PROVE  IInv'
<1>1. request' \in Requests
  BY DEF NoRequest, NoBody, Requests, PCs, Children
<1>2. RequestOK' /\ StatusOK' /\ ReadOK' /\ request'.etag = Null /\ request'.id = Null
  BY DEF RequestOK, StatusOK, ReadOK, NoRequest, NoBody, HasId, HasStatus, HasToken, HasMetadata
<1> QED BY <1>1, <1>2, ReadKeeps

LEMMA ReplyErrorKeeps ==
  ASSUME IInv, UNCHANGED Tables, ReplyError PROVE IInv'
<1>1. /\ kept' \in [Urls -> Answers \cup {Null}]
      /\ \A u \in Urls : kept'[u] # Null => kept'[u] = kept[u]
  BY DEF ReplyError, IInv, TypeOK
<1> QED BY <1>1, IdleKeeps DEF ReplyError

\* A step of a request under way.
LEMMA StepKeeps ==
  ASSUME IInv, UNCHANGED Tables, UNCHANGED kept, request' \in Requests,
         request'.etag # Null => request'.etag <= writes,
         request'.id # Null => request'.id <= writes,
         RequestOK', StatusOK', ReadOK'
  PROVE  IInv'
<1>1. kept' \in [Urls -> Answers \cup {Null}] /\ \A u \in Urls : kept'[u] = kept[u]
  BY DEF IInv, TypeOK
<1> QED BY <1>1, ReadKeeps

\* What is known of the request at hand.
LEMMA Known ==
  ASSUME IInv
  PROVE  /\ request \in Requests /\ RequestOK /\ StatusOK /\ ReadOK
         /\ request.etag # Null => request.etag <= writes
         /\ request.id # Null => request.id <= writes
         /\ request.pc # "idle" => request.url \in Urls /\ request.url.number \in Numbers
BY TokenApiAssumption DEF IInv, TypeOK, Requests, RequestOK, Stamped

LEMMA AskKeeps ==
  ASSUME IInv, NEW u \in Urls, Ask(u) PROVE IInv'
<1>1. /\ request' = [pc |-> "etag", url |-> u, etag |-> Null, id |-> Null, status |-> Null, body |-> NoBody]
      /\ UNCHANGED kept /\ UNCHANGED Tables
  BY DEF Ask, NoRequest
<1>2. request' \in Requests
  BY <1>1 DEF NoBody, Requests, PCs, Children
<1>3. RequestOK' /\ StatusOK' /\ ReadOK'
  BY <1>1 DEF RequestOK, StatusOK, ReadOK, NoBody, HasId, HasStatus, HasToken, HasMetadata, Still
<1> QED BY <1>1, <1>2, <1>3, StepKeeps

LEMMA NotModifiedKeeps ==
  ASSUME IInv, NotModified PROVE IInv'
<1>1. kept' \in [Urls -> Answers \cup {Null}] /\ \A u \in Urls : kept'[u] = kept[u]
  BY DEF NotModified, IInv, TypeOK
<1> QED BY <1>1, IdleKeeps DEF NotModified

LEMMA ModifiedKeeps ==
  ASSUME IInv, Modified PROVE IInv'
<1> DEFINE etag == Etag(request.url)
           n == EtagNumber(request.url)
<1>1. request.pc = "etag" /\ request.url \in Urls
  BY DEF Modified, At, IInv, RequestOK
<1>2. n \in Numbers \cup {Null}
  BY <1>1, TokenApiAssumption DEF EtagNumber
<1>3. etag \in Stamps \cup {Null} /\ (etag # Null => etag <= writes)
  BY <1>2, Tables0 DEF Etag, TokenRows, IInv, Stamped
<1>4. request' = [request EXCEPT !.pc = "contract", !.etag = etag] /\ UNCHANGED kept /\ UNCHANGED Tables
  BY DEF Modified
<1> HIDE DEF etag, n
<1>5. /\ request' \in Requests /\ request'.pc = "contract" /\ request'.etag = etag
      /\ request'.url = request.url /\ request'.id = request.id /\ request'.body = request.body
      /\ request'.status = request.status
  BY <1>3, <1>4, Known DEF Requests, PCs
<1>6. RequestOK' /\ StatusOK' /\ ReadOK'
  BY <1>1, <1>5, Known DEF RequestOK, StatusOK, ReadOK, HasId, HasStatus, HasToken, HasMetadata
<1>7. request'.id # Null => request'.id <= writes
  BY <1>5, Known
<1> QED BY <1>3, <1>4, <1>5, <1>6, <1>7, StepKeeps

\* The request's next SELECT, when the last one adds nothing to the answer.
LEMMA ReadContractKeeps ==
  ASSUME IInv, ReadContract PROVE IInv'
<1>1. CASE ReplyError
  BY <1>1, ReplyErrorKeeps DEF ReadContract
<1>2. CASE Goto("id")
  <2>1. /\ request' \in Requests /\ request'.pc = "id" /\ request'.etag = request.etag
        /\ request'.url = request.url /\ request'.id = request.id /\ request'.body = request.body
        /\ request'.status = request.status /\ UNCHANGED kept /\ UNCHANGED Tables
        /\ request.pc = "contract"
    BY <1>2, Known DEF Requests, PCs, Goto, ReadContract, At
  <2>2. RequestOK' /\ StatusOK' /\ ReadOK'
    BY <2>1, Known DEF RequestOK, StatusOK, ReadOK, HasId, HasStatus, HasToken, HasMetadata
  <2> QED BY <2>1, <2>2, Known, StepKeeps
<1> QED BY <1>1, <1>2 DEF ReadContract

\* The id that a request reads is the token's.
LEMMA ReadTokenIdKeeps ==
  ASSUME IInv, ReadTokenId PROVE IInv'
<1> DEFINE row == token[request.url.number]
           pc == IF request.url.locale THEN "locale" ELSE "job"
<1>1. CASE ReplyError
  BY <1>1, ReplyErrorKeeps DEF ReadTokenId
<1>2. CASE /\ row # Null /\ request' = [request EXCEPT !.id = row.id, !.pc = pc] /\ UNCHANGED kept
  <2>1. request.pc = "id" /\ request.url \in Urls /\ request.url.number \in Numbers /\ UNCHANGED Tables
    BY Known DEF ReadTokenId, At
  <2>2. row.id \in Stamps /\ row.id # Null /\ row.id <= writes
    BY <1>2, <2>1, Tables0, NullAssumption DEF TokenRows, Stamps, IInv, Stamped
  <2>3. /\ request' \in Requests /\ request'.pc = pc /\ request'.etag = request.etag
        /\ request'.url = request.url /\ request'.id = row.id /\ request'.body = request.body
        /\ request'.status = request.status
    BY <1>2, <2>2, Known DEF Requests, PCs
  <2>4. RequestOK' /\ StatusOK'
    BY <2>1, <2>2, <2>3, Known DEF RequestOK, StatusOK, HasId, HasStatus, HasToken, HasMetadata
  <2>5. token' = token
    BY <2>1 DEF Tables
  <2>6. ReadOK'
    BY <2>3, <2>5 DEF ReadOK, HasId, HasStatus, HasToken, HasMetadata
  <2>7. /\ request'.etag # Null => request'.etag <= writes
        /\ request'.id # Null => request'.id <= writes
    BY <2>2, <2>3, Known
  <2> QED BY <1>2, <2>1, <2>3, <2>4, <2>6, <2>7, StepKeeps
<1> QED BY <1>1, <1>2 DEF ReadTokenId

\* isTokenLocaleAvailable() is of no token without a locale in its URL.
LEMMA ReadLocaleKeeps ==
  ASSUME IInv, ReadLocale PROVE IInv'
<1>1. CASE ReplyError
  BY <1>1, ReplyErrorKeeps DEF ReadLocale
<1>2. CASE Goto("job")
  <2>1. /\ request' \in Requests /\ request'.pc = "job" /\ request'.etag = request.etag
        /\ request'.url = request.url /\ request'.id = request.id /\ request'.body = request.body
        /\ request'.status = request.status /\ UNCHANGED kept /\ UNCHANGED Tables
        /\ request.pc = "locale"
    BY <1>2, Known DEF Requests, PCs, Goto, ReadLocale, At
  <2>2. token' = token /\ metadata' = metadata
    BY <2>1 DEF Tables
  <2>3. RequestOK' /\ StatusOK' /\ ReadOK'
    BY <2>1, <2>2, Known
    DEF RequestOK, StatusOK, ReadOK, Still, HasId, HasStatus, HasToken, HasMetadata
  <2> QED BY <2>1, <2>3, Known, StepKeeps
<1> QED BY <1>1, <1>2 DEF ReadLocale

\* The status that a request reads is of the token it has the id of.
LEMMA ReadJobKeeps ==
  ASSUME IInv, ReadJob PROVE IInv'
<1> DEFINE n == request.url.number
           status == job[n]
<1>1. CASE ReplyError
  BY <1>1, ReplyErrorKeeps DEF ReadJob
<1>2. CASE /\ Found /\ status # "invalid"
           /\ request' = [request EXCEPT !.status = status, !.pc = "token"] /\ UNCHANGED kept
  <2>1. /\ request.pc = "job" /\ request.url \in Urls /\ n \in Numbers /\ UNCHANGED Tables
        /\ token[n] # Null /\ token[n].id = request.id
    BY <1>2, Known DEF ReadJob, At, Found
  <2>2. /\ status \in Statuses \ {"invalid"} /\ status # Null
        /\ status = "done" => token[n].updated_at # Null
    BY <1>2, <2>1, Tables0 DEF TablesOK, JobsOK
  <2>3. /\ request' \in Requests /\ request'.pc = "token" /\ request'.etag = request.etag
        /\ request'.url = request.url /\ request'.id = request.id /\ request'.body = request.body
        /\ request'.status = status
    <3> HIDE DEF status
    <3> QED BY <1>2, <2>2, Known DEF Requests, PCs
  <2>4. token' = token
    BY <2>1 DEF Tables
  <2>5. RequestOK'
    BY <2>1, <2>2, <2>3, Known DEF RequestOK, HasId, HasStatus, HasToken, HasMetadata
  <2>6. StatusOK'
    BY <2>1, <2>2, <2>3, <2>4 DEF StatusOK, HasToken
  <2>7. ReadOK'
    BY <2>1, <2>3, <2>4, Known DEF ReadOK, Still, HasId, HasStatus, HasToken, HasMetadata
  <2> QED BY <1>2, <2>1, <2>3, <2>5, <2>6, <2>7, Known, StepKeeps
<1> QED BY <1>1, <1>2 DEF ReadJob

\* The row that a request reads is the one it has the id of, and not a waiting one.
LEMMA ReadTokenKeeps ==
  ASSUME IInv, ReadToken PROVE IInv'
<1> DEFINE n == request.url.number
           row == token[n]
<1>1. CASE ReplyError
  BY <1>1, ReplyErrorKeeps DEF ReadToken
<1>2. CASE /\ Found /\ ~Waiting(row, request.status)
           /\ request' = [request EXCEPT !.body.token = row, !.pc = "metadata"] /\ UNCHANGED kept
  <2>1. /\ request.pc = "token" /\ request.url \in Urls /\ n \in Numbers /\ UNCHANGED Tables
        /\ row # Null /\ row \in TokenRows /\ row.id = request.id
    BY <1>2, Known, Tables0 DEF ReadToken, At, Found
  <2>2. request.status \in Statuses \ {"invalid"} /\ request.status # Null
    BY <2>1, Known DEF Requests, RequestOK, HasStatus
  <2>3. row.updated_at = Null => request.status = "failed"
    BY <1>2, <2>1, <2>2, Known DEF Waiting, StatusOK, HasStatus, Statuses
  <2>4. /\ request' \in Requests /\ request'.pc = "metadata" /\ request'.etag = request.etag
        /\ request'.url = request.url /\ request'.id = request.id
        /\ request'.status = request.status /\ request'.body = [request.body EXCEPT !.token = row]
    <3> HIDE DEF row
    <3> QED BY <1>2, <2>1, Known DEF Requests, PCs
  <2>5. /\ request'.body.token = row /\ request'.body.metadata = request.body.metadata
        /\ request'.body.attributes = request.body.attributes
        /\ request'.body.properties = request.body.properties
    BY <2>4, Known DEF Requests
  <2>6. token' = token
    BY <2>1 DEF Tables
  <2>7. RequestOK'
    BY <2>1, <2>4, <2>5, Known DEF RequestOK, HasId, HasStatus, HasToken, HasMetadata
  <2>8. StatusOK'
    BY <2>1, <2>3, <2>4, <2>5, <2>6, Known DEF StatusOK, HasStatus, HasToken
  <2>9. ReadOK'
    BY <2>1, <2>4, <2>5, <2>6, Known DEF ReadOK, Still, HasId, HasStatus, HasToken, HasMetadata
  <2> QED BY <1>2, <2>1, <2>4, <2>7, <2>8, <2>9, Known, StepKeeps
<1> QED BY <1>1, <1>2 DEF ReadToken

\* The metadata that a request reads is the body's, of a token that is still the same.
LEMMA ReadMetadataKeeps ==
  ASSUME IInv, ReadMetadata PROVE IInv'
<1> DEFINE u == request.url
           n == u.number
           m == metadata[n]
           has == Found /\ m # Null /\ (u.locale => m.localized)
<1>0. request.pc = "metadata" /\ u \in Urls /\ n \in Numbers /\ UNCHANGED Tables
  BY Known DEF ReadMetadata, At
<1>1. token' = token /\ metadata' = metadata
  BY <1>0 DEF Tables
<1>2. ASSUME ~u.locale, Still(u, request.etag)
      PROVE  /\ token[n].id = request.id /\ request.body.token = token[n] /\ Found
             /\ Body(u).metadata = m
             /\ m = Null => Body(u).attributes = Null /\ Body(u).properties = Null
  <2>1. token[n].id = request.id /\ request.body.token = token[n]
    BY <1>0, <1>2, Known DEF ReadOK, HasId, HasToken
  <2> QED BY <1>2, <2>1 DEF Body, Still, Found
<1>3. CASE has
  <2>1. request' = [request EXCEPT !.body.metadata = m, !.pc = "attributes"] /\ UNCHANGED kept
    BY <1>3 DEF ReadMetadata
  <2>2. m \in MetadataRows /\ m # Null
    BY <1>0, <1>3, Tables0
  <2>3. /\ request' \in Requests /\ request'.pc = "attributes" /\ request'.etag = request.etag
        /\ request'.url = request.url /\ request'.id = request.id
        /\ request'.status = request.status /\ request'.body = [request.body EXCEPT !.metadata = m]
    <3> HIDE DEF m
    <3> QED BY <2>1, <2>2, Known DEF Requests, PCs
  <2>4. /\ request'.body.token = request.body.token /\ request'.body.metadata = m
        /\ request'.body.attributes = request.body.attributes
        /\ request'.body.properties = request.body.properties
    BY <2>3, Known DEF Requests
  <2>5. RequestOK'
    BY <1>0, <2>2, <2>3, <2>4, Known DEF RequestOK, HasId, HasStatus, HasToken, HasMetadata
  <2>6. StatusOK'
    BY <1>0, <1>1, <2>3, <2>4, Known DEF StatusOK, HasStatus, HasToken
  <2>7. ReadOK'
    BY <1>0, <1>1, <1>2, <2>3, <2>4 DEF ReadOK, Still, Body, HasId, HasStatus, HasToken, HasMetadata
  <2> QED BY <1>0, <2>1, <2>3, <2>5, <2>6, <2>7, Known, StepKeeps
<1>4. CASE ~has
  <2>1. /\ request' \in Requests /\ request'.pc = "reply" /\ request'.etag = request.etag
        /\ request'.url = request.url /\ request'.id = request.id /\ request'.body = request.body
        /\ request'.status = request.status /\ UNCHANGED kept
    BY <1>4, Known DEF ReadMetadata, Goto, Requests, PCs
  <2>2. RequestOK'
    BY <1>0, <2>1, Known DEF RequestOK, HasId, HasStatus, HasToken, HasMetadata
  <2>3. StatusOK'
    BY <1>0, <1>1, <2>1, Known DEF StatusOK, HasStatus, HasToken
  <2>4. request.body.metadata = Null /\ request.body.attributes = Null /\ request.body.properties = Null
    BY <1>0, Known DEF RequestOK, HasMetadata
  <2>5. ReadOK'
    <3>1. ASSUME ~u.locale, Still(u, request.etag) PROVE m = Null
      BY <1>2, <1>4, <3>1
    <3> QED BY <1>0, <1>1, <1>2, <2>1, <2>4, <3>1
            DEF ReadOK, Still, Body, HasId, HasStatus, HasToken, HasMetadata
  <2> QED BY <1>0, <2>1, <2>2, <2>3, <2>5, Known, StepKeeps
<1> QED BY <1>3, <1>4

\* What a request finds of a row's attributes and properties: the body's, of a token that
\* is still the same.
LEMMA ChildrenFound ==
  ASSUME IInv, request.pc \in {"attributes", "properties"}
  PROVE  LET u == request.url
             children == ChildrenOf(request.body.metadata)
         IN /\ children \in Children
            /\ ~u.locale /\ Still(u, request.etag) =>
                 children = Body(u).attributes /\ children = Body(u).properties
<1> DEFINE u == request.url
           m == request.body.metadata
<1>1. m # Null /\ m \in MetadataRows /\ u \in Urls /\ u.number \in Numbers
  BY Known DEF Requests, RequestOK
<1>2. m.id \in Stamps
  BY <1>1 DEF MetadataRows
<1>3. ChildrenOf(m) \in Children
  BY <1>2 DEF ChildrenOf, Children
<1>4. ASSUME ~u.locale, Still(u, request.etag)
      PROVE  ChildrenOf(m) = Body(u).attributes /\ ChildrenOf(m) = Body(u).properties
  <2>1. token[u.number].id = request.id /\ m = Body(u).metadata
    BY <1>4, Known DEF ReadOK, HasId, HasMetadata
  <2>2. m = metadata[u.number] /\ Found
    BY <1>1, <1>4, <2>1 DEF Body, Still, Found
  <2> QED BY <1>1, <1>4, <2>2 DEF ChildrenOf, Body
<1> QED BY <1>3, <1>4

LEMMA ReadAttributesKeeps ==
  ASSUME IInv, ReadAttributes PROVE IInv'
<1> DEFINE u == request.url
           children == ChildrenOf(request.body.metadata)
<1>1. /\ request.pc = "attributes" /\ u \in Urls /\ u.number \in Numbers /\ UNCHANGED Tables
      /\ request' = [request EXCEPT !.body.attributes = children, !.pc = "properties"] /\ UNCHANGED kept
  BY Known DEF ReadAttributes, At
<1>2. token' = token /\ metadata' = metadata
  BY <1>1 DEF Tables
<1>3. children \in Children
      /\ (~u.locale /\ Still(u, request.etag) => children = Body(u).attributes)
  BY <1>1, ChildrenFound
<1> HIDE DEF children
<1>4. /\ request' \in Requests /\ request'.pc = "properties" /\ request'.etag = request.etag
      /\ request'.url = request.url /\ request'.id = request.id
      /\ request'.status = request.status
      /\ request'.body = [request.body EXCEPT !.attributes = children]
  BY <1>1, <1>3, Known DEF Requests, PCs
<1>5. /\ request'.body.token = request.body.token /\ request'.body.metadata = request.body.metadata
      /\ request'.body.attributes = children /\ request'.body.properties = request.body.properties
  BY <1>4, Known DEF Requests
<1>6. RequestOK'
  BY <1>1, <1>4, <1>5, Known DEF RequestOK, HasId, HasStatus, HasToken, HasMetadata
<1>7. StatusOK'
  BY <1>1, <1>2, <1>4, <1>5, Known DEF StatusOK, HasStatus, HasToken
<1>8. ReadOK'
  BY <1>1, <1>2, <1>3, <1>4, <1>5, Known
  DEF ReadOK, Still, Body, HasId, HasStatus, HasToken, HasMetadata
<1> QED BY <1>1, <1>4, <1>6, <1>7, <1>8, Known, StepKeeps

LEMMA ReadPropertiesKeeps ==
  ASSUME IInv, ReadProperties PROVE IInv'
<1> DEFINE u == request.url
           children == ChildrenOf(request.body.metadata)
<1>1. /\ request.pc = "properties" /\ u \in Urls /\ u.number \in Numbers /\ UNCHANGED Tables
      /\ request' = [request EXCEPT !.body.properties = children, !.pc = "reply"] /\ UNCHANGED kept
  BY Known DEF ReadProperties, At
<1>2. token' = token /\ metadata' = metadata
  BY <1>1 DEF Tables
<1>3. children \in Children
      /\ (~u.locale /\ Still(u, request.etag) => children = Body(u).properties)
  BY <1>1, ChildrenFound
<1> HIDE DEF children
<1>4. /\ request' \in Requests /\ request'.pc = "reply" /\ request'.etag = request.etag
      /\ request'.url = request.url /\ request'.id = request.id
      /\ request'.status = request.status
      /\ request'.body = [request.body EXCEPT !.properties = children]
  BY <1>1, <1>3, Known DEF Requests, PCs
<1>5. /\ request'.body.token = request.body.token /\ request'.body.metadata = request.body.metadata
      /\ request'.body.properties = children /\ request'.body.attributes = request.body.attributes
  BY <1>4, Known DEF Requests
<1>6. RequestOK'
  BY <1>1, <1>4, <1>5, Known DEF RequestOK, HasId, HasStatus, HasToken, HasMetadata
<1>7. StatusOK'
  BY <1>1, <1>2, <1>4, <1>5, Known DEF StatusOK, HasStatus, HasToken
<1>8. ReadOK'
  BY <1>1, <1>2, <1>3, <1>4, <1>5, Known
  DEF ReadOK, Still, Body, HasId, HasStatus, HasToken, HasMetadata
<1> QED BY <1>1, <1>4, <1>6, <1>7, <1>8, Known, StepKeeps

\* The answer that the client keeps is the body, of a token that is still the same.
LEMMA ReplyKeeps ==
  ASSUME IInv, Reply PROVE IInv'
<1> DEFINE u == request.url
           answer == [etag |-> request.etag, body |-> request.body]
<1>1. request.pc = "reply" /\ u \in Urls /\ UNCHANGED Tables
  BY Known DEF Reply, At
<1>2. CASE ReplyError
  BY <1>1, <1>2, ReplyErrorKeeps
<1>3. CASE /\ kept' = [kept EXCEPT ![u] = IF request.etag = Null THEN Null ELSE answer]
           /\ request' = NoRequest
  <2>1. kept \in [Urls -> Answers \cup {Null}]
    BY DEF IInv, TypeOK
  <2>2. CASE request.etag = Null
    <3>1. /\ kept' \in [Urls -> Answers \cup {Null}]
          /\ \A v \in Urls : kept'[v] # Null => kept'[v] = kept[v]
      BY <1>1, <1>3, <2>1, <2>2
    <3> QED BY <1>1, <1>3, <3>1, IdleKeeps
  <2>3. CASE request.etag # Null
    <3>1. request.body.token # Null /\ request \in Requests
      BY <1>1, Known DEF RequestOK, HasToken
    <3>2. request.body \in Bodies /\ request.etag \in Stamps /\ request.etag <= writes
      BY <2>3, <3>1, Known DEF Bodies, Requests
    <3>3. answer \in Answers /\ answer.etag = request.etag /\ answer.body = request.body
      BY <3>2 DEF Answers
    <3>4. ASSUME ~u.locale, Still(u, request.etag) PROVE request.body = Body(u)
      <4>1. /\ request.body.token = token[u.number] /\ request.body.metadata = Body(u).metadata
            /\ request.body.attributes = Body(u).attributes
            /\ request.body.properties = Body(u).properties
        BY <1>1, <3>4, Known DEF ReadOK, HasToken, HasMetadata
      <4> QED BY <3>2, <4>1 DEF Body, Bodies
    <3> HIDE DEF answer, u
    <3>5. kept' = [kept EXCEPT ![u] = answer]
      BY <1>3, <2>3
    <3>6. kept' \in [Urls -> Answers \cup {Null}]
      BY <2>1, <3>3, <3>5
    <3>7. ASSUME NEW v \in Urls, v # u PROVE kept'[v] = kept[v]
      BY <2>1, <3>5, <3>7
    <3>8. kept'[u] = answer
      BY <1>1, <2>1, <3>5
    <3>9. ASSUME NEW v \in Urls
          PROVE  kept'[v] = kept[v] \/ (kept'[v].etag <= writes
                   /\ (~v.locale /\ Still(v, kept'[v].etag) => kept'[v].body = Body(v)))
      BY <3>2, <3>3, <3>4, <3>7, <3>8
    <3> QED BY <1>1, <1>3, <3>6, <3>9, IdleKeeps
  <2> QED BY <2>2, <2>3
<1> QED BY <1>2, <1>3 DEF Reply

-----------------------------------------------------------------------------
(* The theorems.                                                            *)

LEMMA InitOK == Init => IInv
<1> SUFFICES ASSUME Init PROVE IInv
  OBVIOUS
<1>1. TypeOK
  BY TokenApiAssumption DEF Init, TypeOK, NoRequest, NoBody, PCs, Children
<1>2. Stamped /\ JobsOK
  BY NullAssumption DEF Init, Stamped, JobsOK, NoRequest, Statuses
<1>3. RequestOK /\ StatusOK /\ ReadOK /\ KeptOK
  BY DEF Init, RequestOK, StatusOK, ReadOK, KeptOK, NoRequest, NoBody,
         HasId, HasStatus, HasToken, HasMetadata
<1> QED BY <1>1, <1>2, <1>3 DEF IInv

\* A step that changes nothing.
LEMMA StutterKeeps ==
  ASSUME IInv, UNCHANGED vars PROVE IInv'
<1>1. UNCHANGED <<contract, token, metadata, job, writes, request, kept>>
  BY DEF vars
<1>2. TypeOK' /\ Stamped' /\ JobsOK' /\ RequestOK' /\ StatusOK'
  BY <1>1 DEF IInv, TypeOK, Stamped, JobsOK, RequestOK, StatusOK
<1>3. ReadOK' /\ KeptOK'
  BY <1>1 DEF IInv, ReadOK, KeptOK, Still, Body
<1> QED BY <1>2, <1>3 DEF IInv

LEMMA NextKeeps ==
  IInv /\ [Next]_vars => IInv'
<1> SUFFICES ASSUME IInv, [Next]_vars PROVE IInv'
  OBVIOUS
<1>1. CASE WriteTables
  BY <1>1, WritersKeep
<1>2. CASE HandleRequest
  BY <1>2, NotModifiedKeeps, ModifiedKeeps, ReadContractKeeps, ReadTokenIdKeeps, ReadLocaleKeeps,
     ReadJobKeeps, ReadTokenKeeps, ReadMetadataKeeps, ReadAttributesKeeps, ReadPropertiesKeeps,
     ReplyKeeps DEF HandleRequest
<1>3. ASSUME NEW u \in Urls, Ask(u) PROVE IInv'
  BY <1>3, AskKeeps
<1>4. CASE UNCHANGED vars
  BY <1>4, StutterKeeps
<1> QED BY <1>1, <1>2, <1>3, <1>4 DEF Next

LEMMA Inductive == Spec => []IInv
BY InitOK, NextKeeps, PTL DEF Spec

\* The tables, the request and what the client keeps have their types (TypeOK).
THEOREM TypeCorrect == Spec => []TypeOK
<1>1. IInv => TypeOK
  BY DEF IInv
<1> QED BY <1>1, Inductive, PTL

\* cache.ts handleCache(): whatever the SELECTs of an answer and the transactions of the
\* writers interleave to, a 304 to a URL without a locale is given only to a client whose
\* answer is what the tables now say (NotModifiedIsTrue).
THEOREM TrueNotModified == Spec => NotModifiedIsTrue
<1>1. ASSUME IInv, NotModified, ~request.url.locale
      PROVE  kept[request.url].body = Body(request.url)
  <2> DEFINE u == request.url
             e == kept[u].etag
  <2>1. u \in Urls /\ kept[u] # Null /\ Etag(u) = e
    BY <1>1, Known DEF NotModified, At
  <2>2. e # Null
    BY <1>1, <2>1, NullAssumption DEF IInv, TypeOK, Answers, Stamps
  <2>3. EtagNumber(u) = u.number
    BY <1>1 DEF EtagNumber
  <2>4. Still(u, e)
    BY <2>1, <2>2, <2>3 DEF Etag, Still
  <2> QED BY <1>1, <2>1, <2>4 DEF IInv, KeptOK
<1>2. IInv => [NotModified /\ ~request.url.locale => kept[request.url].body = Body(request.url)]_vars
  BY <1>1
<1> QED BY <1>2, Inductive, PTL DEF NotModifiedIsTrue

\* pg-store.ts getTokenMetadataBundleInternal(): the reads of the job and of the row are two,
\* and still a row that no job has written is answered only when its job had failed, and
\* never because the job ended in between (BlankOnlyIfFailed).
THEOREM NoBlankAnswer == Spec => BlankOnlyIfFailed
<1>1. ASSUME IInv, Reply, request.body.token.updated_at = Null PROVE request.status = "failed"
  BY <1>1, Known DEF Reply, At, StatusOK, HasToken
<1>2. IInv => [Reply /\ contract # Null /\ request.body.token.updated_at = Null
                 => request.status = "failed"]_vars
  BY <1>1
<1> QED BY <1>2, Inductive, PTL DEF BlankOnlyIfFailed
=============================================================================
