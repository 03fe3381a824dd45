------------------------------ MODULE TokenJob ------------------------------
(***************************************************************************)
(* What one token's job does between the queue's pick and its settled row:  *)
(* ProcessTokenJob.handler() reads the token, asks the contract for its     *)
(* URI and values, fetches the metadata of every locale and writes the      *)
(* bundle; Job.work() turns the outcome into a job status.  Handlers of      *)
(* several tokens run at once and share rate_limited_hosts; a handler that   *)
(* outlives JOB_QUEUE_TIMEOUT_MS keeps running beside the next one of the    *)
(* same token.                                                               *)
(*                                                                          *)
(* A step is one await: a statement, a contract call or an HTTP request.    *)
(* What a document says is left out, but for whether it has a usable name: a *)
(* metadata row is its locale and the round that fetched it (MetadataBundle  *)
(* has the rest).  All URIs are on one host.  Picks and retry counts are      *)
(* JobQueue's.                                                               *)
(***************************************************************************)
EXTENDS Integers, FiniteSets

CONSTANTS
  Tokens,          \* rows of tokens, each with its job
  TypeOf,          \* [Tokens -> {"ft", "nft", "sft"}]
  Locales,         \* what a metadata JSON may declare beside the default
  Handlers,        \* slots: handlers that run at the same time
  Null,            \* SQL NULL; no row
  Thrown,          \* the errors of this instance
  RetryAfters,     \* Retry-After headers of a 429; 0 when there is none
  MaxAttempts,     \* METADATA_MAX_IMMEDIATE_URI_RETRIES
  JobRetryAfter,   \* JOB_QUEUE_RETRY_AFTER_MS
  HostRetryAfter,  \* METADATA_RATE_LIMITED_HOST_RETRY_AFTER
  ImagesEnabled,   \* IMAGE_CACHE_PROCESSOR_ENABLED
  MaxTime,         \* bound: the clock
  MaxRuns          \* bound: handlers started

-----------------------------------------------------------------------------
(* errors.ts                                                                *)

Super ==
  [MetadataSizeExceededError |-> "UserError", ImageSizeExceededError |-> "MetadataSizeExceededError",
   MetadataTimeoutError |-> "UserError", ImageTimeoutError |-> "MetadataTimeoutError",
   MetadataParseError |-> "UserError", ImageParseError |-> "MetadataParseError",
   MetadataHttpError |-> "UserError", ImageHttpError |-> "MetadataHttpError",
   SmartContractClarityError |-> "UserError", TooManyRequestsHttpError |-> "Error",
   RetryableJobError |-> "Error", StacksNodeHttpError |-> "Error", OtherError |-> "Error"]

Errors == DOMAIN Super

\* error instanceof c
IsA(e, c) == e = c \/ (e \in Errors /\ (Super[e] = c \/ (Super[e] \in Errors /\ Super[Super[e]] = c)))

NodeErrors == {"RetryableJobError", "SmartContractClarityError", "StacksNodeHttpError"}
FetchErrors == {"MetadataSizeExceededError", "MetadataTimeoutError", "MetadataParseError",
                "MetadataHttpError", "TooManyRequestsHttpError"}
ImageErrors == {"ImageSizeExceededError", "ImageTimeoutError", "ImageParseError", "ImageHttpError",
                "TooManyRequestsHttpError", "MetadataParseError", "OtherError"}

\* fetchAllMetadataLocalesFromBaseUri() wraps a 429 in a RetryableJobError whose cause it is.
Retryable(e) == e \in {"RetryableJobError", "TooManyRequestsHttpError"}

\* Mutant: the superclasses come first.
MetadataFirst ==
  <<"MetadataSizeExceededError", "ImageSizeExceededError", "MetadataTimeoutError", "ImageTimeoutError",
    "MetadataParseError", "ImageParseError", "MetadataHttpError", "ImageHttpError",
    "SmartContractClarityError">>

\* The cases of getUserErrorInvalidReason(): the first one that applies names the reason.
ReasonCases ==
  <<"ImageSizeExceededError", "MetadataSizeExceededError", "ImageTimeoutError", "MetadataTimeoutError",
    "ImageParseError", "MetadataParseError", "ImageHttpError", "MetadataHttpError",
    "SmartContractClarityError">>

getUserErrorInvalidReason(e) ==
  LET applies == {i \in DOMAIN ReasonCases : IsA(e, ReasonCases[i])} IN
  IF applies = {} THEN "unknown" ELSE ReasonCases[CHOOSE i \in applies : \A j \in applies : i <= j]

-----------------------------------------------------------------------------
ASSUME TokenJobAssumption ==
  /\ TypeOf \in [Tokens -> {"ft", "nft", "sft"}]
  /\ "default" \notin Locales
  /\ Null \notin Handlers \cup Tokens \cup Errors \cup {"UserError"}
  /\ Thrown \subseteq Errors
  /\ RetryAfters \subseteq Nat
  /\ MaxAttempts \in Nat \ {0}
  /\ JobRetryAfter \in Nat /\ HostRetryAfter \in Nat
  /\ ImagesEnabled \in BOOLEAN
  /\ MaxTime \in Nat /\ MaxRuns \in Nat

VARIABLES
  now,       \* the clock
  limited,   \* rate_limited_hosts: when the host may be asked again, or Null
  tokens,    \* the rows of tokens that exist
  written,   \* [Tokens -> the run whose values the row has], 0 for none
  metadata,  \* rows of metadata, each with the run and the attempt it is from
  job,       \* [Tokens -> its row of jobs]
  lock,      \* [Tokens -> the handler whose transaction holds the row's lock, or Null]
  run,       \* [Handlers -> the handler's locals]
  started,   \* handlers started: each is known by its number
  latest,    \* history: the last run of a token
  overran,   \* history: tokens a handler of which has outlived its timeout
  threw,     \* history: what the last settled run of a token threw, or Null
  asked      \* history: when the last 429 that was saved allows the next request

vars == <<now, limited, tokens, written, metadata, job, lock, run, started, latest, overran, threw, asked>>

Statuses == {"pending", "queued", "done", "failed", "invalid"}
Fetched == [locale : Locales \cup {"default"}, attempt : Nat]
PCs == {"idle", "row", "uri", "host", "unlimit", "fields", "fetch", "parse",
        "update", "delete", "insert", "over", "settle"}

Idle == [pc |-> "idle", token |-> Null, number |-> 0, live |-> FALSE, uri |-> FALSE, data |-> FALSE,
         raw |-> {}, todo |-> {}, attempt |-> 0, bundles |-> {}, error |-> Null, old |-> {},
         after |-> JobRetryAfter]

Handler ==
  [pc : PCs, token : Tokens \cup {Null}, number : Nat,
   live : BOOLEAN,                    \* work() still waits for it
   uri : BOOLEAN,                     \* the contract has one
   data : BOOLEAN,                    \* the contract has a name, symbol, decimals or supply
   raw : SUBSET Fetched,              \* rawMetadataLocales, of the last round
   todo : SUBSET (Locales \cup {"default"}), \* the locales still to fetch
   attempt : 0..(MaxAttempts - 1),    \* fetchImmediateRetryCount
   bundles : SUBSET Fetched,          \* insertBundles: those that will be rows
   error : Errors \cup {Null},        \* what the handler, or its fetch, threw last
   old : SUBSET Nat,                  \* the runs whose rows the DELETE found
   after : Nat]                       \* retry_after, in work()

TypeOK ==
  /\ now \in 0..MaxTime
  /\ limited \in Nat \cup {Null}
  /\ tokens \subseteq Tokens
  /\ written \in [Tokens -> 0..MaxRuns]
  /\ metadata \subseteq [token : Tokens, run : 1..MaxRuns, locale : Locales \cup {"default"},
                         attempt : 0..(MaxAttempts - 1)]
  /\ job \in [Tokens -> [status : Statuses, reason : {ReasonCases[i] : i \in DOMAIN ReasonCases} \cup {"unknown", Null},
                         retry_after : Nat \cup {Null}]]
  /\ lock \in [Tokens -> Handlers \cup {Null}]
  /\ run \in [Handlers -> Handler]
  /\ started \in 0..MaxRuns
  /\ latest \in [Tokens -> 0..MaxRuns]
  /\ overran \subseteq Tokens
  /\ threw \in [Tokens -> Errors \cup {Null}]
  /\ asked \in Nat

Init ==
  /\ now = 0 /\ limited = Null
  /\ tokens = Tokens
  /\ written = [t \in Tokens |-> 0] /\ metadata = {}
  /\ job = [t \in Tokens |-> [status |-> "pending", reason |-> Null, retry_after |-> Null]]
  /\ lock = [t \in Tokens |-> Null]
  /\ run = [h \in Handlers |-> Idle] /\ started = 0
  /\ latest = [t \in Tokens |-> 0] /\ overran = {}
  /\ threw = [t \in Tokens |-> Null] /\ asked = 0

-----------------------------------------------------------------------------
(* The queue, the clock and the rest of the program.                        *)

Tick == now < MaxTime /\ now' = now + 1
        /\ UNCHANGED <<limited, tokens, written, metadata, job, lock, run, started, latest, overran, threw, asked>>

\* JobQueue takes a due row and calls work(); a row that a killed process left
\* queued is taken again.  A token has one job in memory.
Start(h, t) ==
  /\ run[h].pc = "idle" /\ started < MaxRuns
  /\ t \in tokens
  /\ \A g \in Handlers : ~(run[g].live /\ run[g].token = t)
  /\ \/ job[t].status = "queued"
     \/ job[t].status = "pending" /\ (job[t].retry_after # Null => job[t].retry_after < now)
  /\ started' = started + 1
  /\ latest' = [latest EXCEPT ![t] = started']
  /\ run' = [run EXCEPT ![h] = [Idle EXCEPT !.pc = "row", !.token = t, !.number = started', !.live = TRUE]]
  /\ job' = [job EXCEPT ![t] = [status |-> "queued", reason |-> Null, retry_after |-> Null]]
  /\ UNCHANGED <<now, limited, tokens, written, metadata, lock, overran, threw, asked>>

\* A notification, an RPC call or a block asks for the token again.
Request(t) ==
  /\ t \in tokens /\ job[t].status # "pending"
  /\ job' = [job EXCEPT ![t].status = "pending"]
  /\ UNCHANGED <<now, limited, tokens, written, metadata, lock, run, started, latest, overran, threw, asked>>

\* A block is rolled back: the token goes, its job and metadata with it, once
\* no transaction holds its row.
RollBack(t) ==
  /\ t \in tokens /\ lock[t] = Null
  /\ tokens' = tokens \ {t}
  /\ metadata' = {m \in metadata : m.token # t}
  /\ UNCHANGED <<now, limited, written, job, lock, run, started, latest, overran, threw, asked>>

\* The process is killed: open transactions are rolled back.
Kill ==
  /\ \E h \in Handlers : run[h].pc # "idle"
  /\ run' = [h \in Handlers |-> Idle]
  /\ lock' = [t \in Tokens |-> Null]
  /\ UNCHANGED <<now, limited, tokens, written, metadata, job, started, latest, overran, threw, asked>>

-----------------------------------------------------------------------------
(* ProcessTokenJob.handler()                                                *)

Others == <<now, tokens, started, latest>>
Goto(h, pc) == run' = [run EXCEPT ![h].pc = pc]
\* handler() is left, by an error or without one: its locals are gone.
Leave(h, e) ==
  run' = [run EXCEPT ![h] = [Idle EXCEPT !.pc = "over", !.token = run[h].token,
                                         !.number = run[h].number, !.live = run[h].live, !.error = e]]
AfterUri(h) == IF TypeOf[run[h].token] # "nft" THEN "fields" ELSE IF run[h].uri THEN "fetch" ELSE "update"

\* The token and its contract, in one transaction; without them there is nothing to do.
ReadRow(h) ==
  /\ run[h].pc = "row"
  /\ \/ run[h].token \in tokens /\ Goto(h, "uri")
     \/ run[h].token \notin tokens /\ Leave(h, Null)
  /\ UNCHANGED <<limited, written, metadata, job, lock, overran, threw, asked>> /\ UNCHANGED Others

\* getTokenUri(): the contract call, and a URL that may not be fetchable.
ReadUri(h) ==
  /\ run[h].pc = "uri"
  /\ \/ \E e \in (NodeErrors \cup {"MetadataParseError"}) \cap Thrown : Leave(h, e)
     \/ run' = [run EXCEPT ![h].pc = "host", ![h].uri = TRUE, ![h].todo = {"default"}]
     \/ Goto(h, AfterUri(h))
  /\ UNCHANGED <<limited, written, metadata, job, lock, overran, threw, asked>> /\ UNCHANGED Others

\* getTokenUri(): the SELECT of the host.
CheckHost(h) ==
  /\ run[h].pc = "host"
  /\ \/ limited = Null /\ Goto(h, AfterUri(h))
     \/ limited # Null /\ limited <= now /\ Goto(h, "unlimit")
     \/ limited # Null /\ limited > now /\ Leave(h, "RetryableJobError")
  /\ UNCHANGED <<limited, written, metadata, job, lock, overran, threw, asked>> /\ UNCHANGED Others

\* getTokenUri(): Retry-After has passed, the host is deleted by its name.
DeleteHost(h) ==
  /\ run[h].pc = "unlimit"
  /\ limited' = Null
  /\ Goto(h, AfterUri(h))
  /\ UNCHANGED <<written, metadata, job, lock, overran, threw, asked>> /\ UNCHANGED Others

\* handleFt(), handleSft(): name, symbol, decimals, supply.
ReadFields(h) ==
  /\ run[h].pc = "fields"
  /\ \/ \E e \in NodeErrors \cap Thrown : Leave(h, e)
     \/ \E data \in BOOLEAN : run' = [run EXCEPT ![h].data = data, ![h].pc = IF run[h].uri THEN "fetch" ELSE "update"]
  /\ UNCHANGED <<limited, written, metadata, job, lock, overran, threw, asked>> /\ UNCHANGED Others

\* Mutant: an FT's rate limit is not thrown again.
FtGoesOn(h, e) == TypeOf[run[h].token] = "ft" /\ run[h].data

\* handleFt(): with data from the contract, it goes on without the metadata.
FtFallsBack(h, e) == TypeOf[run[h].token] = "ft" /\ run[h].data /\ ~Retryable(e)

\* Mutant: the list of locales is kept from one attempt to the next.
TryAgainKeeping(h) ==
  run' = [run EXCEPT ![h].pc = "fetch", ![h].todo = {"default"}, ![h].attempt = @ + 1]

\* The next round of the do loop, with an empty list.
TryAgain(h) ==
  run' = [run EXCEPT ![h].pc = "fetch", ![h].todo = {"default"}, ![h].attempt = @ + 1, ![h].raw = {}]

\* Mutant: one attempt too many.
FinalLate(h, e) ==
  \/ e = "TooManyRequestsHttpError" \/ IsA(e, "MetadataSizeExceededError") \/ IsA(e, "MetadataHttpError")
  \/ run[h].attempt >= MaxAttempts

\* The errors after which fetchAllMetadataLocalesFromBaseUri() gives up.
Final(h, e) ==
  \/ e = "TooManyRequestsHttpError" \/ IsA(e, "MetadataSizeExceededError") \/ IsA(e, "MetadataHttpError")
  \/ run[h].attempt + 1 >= MaxAttempts

\* Its catch.
FetchFails(h, e) ==
  \/ ~Final(h, e) /\ TryAgain(h)
  \/ Final(h, e) /\ FtFallsBack(h, e)
     /\ run' = [run EXCEPT ![h].pc = "update", ![h].raw = {}, ![h].error = e]
  \/ Final(h, e) /\ ~FtFallsBack(h, e) /\ Leave(h, e)

\* One request of the loop's body.  The default metadata may declare locales.
Fetch(h) ==
  /\ run[h].pc = "fetch"
  /\ \/ \E e \in FetchErrors \cap Thrown : FetchFails(h, e)
     \/ \E l \in run[h].todo, declared \in SUBSET Locales :
          /\ l # "default" => declared = {}
          /\ LET todo == (run[h].todo \cup declared) \ {l} IN
             run' = [run EXCEPT
               ![h].raw = @ \cup {[locale |-> l, attempt |-> run[h].attempt]},
               ![h].todo = todo,
               ![h].pc = IF todo # {} THEN "fetch" ELSE "parse"]
  /\ UNCHANGED <<limited, written, metadata, job, lock, overran, threw, asked>> /\ UNCHANGED Others

\* parseMetadataForInsertion(), inside the same try: a document without a name, its
\* own or the default's, is passed over without an error; an image may fail.
ParseMetadata(h) ==
  /\ run[h].pc = "parse"
  /\ \/ \E named \in SUBSET run[h].raw :
          run' = [run EXCEPT ![h].bundles = named, ![h].pc = "update"]
     \/ ImagesEnabled /\ \E e \in ImageErrors \cap Thrown : FetchFails(h, e)
  /\ UNCHANGED <<limited, written, metadata, job, lock, overran, threw, asked>> /\ UNCHANGED Others

-----------------------------------------------------------------------------
(* updateProcessedTokenWithMetadata()                                       *)

\* Mutant: the row of the token is not updated, so not locked.
TakesNoLock(t, h) == lock' = lock

\* The row is locked until the transaction ends.
TakesLock(t, h) == lock[t] = Null /\ lock' = [lock EXCEPT ![t] = h]

\* UPDATE tokens: waits for the row; none is left after a rollback.
UpdateToken(h) ==
  LET t == run[h].token IN
  /\ run[h].pc = "update"
  /\ \/ t \notin tokens /\ UNCHANGED lock /\ Leave(h, Null)
     \/ t \in tokens /\ TakesLock(t, h) /\ Goto(h, "delete")
  /\ UNCHANGED <<limited, written, metadata, job, overran, threw, asked>> /\ UNCHANGED Others

\* DELETE FROM metadata: the rows committed by now.
DeleteMetadata(h) ==
  /\ run[h].pc = "delete"
  /\ run' = [run EXCEPT ![h].pc = "insert",
                        ![h].old = {m.run : m \in {n \in metadata : n.token = run[h].token}}]
  /\ UNCHANGED <<limited, written, metadata, job, lock, overran, threw, asked>> /\ UNCHANGED Others

\* The INSERTs, if there are any, and COMMIT.
InsertMetadata(h) ==
  LET t == run[h].token IN
  /\ run[h].pc = "insert"
  /\ metadata' = {m \in metadata : ~(m.token = t /\ m.run \in run[h].old)}
                 \cup {[token |-> t, run |-> run[h].number, locale |-> b.locale,
                        attempt |-> b.attempt] : b \in run[h].bundles}
  /\ written' = [written EXCEPT ![t] = run[h].number]
  /\ lock' = [lock EXCEPT ![t] = Null]
  /\ Leave(h, Null)
  /\ UNCHANGED <<limited, job, overran, threw, asked>> /\ UNCHANGED Others

\* Mutant: the failure of a statement is swallowed.
WriteFailsSilently(h) ==
  /\ run[h].pc \in {"update", "delete", "insert"}
  /\ lock' = [t \in Tokens |-> IF lock[t] = h THEN Null ELSE lock[t]]
  /\ Leave(h, Null)
  /\ UNCHANGED <<limited, written, metadata, job, overran, threw, asked>> /\ UNCHANGED Others

\* A statement fails: ROLLBACK.
WriteFails(h) ==
  /\ "OtherError" \in Thrown
  /\ run[h].pc \in {"update", "delete", "insert"}
  /\ lock' = [t \in Tokens |-> IF lock[t] = h THEN Null ELSE lock[t]]
  /\ Leave(h, "OtherError")
  /\ UNCHANGED <<limited, written, metadata, job, overran, threw, asked>> /\ UNCHANGED Others

-----------------------------------------------------------------------------
(* Job.work()                                                               *)

Settle(t, e, status, reason, after) ==
  /\ job' = IF t \in tokens THEN [job EXCEPT ![t] = [status |-> status, reason |-> reason, retry_after |-> after]]
            ELSE job
  /\ threw' = [threw EXCEPT ![t] = e]

\* resolveOrTimeout() gives up on the handler, which goes on.
TimeOut(h) ==
  /\ run[h].live /\ run[h].pc \notin {"idle", "over", "settle"}
  /\ run' = [run EXCEPT ![h].live = FALSE]
  /\ overran' = overran \cup {run[h].token}
  /\ Settle(run[h].token, "OtherError", "failed", Null, Null)
  /\ UNCHANGED <<limited, written, metadata, lock, asked>> /\ UNCHANGED Others

\* Nobody waits for it any more.
EndUnheard(h) ==
  /\ run[h].pc = "over" /\ ~run[h].live
  /\ run' = [run EXCEPT ![h] = Idle]
  /\ UNCHANGED <<limited, written, metadata, job, lock, overran, threw, asked>> /\ UNCHANGED Others

\* saveRateLimitedHost(): the host waits from now on; so will the job.
SaveHost(h) ==
  /\ run[h].pc = "over" /\ run[h].live /\ run[h].error = "TooManyRequestsHttpError"
  /\ \E a \in RetryAfters :
       /\ limited' = now + (IF a = 0 THEN HostRetryAfter ELSE a)
       /\ asked' = limited'
       /\ run' = [run EXCEPT ![h].pc = "settle", ![h].after = IF a = 0 THEN JobRetryAfter ELSE a]
  /\ UNCHANGED <<written, metadata, job, lock, overran, threw>> /\ UNCHANGED Others

\* The rest of the catch, and the finally.  increaseJobRetryCount() and
\* updateStatus(pending) are one step; JobQueue has both.
End(h) ==
  LET t == run[h].token
      e == run[h].error
  IN
  /\ run[h].live
  /\ run[h].pc = IF e = "TooManyRequestsHttpError" THEN "settle" ELSE "over"
  /\ \/ e = Null /\ Settle(t, e, "done", Null, Null)
     \/ Retryable(e) /\ Settle(t, e, "pending", Null, now + run[h].after)
     \/ IsA(e, "UserError") /\ Settle(t, e, "invalid", getUserErrorInvalidReason(e), Null)
     \/ e # Null /\ ~Retryable(e) /\ ~IsA(e, "UserError") /\ Settle(t, e, "failed", Null, Null)
  /\ run' = [run EXCEPT ![h] = Idle]
  /\ UNCHANGED <<limited, written, metadata, lock, overran, asked>> /\ UNCHANGED Others

Write(h) == UpdateToken(h) \/ DeleteMetadata(h) \/ InsertMetadata(h) \/ WriteFails(h)
Work(h) == TimeOut(h) \/ EndUnheard(h) \/ SaveHost(h) \/ End(h)
Handle(h) == ReadRow(h) \/ ReadUri(h) \/ CheckHost(h) \/ DeleteHost(h) \/ ReadFields(h) \/ Fetch(h) \/ ParseMetadata(h)

Next ==
  \/ \E h \in Handlers : Handle(h) \/ Write(h) \/ Work(h)
  \/ \E h \in Handlers, t \in Tokens : Start(h, t)
  \/ \E t \in Tokens : Request(t) \/ RollBack(t)
  \/ Tick \/ Kill

Spec == Init /\ [][Next]_vars

-----------------------------------------------------------------------------
(* Properties.                                                              *)

\* What the API shows of a token is from one run: its row and all its metadata
\* rows were written by the same one, from the same round of fetches, however
\* many handlers of the token have overlapped, failed or been killed
\* (pg-store.ts updateProcessedTokenWithMetadata()).
OneWritePerToken ==
  \A m \in metadata :
    /\ m.token \in tokens
    /\ m.run = written[m.token]
    /\ \A n \in metadata : n.token = m.token => n.attempt = m.attempt

\* A job is done only when the token has what its last run found, unless a
\* handler of the token has outlived its timeout (job.ts work()).
DoneIsWritten ==
  \A t \in tokens \ overran : job[t].status = "done" => written[t] = latest[t]

\* A token is called invalid only for an error of its own contract or metadata, and
\* the reason is that error: never for a 429, an error of the node or the job's own
\* timeout.  An answer of another status and a fetch that times out are such errors
\* (errors.ts getUserErrorInvalidReason(), job.ts work()).
InvalidSaysWhy ==
  \A t \in tokens : job[t].status = "invalid" => threw[t] = job[t].reason

\* A token loses its metadata without getting other only when it is rolled back, when
\* its contract has no URI, when all its documents have come in the round that is
\* written but give no row, or when it is an FT whose metadata cannot be fetched:
\* never to a rate limit, nor to documents that are still to come
\* (process-token-job.ts handleFt(), metadata-helpers.ts:122-138, 174-178).
MetadataOutlivesRateLimits ==
  [][\A t \in tokens' :
       (\E m \in metadata : m.token = t) /\ ~(\E m \in metadata' : m.token = t) =>
         \E h \in Handlers :
           /\ run[h].token = t /\ run[h].pc = "insert"
           /\ \/ ~run[h].uri
              \/ run[h].error # Null /\ ~Retryable(run[h].error)
              \/ run[h].todo = {} /\ [locale |-> "default", attempt |-> run[h].attempt] \in run[h].raw]_vars

\* env.ts: the time "that must elapse between a 429 'Too many requests' response
\* returned by a hostname and the next request that is sent to it": while it has
\* not elapsed since a 429 was saved, a job that asks finds the host.
SavedLimitHolds == asked > now => limited # Null
=============================================================================
