--------------------------- MODULE TokenJobProofs ---------------------------
(***************************************************************************)
(* The safety of TokenJob for every number of tokens, handlers and locales, *)
(* any number of runs and kills, and every set of errors.                   *)
(***************************************************************************)
EXTENDS TokenJob, TLAPS

Busy(h) == run[h].pc # "idle"

\* A handler that runs has a token and a number.
Active == \A h \in Handlers : Busy(h) => run[h].token \in Tokens /\ run[h].number \in 1..started

\* What a handler holds was fetched in its present round, and what it will insert is
\* known once that round is over.
OneRound(r) ==
  /\ \A b \in r.raw \cup r.bundles : b.attempt = r.attempt
  /\ r.bundles # {} => r.pc \in {"update", "delete", "insert"}
SameRound == \A h \in Handlers : OneRound(run[h])

\* Between its UPDATE and its COMMIT a handler holds the row's lock, and nobody
\* else does.
InWrite(h) == run[h].pc \in {"delete", "insert"}
LockOK ==
  /\ \A h \in Handlers : InWrite(h) => run[h].token \in tokens /\ lock[run[h].token] = h
  /\ \A t \in Tokens : lock[t] # Null => InWrite(lock[t]) /\ run[lock[t]].token = t

\* The DELETE has found all there is: the lock keeps others from adding to it.
OldFound ==
  \A h \in Handlers : run[h].pc = "insert" =>
    \A m \in metadata : m.token = run[h].token => m.run \in run[h].old

\* The only handler of a token that never overran is its last, and is waited for.
Current ==
  \A h \in Handlers : Busy(h) /\ run[h].token \notin overran =>
    run[h].live /\ run[h].number = latest[run[h].token]

\* It ends without an error only if it has written.
EndedWell(r) == r.pc = "over" /\ r.error = Null /\ r.token \in tokens
Ended ==
  \A h \in Handlers : EndedWell(run[h]) /\ run[h].token \notin overran =>
    written[run[h].token] = run[h].number

\* The default document has come in the handler's present round.
HasDefault(r) == [locale |-> "default", attempt |-> r.attempt] \in r.raw

\* Once the contract has a URI the default is fetched before anything is parsed, and
\* what is written without it is the FT's way out.
FallbackSound(r) ==
  /\ r.pc \in {"row", "uri"} => ~r.uri
  /\ r.pc \in {"fetch", "parse"} => r.uri
  /\ r.uri /\ r.pc \in {"host", "unlimit", "fields", "fetch"} => "default" \in r.todo \/ HasDefault(r)
  /\ r.pc = "parse" => r.todo = {} /\ HasDefault(r)
  /\ r.uri /\ r.pc \in {"update", "delete", "insert"} =>
       \/ r.todo = {} /\ HasDefault(r)
       \/ r.error # Null /\ ~Retryable(r.error)
Fallback == \A h \in Handlers : FallbackSound(run[h])

IInv ==
  /\ TypeOK
  /\ Active
  /\ SameRound
  /\ LockOK
  /\ OldFound
  /\ Current
  /\ Ended
  /\ Fallback
  /\ OneWritePerToken
  /\ DoneIsWritten
  /\ InvalidSaysWhy

-----------------------------------------------------------------------------
(* Errors.                                                                  *)

UserErrors == {e \in Errors : IsA(e, "UserError")}
Reasons == {ReasonCases[i] : i \in DOMAIN ReasonCases} \cup {"unknown", Null}

\* A user error is named by its own case: the subclass comes before the superclass.
LEMMA ReasonIsTheError ==
  ASSUME NEW e \in Errors, IsA(e, "UserError")
  PROVE  getUserErrorInvalidReason(e) = e /\ e \in Reasons
<1> DEFINE C == ReasonCases
<1>1. DOMAIN C = 1..9
  BY DEF ReasonCases
<1>2. \A i \in 1..9 : C[i] \in Errors
  BY DEF ReasonCases, Errors, Super
<1>3. \E k \in 1..9 : C[k] = e
  BY DEF ReasonCases, Errors, Super, IsA
<1>4. PICK k \in 1..9 : C[k] = e
  BY <1>3
<1>5. \A i \in 1..9 : IsA(e, C[i]) => k <= i
  BY <1>4 DEF ReasonCases, Errors, Super, IsA
<1>6. IsA(e, C[k])
  BY <1>4 DEF IsA
<1>7. k \in {i \in DOMAIN C : IsA(e, C[i])}
  BY <1>1, <1>6
<1>8. (CHOOSE i \in {j \in DOMAIN C : IsA(e, C[j])} :
         \A j \in {n \in DOMAIN C : IsA(e, C[n])} : i <= j) = k
  BY <1>1, <1>5, <1>7
<1> QED
  BY <1>1, <1>4, <1>7, <1>8 DEF getUserErrorInvalidReason, Reasons

-----------------------------------------------------------------------------
(* The steps of a handler outside the write.                                *)

\* A handler moves on without having written anything: its locals become r.
LEMMA QuietOK ==
  ASSUME IInv, NEW h \in Handlers, NEW r \in Handler,
         run' = [run EXCEPT ![h] = r],
         Busy(h), ~InWrite(h),
         r.pc \notin {"idle", "delete", "insert"},
         r.token = run[h].token, r.number = run[h].number, r.live = run[h].live,
         OneRound(r), FallbackSound(r), EndedWell(r) => EndedWell(run[h]),
         limited' \in Nat \cup {Null}, asked' \in Nat,
         UNCHANGED <<now, tokens, written, metadata, job, lock, started, latest, overran, threw>>
  PROVE  IInv'
<1> USE DEF IInv
<1>1. run' \in [Handlers -> Handler] /\ run'[h] = r /\ \A g \in Handlers \ {h} : run'[g] = run[g]
  BY DEF TypeOK
<1>2. TypeOK'
  BY <1>1 DEF TypeOK
<1>3. Active'
  BY <1>1 DEF Active, Busy
<1>4. SameRound'
  BY <1>1 DEF SameRound, OneRound
<1>5. LockOK'
  BY <1>1, TokenJobAssumption DEF LockOK, InWrite, TypeOK
<1>6. OldFound'
  BY <1>1 DEF OldFound, InWrite
<1>7. Current'
  BY <1>1 DEF Current, Busy
<1>8. Ended'
  BY <1>1 DEF Ended, EndedWell
<1>9. Fallback'
  BY <1>1 DEF Fallback, FallbackSound, HasDefault
<1>10. OneWritePerToken' /\ DoneIsWritten' /\ InvalidSaysWhy'
  BY DEF OneWritePerToken, DoneIsWritten, InvalidSaysWhy
<1> QED
  BY <1>2, <1>3, <1>4, <1>5, <1>6, <1>7, <1>8, <1>9, <1>10

\* What QuietOK asks of the new locals, when only the place changes.
LEMMA GotoOK ==
  ASSUME IInv, NEW h \in Handlers, NEW pc \in {"uri", "unlimit", "fields", "fetch", "update"},
         Goto(h, pc),
         run[h].pc \in {"row", "uri", "host", "unlimit"},
         pc = "uri" => run[h].pc = "row",
         pc = "unlimit" => run[h].pc = "host",
         pc = "fetch" => run[h].uri,
         pc = "update" => ~run[h].uri,
         limited' \in Nat \cup {Null},
         UNCHANGED <<written, metadata, job, lock, overran, threw, asked>>, UNCHANGED Others
  PROVE  IInv'
<1> DEFINE r == [run[h] EXCEPT !.pc = pc]
<1>1. run[h] \in Handler
  BY DEF IInv, TypeOK
<1>2. r \in Handler /\ run' = [run EXCEPT ![h] = r]
  BY <1>1 DEF Handler, PCs, Goto
<1>3. /\ r.pc = pc /\ r.token = run[h].token /\ r.number = run[h].number /\ r.live = run[h].live
      /\ r.raw = run[h].raw /\ r.attempt = run[h].attempt /\ r.uri = run[h].uri /\ r.error = run[h].error
      /\ r.todo = run[h].todo /\ r.bundles = run[h].bundles
  BY <1>1 DEF Handler
<1> HIDE DEF r
<1>4. OneRound(r)
  BY <1>3 DEF IInv, SameRound, OneRound
<1>5. FallbackSound(r)
  BY <1>3 DEF IInv, Fallback, FallbackSound, HasDefault
<1>6. ~EndedWell(r)
  BY <1>3 DEF EndedWell
<1>7. asked' \in Nat /\ Busy(h) /\ ~InWrite(h) /\ r.pc \notin {"idle", "delete", "insert"}
  BY <1>3 DEF IInv, TypeOK, Busy, InWrite
<1> QED
  BY <1>2, <1>3, <1>4, <1>5, <1>6, <1>7, QuietOK DEF Others

LEMMA IdleIsHandler == Idle \in Handler
<1>1. 0 \in 0..(MaxAttempts - 1)
  BY TokenJobAssumption
<1> QED
  BY <1>1, TokenJobAssumption DEF Idle, Handler, PCs

\* A handler that is left has kept its name and its error, and nothing else.
LEMMA LeaveIs ==
  ASSUME NEW h \in Handlers, NEW e \in Errors \cup {Null}, run[h] \in Handler, Leave(h, e)
  PROVE  \E r \in Handler :
           /\ run' = [run EXCEPT ![h] = r]
           /\ r.pc = "over" /\ r.token = run[h].token /\ r.number = run[h].number
           /\ r.live = run[h].live /\ r.error = e /\ r.raw = {} /\ r.bundles = {}
<1> DEFINE r == [Idle EXCEPT !.pc = "over", !.token = run[h].token, !.number = run[h].number,
                             !.live = run[h].live, !.error = e]
<1>1. r \in Handler
  BY IdleIsHandler DEF Handler, PCs
<1>2. Idle.raw = {} /\ Idle.bundles = {}
  BY DEF Idle
<1>3. /\ r.pc = "over" /\ r.token = run[h].token /\ r.number = run[h].number
      /\ r.live = run[h].live /\ r.error = e /\ r.raw = {} /\ r.bundles = {}
  BY <1>2, IdleIsHandler DEF Handler
<1>4. run' = [run EXCEPT ![h] = r]
  BY DEF Leave
<1> QED
  BY <1>1, <1>3, <1>4

\* A handler leaves without having written anything: by an error, or because there is
\* no token any more.
LEMMA LeaveOK ==
  ASSUME IInv, NEW h \in Handlers, NEW e \in Errors \cup {Null},
         Leave(h, e), e = Null => run[h].token \notin tokens,
         Busy(h), ~InWrite(h),
         UNCHANGED <<limited, written, metadata, job, lock, overran, threw, asked>>, UNCHANGED Others
  PROVE  IInv'
<1>1. run[h] \in Handler
  BY DEF IInv, TypeOK
<1>2. PICK r \in Handler :
        /\ run' = [run EXCEPT ![h] = r]
        /\ r.pc = "over" /\ r.token = run[h].token /\ r.number = run[h].number
        /\ r.live = run[h].live /\ r.error = e /\ r.raw = {} /\ r.bundles = {}
  BY <1>1, LeaveIs
<1>3. OneRound(r) /\ FallbackSound(r) /\ ~EndedWell(r)
  BY <1>2 DEF OneRound, FallbackSound, EndedWell
<1>4. asked' \in Nat /\ limited' \in Nat \cup {Null}
  BY DEF IInv, TypeOK
<1> QED
  BY <1>2, <1>3, <1>4, QuietOK DEF Others

\* Before its write, a handler that has a URI goes to fetch it.
LEMMA AfterUriOK ==
  ASSUME IInv, NEW h \in Handlers
  PROVE  /\ AfterUri(h) \in {"fields", "fetch", "update"}
         /\ AfterUri(h) = "update" => ~run[h].uri
         /\ AfterUri(h) = "fetch" => run[h].uri
  BY DEF AfterUri

LEMMA ReadRowOK ==
  ASSUME IInv, NEW h \in Handlers, ReadRow(h)
  PROVE  IInv'
<1>1. Busy(h) /\ ~InWrite(h) /\ run[h].pc = "row" /\ ~run[h].uri
  BY DEF ReadRow, Busy, InWrite, IInv, Fallback, FallbackSound
<1>2. limited' \in Nat \cup {Null}
  BY DEF ReadRow, IInv, TypeOK
<1>3. CASE run[h].token \in tokens /\ Goto(h, "uri")
  BY <1>1, <1>2, <1>3, GotoOK DEF ReadRow
<1>4. CASE run[h].token \notin tokens /\ Leave(h, Null)
  BY <1>1, <1>4, LeaveOK DEF ReadRow
<1> QED
  BY <1>3, <1>4 DEF ReadRow

LEMMA ReadUriOK ==
  ASSUME IInv, NEW h \in Handlers, ReadUri(h)
  PROVE  IInv'
<1>1. Busy(h) /\ ~InWrite(h) /\ run[h].pc = "uri" /\ ~run[h].uri
  BY DEF ReadUri, Busy, InWrite, IInv, Fallback, FallbackSound
<1>2. limited' \in Nat \cup {Null} /\ asked' \in Nat
  BY DEF ReadUri, IInv, TypeOK
<1>3. ASSUME NEW e \in (NodeErrors \cup {"MetadataParseError"}) \cap Thrown, Leave(h, e)
      PROVE  IInv'
  <2>1. e \in Errors /\ e # Null
    BY <1>3, TokenJobAssumption
  <2> QED
    BY <1>1, <1>3, <2>1, LeaveOK DEF ReadUri
<1>4. CASE run' = [run EXCEPT ![h].pc = "host", ![h].uri = TRUE, ![h].todo = {"default"}]
  <2> DEFINE r == [run[h] EXCEPT !.pc = "host", !.uri = TRUE, !.todo = {"default"}]
  <2>1. run[h] \in Handler
    BY DEF IInv, TypeOK
  <2>2. r \in Handler /\ run' = [run EXCEPT ![h] = r]
    BY <1>4, <2>1 DEF Handler, PCs
  <2>3. /\ r.pc = "host" /\ r.token = run[h].token /\ r.number = run[h].number
        /\ r.live = run[h].live /\ r.raw = run[h].raw /\ r.attempt = run[h].attempt
        /\ r.bundles = run[h].bundles /\ r.todo = {"default"}
    BY <2>1 DEF Handler
  <2> HIDE DEF r
  <2>4. OneRound(r) /\ FallbackSound(r) /\ ~EndedWell(r)
    BY <1>1, <2>3 DEF IInv, SameRound, OneRound, FallbackSound, EndedWell
  <2>5. r.pc \notin {"idle", "delete", "insert"}
    BY <2>3
  <2> QED
    BY <1>1, <1>2, <2>2, <2>3, <2>4, <2>5, QuietOK DEF ReadUri, Others
<1>5. CASE Goto(h, AfterUri(h))
  BY <1>1, <1>2, <1>5, AfterUriOK, GotoOK DEF ReadUri
<1> QED
  BY <1>3, <1>4, <1>5 DEF ReadUri

LEMMA CheckHostOK ==
  ASSUME IInv, NEW h \in Handlers, CheckHost(h)
  PROVE  IInv'
<1>1. Busy(h) /\ ~InWrite(h) /\ run[h].pc = "host"
  BY DEF CheckHost, Busy, InWrite
<1>2. limited' \in Nat \cup {Null}
  BY DEF CheckHost, IInv, TypeOK
<1>3. CASE Goto(h, AfterUri(h))
  BY <1>1, <1>2, <1>3, AfterUriOK, GotoOK DEF CheckHost
<1>4. CASE Goto(h, "unlimit")
  BY <1>1, <1>2, <1>4, GotoOK DEF CheckHost
<1>5. CASE Leave(h, "RetryableJobError")
  <2>1. "RetryableJobError" \in Errors /\ "RetryableJobError" # Null
    BY TokenJobAssumption DEF Errors, Super
  <2> QED
    BY <1>1, <1>5, <2>1, LeaveOK DEF CheckHost
<1> QED
  BY <1>3, <1>4, <1>5 DEF CheckHost

LEMMA DeleteHostOK ==
  ASSUME IInv, NEW h \in Handlers, DeleteHost(h)
  PROVE  IInv'
<1>1. Busy(h) /\ ~InWrite(h) /\ run[h].pc = "unlimit"
  BY DEF DeleteHost, Busy, InWrite
<1> QED
  BY <1>1, AfterUriOK, GotoOK DEF DeleteHost

LEMMA ReadFieldsOK ==
  ASSUME IInv, NEW h \in Handlers, ReadFields(h)
  PROVE  IInv'
<1>1. Busy(h) /\ ~InWrite(h) /\ run[h].pc = "fields"
  BY DEF ReadFields, Busy, InWrite
<1>2. limited' \in Nat \cup {Null} /\ asked' \in Nat
  BY DEF ReadFields, IInv, TypeOK
<1>3. ASSUME NEW e \in NodeErrors \cap Thrown, Leave(h, e)
      PROVE  IInv'
  <2>1. e \in Errors /\ e # Null
    BY <1>3, TokenJobAssumption
  <2> QED
    BY <1>1, <1>3, <2>1, LeaveOK DEF ReadFields
<1>4. ASSUME NEW data \in BOOLEAN,
             run' = [run EXCEPT ![h].data = data,
                                ![h].pc = IF run[h].uri THEN "fetch" ELSE "update"]
      PROVE  IInv'
  <2> DEFINE r == [run[h] EXCEPT !.data = data, !.pc = IF run[h].uri THEN "fetch" ELSE "update"]
  <2>1. run[h] \in Handler
    BY DEF IInv, TypeOK
  <2>2. r \in Handler /\ run' = [run EXCEPT ![h] = r]
    BY <1>4, <2>1 DEF Handler, PCs
  <2>3. /\ r.pc = IF run[h].uri THEN "fetch" ELSE "update"
        /\ r.token = run[h].token /\ r.number = run[h].number /\ r.uri = run[h].uri
        /\ r.live = run[h].live /\ r.raw = run[h].raw /\ r.attempt = run[h].attempt
        /\ r.todo = run[h].todo /\ r.bundles = run[h].bundles
    BY <2>1 DEF Handler
  <2> HIDE DEF r
  <2>4. OneRound(r) /\ ~EndedWell(r)
    BY <1>1, <2>3 DEF IInv, SameRound, OneRound, EndedWell
  <2>5. FallbackSound(r)
    BY <1>1, <2>3 DEF IInv, Fallback, FallbackSound, HasDefault
  <2> QED
    BY <1>1, <1>2, <2>2, <2>3, <2>4, <2>5, QuietOK DEF ReadFields, Others
<1> QED
  BY <1>3, <1>4 DEF ReadFields

\* The catch of a round, of its documents or of their images.
LEMMA FetchFailsOK ==
  ASSUME IInv, NEW h \in Handlers, NEW e \in Errors,
         FetchFails(h, e), run[h].pc \in {"fetch", "parse"},
         UNCHANGED <<limited, written, metadata, job, lock, overran, threw, asked>>, UNCHANGED Others
  PROVE  IInv'
<1>1. run[h] \in Handler /\ run[h].uri /\ run[h].bundles = {}
  BY DEF IInv, TypeOK, Fallback, FallbackSound, SameRound, OneRound
<1>2. limited' \in Nat \cup {Null} /\ asked' \in Nat /\ Busy(h) /\ ~InWrite(h)
  BY DEF IInv, TypeOK, Busy, InWrite
<1>3. CASE ~Final(h, e) /\ TryAgain(h)
  <2> DEFINE r == [run[h] EXCEPT !.pc = "fetch", !.todo = {"default"}, !.attempt = @ + 1, !.raw = {}]
  <2>1. run[h].attempt + 1 \in 0..(MaxAttempts - 1)
    BY <1>1, <1>3, TokenJobAssumption DEF Handler, Final
  <2>2. r \in Handler
    BY <1>1, <2>1 DEF Handler, PCs
  <2>3. run' = [run EXCEPT ![h] = r]
    BY <1>1, <1>3 DEF TryAgain
  <2>4. /\ r.pc = "fetch" /\ r.token = run[h].token /\ r.number = run[h].number
        /\ r.live = run[h].live /\ r.raw = {} /\ r.bundles = {} /\ r.uri /\ r.todo = {"default"}
    BY <1>1 DEF Handler
  <2> HIDE DEF r
  <2>5. OneRound(r) /\ FallbackSound(r) /\ ~EndedWell(r)
    BY <2>4 DEF OneRound, FallbackSound, EndedWell
  <2> QED
    BY <1>2, <2>2, <2>3, <2>4, <2>5, QuietOK DEF Others
<1>4. CASE FtFallsBack(h, e) /\ run' = [run EXCEPT ![h].pc = "update", ![h].raw = {}, ![h].error = e]
  <2> DEFINE r == [run[h] EXCEPT !.pc = "update", !.raw = {}, !.error = e]
  <2>1. r \in Handler
    BY <1>1 DEF Handler, PCs
  <2>2. run' = [run EXCEPT ![h] = r]
    BY <1>4
  <2>3. /\ r.pc = "update" /\ r.token = run[h].token /\ r.number = run[h].number
        /\ r.live = run[h].live /\ r.raw = {} /\ r.bundles = {} /\ r.error = e
    BY <1>1 DEF Handler
  <2> HIDE DEF r
  <2>4. OneRound(r) /\ FallbackSound(r) /\ ~EndedWell(r)
    BY <1>4, <2>3, TokenJobAssumption DEF OneRound, FallbackSound, EndedWell, FtFallsBack
  <2> QED
    BY <1>2, <2>1, <2>2, <2>3, <2>4, QuietOK DEF Others
<1>5. CASE Leave(h, e)
  <2>1. e # Null
    BY TokenJobAssumption
  <2> QED
    BY <1>2, <1>5, <2>1, LeaveOK
<1> QED
  BY <1>3, <1>4, <1>5 DEF FetchFails

LEMMA FetchOK ==
  ASSUME IInv, NEW h \in Handlers, Fetch(h)
  PROVE  IInv'
<1>1. /\ Busy(h) /\ ~InWrite(h) /\ run[h] \in Handler /\ run[h].pc = "fetch"
      /\ run[h].uri /\ run[h].bundles = {}
  BY DEF Fetch, Busy, InWrite, IInv, TypeOK, Fallback, FallbackSound, SameRound, OneRound
<1>2. limited' \in Nat \cup {Null} /\ asked' \in Nat
  BY DEF Fetch, IInv, TypeOK
<1>3. ASSUME NEW e \in FetchErrors \cap Thrown, FetchFails(h, e)
      PROVE  IInv'
  BY <1>1, <1>3, FetchFailsOK, TokenJobAssumption DEF Fetch
<1>4. ASSUME NEW l \in run[h].todo, NEW declared \in SUBSET Locales,
             LET todo == (run[h].todo \cup declared) \ {l} IN
             run' = [run EXCEPT
               ![h].raw = @ \cup {[locale |-> l, attempt |-> run[h].attempt]},
               ![h].todo = todo,
               ![h].pc = IF todo # {} THEN "fetch" ELSE "parse"]
      PROVE  IInv'
  <2> DEFINE todo == (run[h].todo \cup declared) \ {l}
             new == [locale |-> l, attempt |-> run[h].attempt]
             r == [run[h] EXCEPT !.raw = @ \cup {new}, !.todo = todo,
                                 !.pc = IF todo # {} THEN "fetch" ELSE "parse"]
  <2>1. new \in Fetched /\ todo \in SUBSET (Locales \cup {"default"})
    BY <1>1, TokenJobAssumption DEF Handler, Fetched
  <2>2. r \in Handler
    <3> HIDE DEF new, todo
    <3> QED
      BY <1>1, <2>1 DEF Handler, PCs
  <2>3. run' = [run EXCEPT ![h] = r]
    BY <1>4
  <2>4. /\ r.pc = IF todo # {} THEN "fetch" ELSE "parse"
        /\ r.token = run[h].token /\ r.number = run[h].number /\ r.live = run[h].live
        /\ r.uri = run[h].uri /\ r.attempt = run[h].attempt /\ r.raw = run[h].raw \cup {new}
        /\ r.todo = todo /\ r.bundles = run[h].bundles
    BY <1>1 DEF Handler
  <2>5. new.attempt = run[h].attempt /\ (l = "default" => new = [locale |-> "default", attempt |-> r.attempt])
    BY <2>4
  <2>6. "default" \in todo \/ l = "default" \/ HasDefault(run[h])
    BY <1>1 DEF IInv, Fallback, FallbackSound
  <2> HIDE DEF r, new, todo
  <2>7. OneRound(r)
    BY <1>1, <2>4, <2>5 DEF IInv, SameRound, OneRound
  <2>8. "default" \in r.todo \/ HasDefault(r)
    BY <2>4, <2>5, <2>6 DEF HasDefault
  <2>9. FallbackSound(r) /\ ~EndedWell(r) /\ r.pc \notin {"idle", "delete", "insert"}
    BY <1>1, <2>4, <2>8 DEF FallbackSound, EndedWell
  <2> QED
    BY <1>1, <1>2, <2>2, <2>3, <2>4, <2>7, <2>9, QuietOK DEF Fetch, Others
<1> QED
  BY <1>3, <1>4 DEF Fetch

LEMMA ParseMetadataOK ==
  ASSUME IInv, NEW h \in Handlers, ParseMetadata(h)
  PROVE  IInv'
<1>1. Busy(h) /\ ~InWrite(h) /\ run[h] \in Handler /\ run[h].pc = "parse"
  BY DEF ParseMetadata, Busy, InWrite, IInv, TypeOK
<1>2. limited' \in Nat \cup {Null} /\ asked' \in Nat
  BY DEF ParseMetadata, IInv, TypeOK
<1>3. ASSUME NEW named \in SUBSET run[h].raw,
             run' = [run EXCEPT ![h].bundles = named, ![h].pc = "update"]
      PROVE  IInv'
  <2> DEFINE r == [run[h] EXCEPT !.bundles = named, !.pc = "update"]
  <2>1. named \in SUBSET Fetched
    BY <1>1 DEF Handler
  <2>2. r \in Handler
    BY <1>1, <2>1 DEF Handler, PCs
  <2>3. run' = [run EXCEPT ![h] = r]
    BY <1>3
  <2>4. /\ r.pc = "update" /\ r.token = run[h].token /\ r.number = run[h].number
        /\ r.live = run[h].live /\ r.attempt = run[h].attempt /\ r.raw = run[h].raw
        /\ r.todo = run[h].todo /\ r.bundles = named
    BY <1>1 DEF Handler
  <2> HIDE DEF r
  <2>5. OneRound(r)
    BY <2>4 DEF IInv, SameRound, OneRound
  <2>6. FallbackSound(run[h]) /\ HasDefault(r) /\ r.todo = {}
    BY <1>1, <2>4 DEF IInv, Fallback, FallbackSound, HasDefault
  <2>7. FallbackSound(r) /\ ~EndedWell(r)
    BY <2>4, <2>6 DEF FallbackSound, EndedWell
  <2> QED
    BY <1>1, <1>2, <2>2, <2>3, <2>4, <2>5, <2>7, QuietOK DEF ParseMetadata, Others
<1>4. ASSUME NEW e \in ImageErrors \cap Thrown, FetchFails(h, e)
      PROVE  IInv'
  BY <1>1, <1>4, FetchFailsOK, TokenJobAssumption DEF ParseMetadata
<1> QED
  BY <1>3, <1>4 DEF ParseMetadata

-----------------------------------------------------------------------------
(* The write.                                                               *)

LEMMA UpdateTokenOK ==
  ASSUME IInv, NEW h \in Handlers, UpdateToken(h)
  PROVE  IInv'
<1> DEFINE t == run[h].token
<1>1. Busy(h) /\ ~InWrite(h) /\ run[h] \in Handler /\ t \in Tokens
  BY DEF UpdateToken, Busy, InWrite, IInv, TypeOK, Active
<1>2. CASE t \notin tokens /\ UNCHANGED lock /\ Leave(h, Null)
  BY <1>1, <1>2, LeaveOK DEF UpdateToken
<1>3. CASE t \in tokens /\ TakesLock(t, h) /\ Goto(h, "delete")
  <2>1. /\ run' \in [Handlers -> Handler]
        /\ \A g \in Handlers \ {h} : run'[g] = run[g]
        /\ run'[h].pc = "delete"
        /\ run'[h].token = t /\ run'[h].number = run[h].number /\ run'[h].live = run[h].live
        /\ run'[h].raw = run[h].raw /\ run'[h].attempt = run[h].attempt
        /\ run'[h].uri = run[h].uri /\ run'[h].error = run[h].error
        /\ run'[h].todo = run[h].todo /\ run'[h].bundles = run[h].bundles
    BY <1>1, <1>3 DEF Goto, Handler, PCs, IInv, TypeOK
  <2>2. /\ lock' \in [Tokens -> Handlers \cup {Null}] /\ lock[t] = Null /\ lock'[t] = h
        /\ \A u \in Tokens \ {t} : lock'[u] = lock[u]
    BY <1>1, <1>3 DEF TakesLock, IInv, TypeOK
  <2>3. run[h].pc = "update"
    BY DEF UpdateToken
  <2> USE DEF UpdateToken, Others, IInv
  <2>4. TypeOK'
    BY <2>1, <2>2 DEF TypeOK
  <2>5. Active' /\ Current'
    BY <2>1, <1>1 DEF Active, Busy, Current
  <2>6. SameRound'
    BY <2>1, <2>3 DEF SameRound, OneRound
  <2>7. LockOK'
    <3>1. ASSUME NEW g \in Handlers, InWrite(g)'
          PROVE  run'[g].token \in tokens' /\ lock'[run'[g].token] = g
      <4>1. CASE g = h
        BY <1>3, <2>1, <2>2, <4>1
      <4>2. CASE g # h
        <5>1. run'[g] = run[g] /\ run[g].token \in tokens /\ lock[run[g].token] = g
          BY <2>1, <3>1, <4>2 DEF LockOK, InWrite
        <5> QED
          BY <2>2, <5>1, TokenJobAssumption DEF TypeOK
      <4> QED
        BY <4>1, <4>2
    <3>2. ASSUME NEW u \in Tokens, NEW g \in Handlers, lock'[u] = g
          PROVE  InWrite(g)' /\ run'[g].token = u
      <4>1. CASE u = t
        BY <2>1, <2>2, <3>2, <4>1 DEF InWrite
      <4>2. CASE u # t
        <5>1. InWrite(g) /\ run[g].token = u
          BY <2>2, <3>2, <4>2, TokenJobAssumption DEF LockOK
        <5> QED
          BY <1>1, <2>1, <5>1 DEF InWrite
      <4> QED
        BY <4>1, <4>2
    <3> QED
      BY <2>2, <3>1, <3>2 DEF LockOK, InWrite
  <2>8. OldFound' /\ Ended'
    BY <2>1 DEF OldFound, Ended, EndedWell
  <2>9. Fallback'
    BY <2>1, <2>3 DEF Fallback, FallbackSound, HasDefault
  <2>10. OneWritePerToken' /\ DoneIsWritten' /\ InvalidSaysWhy'
    BY DEF OneWritePerToken, DoneIsWritten, InvalidSaysWhy
  <2> QED
    BY <2>4, <2>5, <2>6, <2>7, <2>8, <2>9, <2>10
<1> QED
  BY <1>2, <1>3 DEF UpdateToken

LEMMA DeleteMetadataOK ==
  ASSUME IInv, NEW h \in Handlers, DeleteMetadata(h)
  PROVE  IInv'
<1> DEFINE found == {m.run : m \in {n \in metadata : n.token = run[h].token}}
<1>1. run[h] \in Handler /\ run[h].pc = "delete"
  BY DEF DeleteMetadata, IInv, TypeOK
<1>2. found \in SUBSET Nat
  BY DEF IInv, TypeOK
<1>3. run' = [run EXCEPT ![h].pc = "insert", ![h].old = found]
  BY DEF DeleteMetadata
<1>4. /\ run' \in [Handlers -> Handler]
      /\ \A g \in Handlers \ {h} : run'[g] = run[g]
      /\ run'[h].pc = "insert" /\ run'[h].old = found
      /\ run'[h].token = run[h].token /\ run'[h].number = run[h].number
      /\ run'[h].live = run[h].live
      /\ run'[h].raw = run[h].raw /\ run'[h].attempt = run[h].attempt
      /\ run'[h].uri = run[h].uri /\ run'[h].error = run[h].error
      /\ run'[h].todo = run[h].todo /\ run'[h].bundles = run[h].bundles
  <2> HIDE DEF found
  <2> QED
    BY <1>1, <1>2, <1>3 DEF Handler, PCs, IInv, TypeOK
<1>5. \A m \in metadata : m.token = run[h].token => m.run \in found
  OBVIOUS
<1> HIDE DEF found
<1> USE DEF DeleteMetadata, Others, IInv
<1>6. TypeOK'
  BY <1>4 DEF TypeOK
<1>7. Active' /\ Current'
  BY <1>1, <1>4 DEF Active, Busy, Current
<1>8. SameRound'
  BY <1>1, <1>4 DEF SameRound, OneRound
<1>9. LockOK'
  BY <1>1, <1>4, TokenJobAssumption DEF LockOK, InWrite, TypeOK
<1>10. OldFound'
  BY <1>4, <1>5 DEF OldFound
<1>11. Ended'
  BY <1>4 DEF Ended, EndedWell
<1>12. Fallback'
  BY <1>1, <1>4 DEF Fallback, FallbackSound, HasDefault
<1>13. OneWritePerToken' /\ DoneIsWritten' /\ InvalidSaysWhy'
  BY DEF OneWritePerToken, DoneIsWritten, InvalidSaysWhy
<1> QED
  BY <1>6, <1>7, <1>8, <1>9, <1>10, <1>11, <1>12, <1>13

LEMMA InsertMetadataOK ==
  ASSUME IInv, NEW h \in Handlers, InsertMetadata(h)
  PROVE  IInv'
<1> DEFINE t == run[h].token
           bundles == run[h].bundles
           kept == {m \in metadata : ~(m.token = t /\ m.run \in run[h].old)}
           new == {[token |-> t, run |-> run[h].number, locale |-> b.locale,
                    attempt |-> b.attempt] : b \in bundles}
<1>1. /\ run[h] \in Handler /\ run[h].pc = "insert" /\ Busy(h) /\ InWrite(h)
      /\ t \in Tokens /\ t \in tokens /\ lock[t] = h
      /\ run[h].number \in 1..started
  BY DEF InsertMetadata, IInv, TypeOK, Active, Busy, InWrite, LockOK
<1>2. metadata' = kept \cup new /\ written' = [written EXCEPT ![t] = run[h].number]
  BY DEF InsertMetadata
<1>3. \A m \in kept : m \in metadata /\ m.token # t
  BY <1>1 DEF IInv, OldFound
<1>4. \A m \in metadata : m.token # t => m \in kept
  OBVIOUS
<1>5. \A m \in new : m.token = t /\ m.run = run[h].number /\ m.attempt = run[h].attempt
  BY DEF IInv, SameRound, OneRound
<1>6. new \subseteq [token : Tokens, run : 1..MaxRuns, locale : Locales \cup {"default"},
                     attempt : 0..(MaxAttempts - 1)]
  <2>1. bundles \subseteq Fetched /\ OneRound(run[h])
    BY <1>1 DEF Handler, IInv, SameRound
  <2>2. \A b \in bundles : b \in Fetched /\ b.attempt = run[h].attempt
    BY <2>1 DEF OneRound
  <2>3. run[h].number \in 1..MaxRuns
    BY <1>1, TokenJobAssumption DEF IInv, TypeOK
  <2>4. run[h].attempt \in 0..(MaxAttempts - 1)
    BY <1>1 DEF Handler
  <2> QED
    BY <1>1, <2>2, <2>3, <2>4 DEF Fetched
<1>7. /\ run' \in [Handlers -> Handler]
      /\ \A g \in Handlers \ {h} : run'[g] = run[g]
      /\ run'[h].pc = "over" /\ run'[h].error = Null
      /\ run'[h].token = t /\ run'[h].number = run[h].number
      /\ run'[h].live = run[h].live
      /\ run'[h].raw = {} /\ run'[h].bundles = {}
  <2>1. Leave(h, Null)
    BY DEF InsertMetadata
  <2>2. PICK r \in Handler :
          /\ run' = [run EXCEPT ![h] = r]
          /\ r.pc = "over" /\ r.token = run[h].token /\ r.number = run[h].number
          /\ r.live = run[h].live /\ r.error = Null /\ r.raw = {} /\ r.bundles = {}
    BY <1>1, <2>1, LeaveIs
  <2>3. run \in [Handlers -> Handler]
    BY DEF IInv, TypeOK
  <2> QED
    BY <2>2, <2>3
<1>8. /\ lock' \in [Tokens -> Handlers \cup {Null}] /\ lock'[t] = Null
      /\ \A u \in Tokens \ {t} : lock'[u] = lock[u]
  BY <1>1 DEF InsertMetadata, IInv, TypeOK
<1>9. /\ written' \in [Tokens -> 0..MaxRuns] /\ written'[t] = run[h].number
      /\ \A u \in Tokens \ {t} : written'[u] = written[u]
  BY <1>1, <1>2, TokenJobAssumption DEF IInv, TypeOK
<1>10. UNCHANGED <<now, limited, tokens, job, started, latest, overran, threw, asked>>
  BY DEF InsertMetadata, Others
<1> HIDE DEF kept, new
<1>11. metadata' \subseteq [token : Tokens, run : 1..MaxRuns, locale : Locales \cup {"default"},
                            attempt : 0..(MaxAttempts - 1)]
  BY <1>2, <1>3, <1>6 DEF IInv, TypeOK
<1> USE DEF IInv
<1>12. TypeOK'
  BY <1>7, <1>8, <1>9, <1>10, <1>11 DEF TypeOK
<1>13. Active' /\ Current'
  BY <1>1, <1>7, <1>10 DEF Active, Busy, Current
<1>14. SameRound'
  BY <1>7 DEF SameRound, OneRound
<1>15. LockOK'
  <2>1. ASSUME NEW g \in Handlers, InWrite(g)'
        PROVE  run'[g].token \in tokens' /\ lock'[run'[g].token] = g
    <3>1. g # h /\ run'[g] = run[g] /\ run[g].token \in tokens /\ lock[run[g].token] = g
      BY <1>7, <2>1 DEF LockOK, InWrite
    <3> QED
      BY <1>1, <1>8, <1>10, <3>1 DEF TypeOK
  <2>2. ASSUME NEW u \in Tokens, NEW g \in Handlers, lock'[u] = g
        PROVE  InWrite(g)' /\ run'[g].token = u
    <3>1. u # t /\ lock[u] = g
      BY <1>8, <2>2, TokenJobAssumption
    <3>2. InWrite(g) /\ run[g].token = u
      BY <3>1, TokenJobAssumption DEF LockOK
    <3>3. g # h
      BY <1>1, <3>1, <3>2
    <3> QED
      BY <1>7, <3>2, <3>3 DEF InWrite
  <2> QED
    BY <1>8, <2>1, <2>2 DEF LockOK, InWrite
<1>16. OldFound'
  <2> SUFFICES ASSUME NEW g \in Handlers, run'[g].pc = "insert",
                      NEW m \in metadata', m.token = run'[g].token
               PROVE  m.run \in run'[g].old
    BY DEF OldFound
  <2>1. g # h /\ run'[g] = run[g] /\ InWrite(g)
    BY <1>7 DEF InWrite
  <2>2. run[g].token # t
    BY <1>1, <2>1 DEF LockOK
  <2> QED
    BY <1>2, <1>3, <1>5, <2>1, <2>2 DEF OldFound
<1>17. Ended'
  BY <1>1, <1>7, <1>9, <1>10 DEF Ended, EndedWell, Current, Busy, Active
<1>18. Fallback'
  BY <1>7 DEF Fallback, FallbackSound, HasDefault
<1>19. OneWritePerToken'
  BY <1>1, <1>2, <1>3, <1>5, <1>9, <1>10, <1>11 DEF OneWritePerToken
<1>20. DoneIsWritten'
  BY <1>1, <1>9, <1>10 DEF DoneIsWritten, Current, TypeOK
<1>21. InvalidSaysWhy'
  BY <1>10 DEF InvalidSaysWhy
<1> QED
  BY <1>12, <1>13, <1>14, <1>15, <1>16, <1>17, <1>18, <1>19, <1>20, <1>21

LEMMA WriteFailsOK ==
  ASSUME IInv, NEW h \in Handlers, WriteFails(h)
  PROVE  IInv'
<1>1. run[h] \in Handler /\ Busy(h) /\ run[h].pc \in {"update", "delete", "insert"}
  BY DEF WriteFails, Busy, IInv, TypeOK
<1>2. /\ run' \in [Handlers -> Handler]
      /\ \A g \in Handlers \ {h} : run'[g] = run[g]
      /\ run'[h].pc = "over" /\ run'[h].error = "OtherError"
      /\ run'[h].token = run[h].token /\ run'[h].number = run[h].number
      /\ run'[h].live = run[h].live
      /\ run'[h].raw = {} /\ run'[h].bundles = {}
  <2>1. "OtherError" \in Errors /\ Leave(h, "OtherError") /\ run \in [Handlers -> Handler]
    BY DEF WriteFails, Errors, Super, IInv, TypeOK
  <2>2. PICK r \in Handler :
          /\ run' = [run EXCEPT ![h] = r]
          /\ r.pc = "over" /\ r.token = run[h].token /\ r.number = run[h].number
          /\ r.live = run[h].live /\ r.error = "OtherError" /\ r.raw = {} /\ r.bundles = {}
    BY <1>1, <2>1, LeaveIs
  <2> QED
    BY <2>1, <2>2
<1>3. /\ lock' \in [Tokens -> Handlers \cup {Null}]
      /\ \A u \in Tokens : lock'[u] = IF lock[u] = h THEN Null ELSE lock[u]
  BY DEF WriteFails, IInv, TypeOK
<1>4. "OtherError" # Null
  BY TokenJobAssumption DEF Errors, Super
<1> USE DEF WriteFails, Others, IInv
<1>5. TypeOK'
  BY <1>2, <1>3 DEF TypeOK
<1>6. Active' /\ Current'
  BY <1>1, <1>2 DEF Active, Busy, Current
<1>7. SameRound'
  BY <1>2 DEF SameRound, OneRound
<1>8. LockOK'
  <2>1. ASSUME NEW g \in Handlers, InWrite(g)'
        PROVE  run'[g].token \in tokens' /\ lock'[run'[g].token] = g
    <3>1. g # h /\ run'[g] = run[g] /\ run[g].token \in tokens /\ lock[run[g].token] = g
      BY <1>2, <2>1 DEF LockOK, InWrite
    <3> QED
      BY <1>3, <3>1 DEF TypeOK
  <2>2. ASSUME NEW u \in Tokens, NEW g \in Handlers, lock'[u] = g
        PROVE  InWrite(g)' /\ run'[g].token = u
    <3>1. g # h /\ lock[u] = g
      BY <1>3, <2>2, TokenJobAssumption
    <3>2. InWrite(g) /\ run[g].token = u
      BY <3>1, TokenJobAssumption DEF LockOK
    <3> QED
      BY <1>2, <3>1, <3>2 DEF InWrite
  <2> QED
    BY <1>3, <2>1, <2>2 DEF LockOK, InWrite
<1>9. OldFound'
  BY <1>2 DEF OldFound
<1>10. Ended'
  BY <1>2, <1>4 DEF Ended, EndedWell
<1>11. Fallback'
  BY <1>2 DEF Fallback, FallbackSound, HasDefault
<1>12. OneWritePerToken' /\ DoneIsWritten' /\ InvalidSaysWhy'
  BY DEF OneWritePerToken, DoneIsWritten, InvalidSaysWhy
<1> QED
  BY <1>5, <1>6, <1>7, <1>8, <1>9, <1>10, <1>11, <1>12

-----------------------------------------------------------------------------
(* Job.work().                                                              *)

\* A handler is done with: its slot is free, the job's row and history are what
\* the properties say.
LEMMA FreeOK ==
  ASSUME IInv, NEW h \in Handlers, ~InWrite(h),
         run' = [run EXCEPT ![h] = Idle],
         job' \in [Tokens -> [status : Statuses, reason : Reasons, retry_after : Nat \cup {Null}]],
         threw' \in [Tokens -> Errors \cup {Null}],
         DoneIsWritten', InvalidSaysWhy',
         UNCHANGED <<limited, written, metadata, lock, overran, asked>>, UNCHANGED Others
  PROVE  IInv'
<1>1. /\ run' \in [Handlers -> Handler] /\ run'[h] = Idle
      /\ \A g \in Handlers \ {h} : run'[g] = run[g]
  BY IdleIsHandler DEF IInv, TypeOK
<1>2. Idle.pc = "idle" /\ Idle.raw = {} /\ Idle.bundles = {}
  BY DEF Idle
<1> USE DEF Others, IInv
<1>3. TypeOK'
  BY <1>1 DEF TypeOK, Reasons
<1>4. Active' /\ Current'
  BY <1>1, <1>2 DEF Active, Busy, Current
<1>5. SameRound'
  BY <1>1, <1>2 DEF SameRound, OneRound
<1>6. LockOK'
  BY <1>1, <1>2, TokenJobAssumption DEF LockOK, InWrite, TypeOK
<1>7. OldFound' /\ Ended'
  BY <1>1, <1>2 DEF OldFound, Ended, EndedWell
<1>8. Fallback'
  BY <1>1, <1>2 DEF Fallback, FallbackSound, HasDefault
<1>9. OneWritePerToken'
  BY DEF OneWritePerToken
<1> QED
  BY <1>3, <1>4, <1>5, <1>6, <1>7, <1>8, <1>9

\* What a job's row and history become when it settles.
LEMMA SettleOK ==
  ASSUME IInv, NEW t \in Tokens, NEW e \in Errors \cup {Null}, NEW status \in Statuses,
         NEW reason \in Reasons, NEW after \in Nat \cup {Null},
         Settle(t, e, status, reason, after),
         status = "invalid" => reason = e,
         status = "done" => t \notin tokens \/ t \in overran' \/ written[t] = latest[t],
         overran \subseteq overran',
         UNCHANGED <<tokens, written, latest>>
  PROVE  /\ job' \in [Tokens -> [status : Statuses, reason : Reasons, retry_after : Nat \cup {Null}]]
         /\ threw' \in [Tokens -> Errors \cup {Null}]
         /\ DoneIsWritten' /\ InvalidSaysWhy'
<1>1. job \in [Tokens -> [status : Statuses, reason : Reasons, retry_after : Nat \cup {Null}]]
      /\ threw \in [Tokens -> Errors \cup {Null}] /\ tokens \subseteq Tokens
  BY DEF IInv, TypeOK, Reasons
<1>2. job' \in [Tokens -> [status : Statuses, reason : Reasons, retry_after : Nat \cup {Null}]]
      /\ threw' \in [Tokens -> Errors \cup {Null}]
  BY <1>1 DEF Settle
<1>3. threw'[t] = e /\ \A u \in Tokens \ {t} : threw'[u] = threw[u] /\ job'[u] = job[u]
  BY <1>1 DEF Settle
<1>4. t \in tokens => job'[t].status = status /\ job'[t].reason = reason
  BY <1>1 DEF Settle
<1>5. DoneIsWritten'
  BY <1>1, <1>3, <1>4 DEF IInv, DoneIsWritten
<1>6. InvalidSaysWhy'
  BY <1>1, <1>3, <1>4 DEF IInv, InvalidSaysWhy
<1> QED
  BY <1>2, <1>5, <1>6

LEMMA TimeOutOK ==
  ASSUME IInv, NEW h \in Handlers, TimeOut(h)
  PROVE  IInv'
<1>1. run[h] \in Handler /\ Busy(h) /\ run[h].token \in Tokens
  BY DEF TimeOut, Busy, IInv, TypeOK, Active
<1>2. /\ run' \in [Handlers -> Handler]
      /\ \A g \in Handlers \ {h} : run'[g] = run[g]
      /\ run'[h].pc = run[h].pc /\ run'[h].error = run[h].error
      /\ run'[h].token = run[h].token /\ run'[h].number = run[h].number
      /\ run'[h].raw = run[h].raw /\ run'[h].attempt = run[h].attempt
      /\ run'[h].uri = run[h].uri /\ run'[h].old = run[h].old
      /\ run'[h].todo = run[h].todo /\ run'[h].bundles = run[h].bundles
  BY <1>1 DEF TimeOut, Handler, IInv, TypeOK
<1>3. overran' = overran \cup {run[h].token}
  BY DEF TimeOut
<1>4. "OtherError" \in Errors /\ "failed" \in Statuses /\ Null \in Reasons
  BY DEF Errors, Super, Statuses, Reasons
<1>5. /\ job' \in [Tokens -> [status : Statuses, reason : Reasons, retry_after : Nat \cup {Null}]]
      /\ threw' \in [Tokens -> Errors \cup {Null}]
      /\ DoneIsWritten' /\ InvalidSaysWhy'
  BY <1>1, <1>3, <1>4, SettleOK DEF TimeOut, Others
<1> USE DEF TimeOut, Others, IInv
<1>6. TypeOK'
  BY <1>1, <1>2, <1>3, <1>5 DEF TypeOK, Reasons
<1>7. Active' /\ Current'
  BY <1>1, <1>2, <1>3 DEF Active, Busy, Current
<1>8. SameRound'
  BY <1>2 DEF SameRound, OneRound
<1>9. LockOK'
  BY <1>2, TokenJobAssumption DEF LockOK, InWrite, TypeOK
<1>10. OldFound'
  BY <1>2 DEF OldFound
<1>11. Ended'
  BY <1>2, <1>3 DEF Ended, EndedWell
<1>12. Fallback'
  BY <1>2 DEF Fallback, FallbackSound, HasDefault
<1>13. OneWritePerToken'
  BY DEF OneWritePerToken
<1> QED
  BY <1>5, <1>6, <1>7, <1>8, <1>9, <1>10, <1>11, <1>12, <1>13

LEMMA EndUnheardOK ==
  ASSUME IInv, NEW h \in Handlers, EndUnheard(h)
  PROVE  IInv'
<1>1. ~InWrite(h)
  BY DEF EndUnheard, InWrite
<1>2. /\ job' \in [Tokens -> [status : Statuses, reason : Reasons, retry_after : Nat \cup {Null}]]
      /\ threw' \in [Tokens -> Errors \cup {Null}]
  BY DEF EndUnheard, IInv, TypeOK, Reasons
<1>3. DoneIsWritten' /\ InvalidSaysWhy'
  BY DEF EndUnheard, Others, IInv, DoneIsWritten, InvalidSaysWhy
<1> QED
  BY <1>1, <1>2, <1>3, FreeOK DEF EndUnheard

LEMMA SaveHostOK ==
  ASSUME IInv, NEW h \in Handlers, SaveHost(h)
  PROVE  IInv'
<1>1. PICK a \in RetryAfters :
        /\ limited' = now + (IF a = 0 THEN HostRetryAfter ELSE a)
        /\ asked' = limited'
        /\ run' = [run EXCEPT ![h].pc = "settle", ![h].after = IF a = 0 THEN JobRetryAfter ELSE a]
  BY DEF SaveHost
<1>2. run[h] \in Handler /\ run[h].pc = "over" /\ Busy(h) /\ ~InWrite(h) /\ now \in Nat
  BY TokenJobAssumption DEF SaveHost, Busy, InWrite, IInv, TypeOK
<1>3. limited' \in Nat /\ asked' \in Nat
  BY <1>1, <1>2, TokenJobAssumption
<1> DEFINE r == [run[h] EXCEPT !.pc = "settle", !.after = IF a = 0 THEN JobRetryAfter ELSE a]
<1>4. r \in Handler
  BY <1>2, TokenJobAssumption DEF Handler, PCs
<1>5. run' = [run EXCEPT ![h] = r]
  BY <1>1
<1>6. /\ r.pc = "settle" /\ r.token = run[h].token /\ r.number = run[h].number
      /\ r.live = run[h].live /\ r.raw = run[h].raw /\ r.attempt = run[h].attempt
      /\ r.bundles = run[h].bundles
  BY <1>2 DEF Handler
<1> HIDE DEF r
<1>7. OneRound(r) /\ FallbackSound(r) /\ ~EndedWell(r)
  BY <1>2, <1>6 DEF IInv, SameRound, OneRound, FallbackSound, HasDefault, EndedWell
<1> QED
  BY <1>2, <1>3, <1>4, <1>5, <1>6, <1>7, QuietOK DEF SaveHost, Others

LEMMA EndOK ==
  ASSUME IInv, NEW h \in Handlers, End(h)
  PROVE  IInv'
<1> DEFINE t == run[h].token
           e == run[h].error
           Result == /\ job' \in [Tokens -> [status : Statuses, reason : Reasons, retry_after : Nat \cup {Null}]]
                     /\ threw' \in [Tokens -> Errors \cup {Null}]
                     /\ DoneIsWritten' /\ InvalidSaysWhy'
<1>1. /\ run[h] \in Handler /\ Busy(h) /\ ~InWrite(h)
      /\ t \in Tokens /\ e \in Errors \cup {Null} /\ now \in Nat
  BY DEF End, Busy, InWrite, IInv, TypeOK, Active, Handler
<1>2. /\ overran \subseteq overran' /\ UNCHANGED <<tokens, written, latest>>
      /\ Null \in Reasons /\ {"done", "pending", "invalid", "failed"} \subseteq Statuses
  BY DEF End, Others, Reasons, Statuses
<1>3. CASE e = Null /\ Settle(t, e, "done", Null, Null)
  <2>1. EndedWell(run[h]) \/ t \notin tokens
    BY <1>3, TokenJobAssumption DEF End, EndedWell, Errors, Super
  <2>2. t \notin tokens \/ t \in overran \/ written[t] = latest[t]
    BY <1>1, <2>1 DEF IInv, Ended, Current
  <2>3. t \notin tokens \/ t \in overran' \/ written[t] = latest[t]
    BY <1>2, <2>2
  <2>4. Result
    BY <1>1, <1>2, <1>3, <2>3, SettleOK
  <2> QED
    BY <1>1, <2>4, FreeOK DEF End
<1>4. CASE Retryable(e) /\ Settle(t, e, "pending", Null, now + run[h].after)
  <2>1. now + run[h].after \in Nat
    BY <1>1 DEF Handler
  <2>2. Result
    BY <1>1, <1>2, <1>4, <2>1, SettleOK
  <2> QED
    BY <1>1, <2>2, FreeOK DEF End
<1>5. CASE IsA(e, "UserError") /\ Settle(t, e, "invalid", getUserErrorInvalidReason(e), Null)
  <2>1. e \in Errors
    BY <1>1, <1>5, TokenJobAssumption DEF IsA
  <2>2. getUserErrorInvalidReason(e) = e /\ e \in Reasons
    BY <1>5, <2>1, ReasonIsTheError
  <2>3. Result
    BY <1>1, <1>2, <1>5, <2>2, SettleOK
  <2> QED
    BY <1>1, <2>3, FreeOK DEF End
<1>6. CASE Settle(t, e, "failed", Null, Null)
  <2>1. Result
    BY <1>1, <1>2, <1>6, SettleOK
  <2> QED
    BY <1>1, <2>1, FreeOK DEF End
<1> QED
  BY <1>3, <1>4, <1>5, <1>6 DEF End

-----------------------------------------------------------------------------
(* The queue, the clock and the rest of the program.                        *)

LEMMA TickOK ==
  ASSUME IInv, Tick
  PROVE  IInv'
<1>1. TypeOK'
  BY TokenJobAssumption DEF Tick, IInv, TypeOK
<1> QED
  BY <1>1 DEF Tick, IInv, Active, Busy, SameRound, LockOK, InWrite, OldFound, Current,
              Ended, EndedWell, Fallback, OneWritePerToken, DoneIsWritten, InvalidSaysWhy

LEMMA StartOK ==
  ASSUME IInv, NEW h \in Handlers, NEW t \in Tokens, Start(h, t)
  PROVE  IInv'
<1> DEFINE r == [Idle EXCEPT !.pc = "row", !.token = t, !.number = started', !.live = TRUE]
<1>1. started' = started + 1 /\ started' \in 1..MaxRuns
  BY TokenJobAssumption DEF Start, IInv, TypeOK
<1>2. /\ r \in Handler /\ r.pc = "row" /\ r.token = t /\ r.number = started' /\ r.live = TRUE
      /\ r.raw = {} /\ r.bundles = {} /\ ~r.uri
  <2>1. Idle.raw = {} /\ Idle.bundles = {} /\ ~Idle.uri
    BY DEF Idle
  <2>2. started' \in Nat
    BY <1>1
  <2>3. r \in Handler
    BY <2>2, IdleIsHandler DEF Handler, PCs
  <2>4. r.pc = "row" /\ r.token = t /\ r.number = started' /\ r.live = TRUE /\ r.raw = Idle.raw
        /\ r.bundles = Idle.bundles /\ r.uri = Idle.uri
    BY IdleIsHandler DEF Handler
  <2> QED
    BY <2>1, <2>3, <2>4
<1>3. run' = [run EXCEPT ![h] = r] /\ run[h].pc = "idle"
  BY DEF Start
<1> HIDE DEF r
<1>4. /\ run' \in [Handlers -> Handler] /\ run'[h] = r
      /\ \A g \in Handlers \ {h} : run'[g] = run[g]
  BY <1>2, <1>3 DEF IInv, TypeOK
<1>5. /\ latest' \in [Tokens -> 0..MaxRuns] /\ latest'[t] = started'
      /\ \A u \in Tokens \ {t} : latest'[u] = latest[u]
  BY <1>1 DEF Start, IInv, TypeOK
<1>6. /\ job' \in [Tokens -> [status : Statuses, reason : Reasons, retry_after : Nat \cup {Null}]]
      /\ job'[t].status = "queued"
      /\ \A u \in Tokens \ {t} : job'[u] = job[u]
  BY DEF Start, IInv, TypeOK, Statuses, Reasons
<1> USE DEF IInv
<1>7. UNCHANGED <<now, limited, tokens, written, metadata, lock, overran, threw, asked>>
  BY DEF Start
<1>8. TypeOK'
  BY <1>1, <1>4, <1>5, <1>6, <1>7 DEF TypeOK, Reasons
<1>9. Active'
  <2> SUFFICES ASSUME NEW g \in Handlers, Busy(g)'
               PROVE  run'[g].token \in Tokens /\ run'[g].number \in 1..started'
    BY DEF Active
  <2>1. started \in Nat
    BY TokenJobAssumption DEF TypeOK
  <2>2. CASE g = h
    BY <1>1, <1>2, <1>4, <2>1, <2>2
  <2>3. CASE g # h
    <3>1. run'[g] = run[g] /\ run[g].token \in Tokens /\ run[g].number \in 1..started
      BY <1>4, <2>3 DEF Active, Busy
    <3> QED
      BY <1>1, <2>1, <3>1
  <2> QED
    BY <2>2, <2>3
<1>10. SameRound'
  BY <1>2, <1>4 DEF SameRound, OneRound
<1>11. LockOK'
  BY <1>2, <1>3, <1>4, <1>7, TokenJobAssumption DEF LockOK, InWrite, TypeOK
<1>12. OldFound' /\ Ended'
  BY <1>2, <1>4, <1>7 DEF OldFound, Ended, EndedWell
<1>13. Current'
  <2> SUFFICES ASSUME NEW g \in Handlers, Busy(g)', run'[g].token \notin overran'
               PROVE  run'[g].live /\ run'[g].number = latest'[run'[g].token]
    BY DEF Current
  <2>1. CASE g = h
    BY <1>2, <1>4, <1>5, <2>1
  <2>2. CASE g # h
    <3>1. Busy(g) /\ run'[g] = run[g] /\ run[g].token \notin overran
      BY <1>4, <1>7, <2>2 DEF Busy
    <3>2. run[g].live /\ run[g].number = latest[run[g].token] /\ run[g].token \in Tokens
      BY <3>1 DEF Current, Active
    <3>3. run[g].token # t
      BY <3>2 DEF Start
    <3> QED
      BY <1>5, <3>1, <3>2, <3>3
  <2> QED
    BY <2>1, <2>2
<1>14. Fallback'
  BY <1>2, <1>4 DEF Fallback, FallbackSound, HasDefault
<1>15. OneWritePerToken'
  BY <1>7 DEF OneWritePerToken
<1>16. DoneIsWritten' /\ InvalidSaysWhy'
  BY <1>5, <1>6, <1>7 DEF DoneIsWritten, InvalidSaysWhy, TypeOK
<1> QED
  BY <1>8, <1>9, <1>10, <1>11, <1>12, <1>13, <1>14, <1>15, <1>16

LEMMA RequestOK ==
  ASSUME IInv, NEW t \in Tokens, Request(t)
  PROVE  IInv'
<1>1. /\ job' \in [Tokens -> [status : Statuses, reason : Reasons, retry_after : Nat \cup {Null}]]
      /\ job'[t].status = "pending"
      /\ \A u \in Tokens \ {t} : job'[u] = job[u]
  BY DEF Request, IInv, TypeOK, Statuses, Reasons
<1>2. DoneIsWritten' /\ InvalidSaysWhy'
  BY <1>1 DEF Request, IInv, DoneIsWritten, InvalidSaysWhy, TypeOK
<1>3. TypeOK'
  BY <1>1 DEF Request, IInv, TypeOK, Reasons
<1> QED
  BY <1>2, <1>3 DEF Request, IInv, Active, Busy, SameRound, LockOK, InWrite, OldFound, Current,
                    Ended, EndedWell, Fallback, OneWritePerToken

LEMMA RollBackOK ==
  ASSUME IInv, NEW t \in Tokens, RollBack(t)
  PROVE  IInv'
<1>1. tokens' = tokens \ {t} /\ lock[t] = Null
  BY DEF RollBack
<1>2. metadata' \subseteq metadata /\ \A m \in metadata' : m.token # t
  BY DEF RollBack
<1>3. UNCHANGED <<now, limited, written, job, lock, run, started, latest, overran, threw, asked>>
  BY DEF RollBack
<1> USE DEF IInv
<1>4. TypeOK'
  BY <1>1, <1>2, <1>3 DEF TypeOK
<1>5. Active' /\ SameRound' /\ Current' /\ Fallback'
  BY <1>3 DEF Active, Busy, SameRound, Current, Fallback
<1>6. LockOK'
  BY <1>1, <1>3, TokenJobAssumption DEF LockOK, InWrite
<1>7. OldFound' /\ Ended'
  BY <1>1, <1>2, <1>3 DEF OldFound, Ended, EndedWell
<1>8. OneWritePerToken'
  BY <1>1, <1>2, <1>3 DEF OneWritePerToken
<1>9. DoneIsWritten' /\ InvalidSaysWhy'
  BY <1>1, <1>3 DEF DoneIsWritten, InvalidSaysWhy
<1> QED
  BY <1>4, <1>5, <1>6, <1>7, <1>8, <1>9

LEMMA KillOK ==
  ASSUME IInv, Kill
  PROVE  IInv'
<1>1. run' \in [Handlers -> Handler] /\ \A h \in Handlers : run'[h] = Idle
  BY IdleIsHandler DEF Kill
<1>2. lock' \in [Tokens -> Handlers \cup {Null}] /\ \A t \in Tokens : lock'[t] = Null
  BY DEF Kill
<1>3. Idle.pc = "idle" /\ Idle.raw = {} /\ Idle.bundles = {}
  BY DEF Idle
<1> USE DEF IInv, Kill
<1>4. TypeOK'
  BY <1>1, <1>2 DEF TypeOK
<1>5. Active' /\ Current' /\ SameRound'
  BY <1>1, <1>3 DEF Active, Busy, Current, SameRound, OneRound
<1>6. LockOK'
  BY <1>1, <1>2, <1>3 DEF LockOK, InWrite
<1>7. OldFound' /\ Ended'
  BY <1>1, <1>3 DEF OldFound, Ended, EndedWell
<1>8. Fallback'
  BY <1>1, <1>3 DEF Fallback, FallbackSound, HasDefault
<1>9. OneWritePerToken' /\ DoneIsWritten' /\ InvalidSaysWhy'
  BY DEF OneWritePerToken, DoneIsWritten, InvalidSaysWhy
<1> QED
  BY <1>4, <1>5, <1>6, <1>7, <1>8, <1>9

-----------------------------------------------------------------------------
(* The specification.                                                       *)

LEMMA InitOK == Init => IInv
<1> SUFFICES ASSUME Init
             PROVE  IInv
  OBVIOUS
<1>1. /\ run \in [Handlers -> Handler] /\ \A h \in Handlers : run[h] = Idle
      /\ Idle.pc = "idle" /\ Idle.raw = {} /\ Idle.bundles = {}
  BY IdleIsHandler DEF Init, Idle
<1>2. \A t \in Tokens : job[t].status = "pending"
  BY DEF Init
<1>3. TypeOK
  BY <1>1, TokenJobAssumption DEF Init, TypeOK, Statuses
<1>4. Active /\ Current /\ SameRound
  BY <1>1 DEF Active, Busy, Current, SameRound, OneRound
<1>5. LockOK
  BY <1>1 DEF Init, LockOK, InWrite
<1>6. OldFound /\ Ended
  BY <1>1 DEF OldFound, Ended, EndedWell
<1>7. Fallback
  BY <1>1 DEF Fallback, FallbackSound, HasDefault
<1>8. OneWritePerToken /\ DoneIsWritten /\ InvalidSaysWhy
  BY <1>2 DEF Init, OneWritePerToken, DoneIsWritten, InvalidSaysWhy
<1> QED
  BY <1>3, <1>4, <1>5, <1>6, <1>7, <1>8 DEF IInv

LEMMA NextOK == IInv /\ [Next]_vars => IInv'
<1> SUFFICES ASSUME IInv, [Next]_vars
             PROVE  IInv'
  OBVIOUS
<1>1. ASSUME NEW h \in Handlers, Handle(h)
      PROVE  IInv'
  BY <1>1, ReadRowOK, ReadUriOK, CheckHostOK, DeleteHostOK, ReadFieldsOK, FetchOK, ParseMetadataOK
     DEF Handle
<1>2. ASSUME NEW h \in Handlers, Write(h)
      PROVE  IInv'
  BY <1>2, UpdateTokenOK, DeleteMetadataOK, InsertMetadataOK, WriteFailsOK DEF Write
<1>3. ASSUME NEW h \in Handlers, Work(h)
      PROVE  IInv'
  BY <1>3, TimeOutOK, EndUnheardOK, SaveHostOK, EndOK DEF Work
<1>4. ASSUME NEW h \in Handlers, NEW t \in Tokens, Start(h, t)
      PROVE  IInv'
  BY <1>4, StartOK
<1>5. ASSUME NEW t \in Tokens, Request(t) \/ RollBack(t)
      PROVE  IInv'
  BY <1>5, RequestOK, RollBackOK
<1>6. CASE Tick \/ Kill
  BY <1>6, TickOK, KillOK
<1>7. CASE UNCHANGED vars
  BY <1>7 DEF vars, IInv, TypeOK, Active, Busy, SameRound, LockOK, InWrite, OldFound, Current,
              Ended, EndedWell, Fallback, OneWritePerToken, DoneIsWritten, InvalidSaysWhy
<1> QED
  BY <1>1, <1>2, <1>3, <1>4, <1>5, <1>6, <1>7 DEF Next

\* The inductive invariant holds (all of TokenJob).
THEOREM Invariance == Spec => []IInv
  BY InitOK, NextOK, PTL DEF Spec

\* The model's variables have their types, in every instance.
THEOREM TypeCorrect == Spec => []TypeOK
<1>1. IInv => TypeOK
  BY DEF IInv
<1> QED
  BY <1>1, Invariance, PTL

\* A token's row and its metadata are from one run and one round of fetches,
\* however many handlers of it overlap, fail, time out or are killed
\* (pg-store.ts updateProcessedTokenWithMetadata()).
THEOREM OneWrite == Spec => []OneWritePerToken
<1>1. IInv => OneWritePerToken
  BY DEF IInv
<1> QED
  BY <1>1, Invariance, PTL

\* A job that is done has been written by its last run, unless a handler of its
\* token has overrun (job.ts work()).
THEOREM DoneMeansWritten == Spec => []DoneIsWritten
<1>1. IInv => DoneIsWritten
  BY DEF IInv
<1> QED
  BY <1>1, Invariance, PTL

\* The reason of an invalid job is the error its last run ended with
\* (errors.ts getUserErrorInvalidReason(), job.ts work()).
THEOREM InvalidIsExplained == Spec => []InvalidSaysWhy
<1>1. IInv => InvalidSaysWhy
  BY DEF IInv
<1> QED
  BY <1>1, Invariance, PTL

-----------------------------------------------------------------------------
(* Losing metadata.                                                         *)

\* The right to end with less than before.
LosesMetadata(t) == (\E m \in metadata : m.token = t) /\ ~(\E m \in metadata' : m.token = t)
MayEmpty(t) ==
  \E h \in Handlers :
    /\ run[h].token = t /\ run[h].pc = "insert"
    /\ \/ ~run[h].uri
       \/ run[h].error # Null /\ ~Retryable(run[h].error)
       \/ run[h].todo = {} /\ [locale |-> "default", attempt |-> run[h].attempt] \in run[h].raw

LEMMA InsertEmpties ==
  ASSUME IInv, NEW h \in Handlers, InsertMetadata(h), NEW t \in tokens', LosesMetadata(t)
  PROVE  MayEmpty(t)
<1>1. t = run[h].token
  BY DEF InsertMetadata, LosesMetadata
<1>2. run[h].pc = "insert"
  BY DEF InsertMetadata
<1> QED
  BY <1>1, <1>2 DEF IInv, Fallback, FallbackSound, HasDefault, MayEmpty

LEMMA StepKeepsMetadata ==
  ASSUME IInv, [Next]_vars, NEW t \in tokens', LosesMetadata(t)
  PROVE  MayEmpty(t)
<1>1. metadata' # metadata
  BY DEF LosesMetadata
<1>2. ASSUME NEW h \in Handlers, Handle(h)
      PROVE  FALSE
  BY <1>1, <1>2 DEF Handle, ReadRow, ReadUri, CheckHost, DeleteHost, ReadFields, Fetch, ParseMetadata
<1>3. ASSUME NEW h \in Handlers, Work(h)
      PROVE  FALSE
  BY <1>1, <1>3 DEF Work, TimeOut, EndUnheard, SaveHost, End
<1>4. ASSUME NEW h \in Handlers, Write(h)
      PROVE  MayEmpty(t)
  <2>1. InsertMetadata(h)
    BY <1>1, <1>4 DEF Write, UpdateToken, DeleteMetadata, WriteFails
  <2> QED
    BY <2>1, InsertEmpties
<1>5. ASSUME NEW u \in Tokens, RollBack(u)
      PROVE  FALSE
  BY <1>5 DEF RollBack, LosesMetadata
<1>6. ASSUME NEW u \in Tokens, Request(u)
      PROVE  FALSE
  BY <1>1, <1>6 DEF Request
<1>7. ASSUME NEW h \in Handlers, NEW u \in Tokens, Start(h, u)
      PROVE  FALSE
  BY <1>1, <1>7 DEF Start
<1>8. ~(Tick \/ Kill \/ UNCHANGED vars)
  BY <1>1 DEF Tick, Kill, vars
<1> QED
  BY <1>2, <1>3, <1>4, <1>5, <1>6, <1>7, <1>8 DEF Next

\* A token loses its metadata without getting other only to a rollback, to a contract
\* without a URI, to documents that have all come in the round that is written and
\* give no row, or to an FT's error that will not pass
\* (process-token-job.ts handleFt(), metadata-helpers.ts:122-138, 174-178).
THEOREM RateLimitsCostNothing == Spec => MetadataOutlivesRateLimits
<1>1. IInv /\ [Next]_vars => [\A t \in tokens' : LosesMetadata(t) => MayEmpty(t)]_vars
  BY StepKeepsMetadata
<1>2. Spec => [][\A t \in tokens' : LosesMetadata(t) => MayEmpty(t)]_vars
  BY <1>1, Invariance, PTL DEF Spec
<1> QED
  BY <1>2 DEF MetadataOutlivesRateLimits, LosesMetadata, MayEmpty
=============================================================================
