------------------------ MODULE MetadataBundleProofs ------------------------
(* Theorems about MetadataBundle, for any runs, bundles, names and rounds.   *)
EXTENDS MetadataBundle, TLAPS

-----------------------------------------------------------------------------
(* Types.                                                                   *)

\* What a sequence with one more row, and new properties in the others, is: no row
\* is marked by it.
LEMMA InsertType ==
  ASSUME NEW inserts \in Seq(Row), NEW document \in Documents, NEW k \in Nat
  PROVE  /\ Insert(inserts, document, k) \in Seq(Row)
         /\ Len(Insert(inserts, document, k)) = Len(inserts) + 1
         /\ \A i \in DOMAIN Insert(inserts, document, k) :
              Insert(inserts, document, k)[i].cached => i \in DOMAIN inserts /\ inserts[i].cached
<1> DEFINE properties == [p \in Keys |-> IF p \in document.properties THEN k
                                         ELSE IF inserts = <<>> THEN 0 ELSE inserts[1].properties[p]]
           row == [document |-> k,
                   description |-> IF document.description THEN k ELSE Fallback(inserts, "description"),
                   image |-> ImageOf(inserts, document, k), cached |-> FALSE,
                   attributes |-> IF document.attributes THEN k ELSE 0,
                   properties |-> properties]
           others == [j \in DOMAIN inserts |-> [inserts[j] EXCEPT !.properties = properties]]
<1>1. inserts # <<>> => inserts[1] \in Row
  OBVIOUS
<1>2. properties \in [Keys -> Nat]
  BY <1>1 DEF Row
<1>3. Fallback(inserts, "description") \in Nat /\ Fallback(inserts, "image") \in Nat
  BY <1>1 DEF Fallback, Row
<1>4. ImageOf(inserts, document, k) \in Nat
  BY <1>3 DEF ImageOf
<1>5. row \in Row /\ ~row.cached
  BY <1>2, <1>3, <1>4 DEF Row
<1>6. /\ others \in Seq(Row) /\ Len(others) = Len(inserts)
      /\ \A j \in 1..Len(inserts) : others[j].cached = inserts[j].cached
  <2>1. \A j \in 1..Len(inserts) :
          /\ [inserts[j] EXCEPT !.properties = properties] \in Row
          /\ [inserts[j] EXCEPT !.properties = properties].cached = inserts[j].cached
    <3> HIDE DEF properties
    <3> TAKE j \in 1..Len(inserts)
    <3>1. inserts[j] \in Row
      OBVIOUS
    <3> QED BY <1>2, <3>1 DEF Row
  <2> HIDE DEF properties
  <2>2. others \in [1..Len(inserts) -> Row]
    BY <2>1
  <2>3. \A j \in 1..Len(inserts) : others[j].cached = inserts[j].cached
    BY <2>1
  <2> QED BY <2>2, <2>3
<1>7. Insert(inserts, document, k) = Append(others, row)
  BY DEF Insert
<1> HIDE DEF others, row
<1>8. Append(others, row) \in Seq(Row) /\ Len(Append(others, row)) = Len(inserts) + 1
  BY <1>5, <1>6
<1>9. ASSUME NEW i \in DOMAIN Append(others, row), Append(others, row)[i].cached
      PROVE  i \in DOMAIN inserts /\ inserts[i].cached
  <2>1. i \in 1..Len(inserts)
    BY <1>5, <1>6, <1>9
  <2>2. Append(others, row)[i] = others[i]
    BY <1>6, <2>1
  <2> QED BY <1>6, <1>9, <2>1, <2>2
<1> QED BY <1>7, <1>8, <1>9

\* Where a run goes, it holds what it may.
LEMMA GotoType ==
  ASSUME run \in [Runs -> RunRecords], NEW r \in Runs, NEW pc \in PCs, Goto(r, pc)
  PROVE  run' \in [Runs -> RunRecords]
<1>1. run[r] \in RunRecords /\ run' = [run EXCEPT ![r] = [run[r] EXCEPT !.pc = pc]]
  BY DEF Goto
<1>2. [run[r] EXCEPT !.pc = pc] \in RunRecords
  BY <1>1 DEF RunRecords
<1> QED BY <1>1, <1>2

\* What an ended run has left is of the right type.
LEMMA EndType ==
  ASSUME run \in [Runs -> RunRecords], NEW r \in Runs, NEW pc \in PCs, End(r, pc)
  PROVE  run' \in [Runs -> RunRecords]
<1> DEFINE ended == [run[r] EXCEPT !.pc = pc, !.round = 0, !.bundle = <<>>, !.at = 0,
                                   !.inserts = <<>>, !.read = Null, !.output = "png"]
<1>1. run \in [Runs -> RunRecords] /\ run[r] \in RunRecords
  OBVIOUS
<1>2. 0 \in 0..(MaxRounds - 1)
  BY MetadataBundleAssumption
<1>3. <<>> \in Seq(Documents) /\ <<>> \in Seq(Row)
  OBVIOUS
<1>4. ended \in RunRecords
  BY <1>1, <1>2, <1>3 DEF RunRecords, Outputs
<1>5. run' = [run EXCEPT ![r] = ended]
  BY DEF End
<1> HIDE DEF ended
<1> QED BY <1>1, <1>4, <1>5

\* The round stays below MaxRounds.
LEMMA RoundFailsType ==
  ASSUME run \in [Runs -> RunRecords], NEW r \in Runs, NEW missed \in BOOLEAN, RoundFails(r, missed)
  PROVE  run' \in [Runs -> RunRecords]
<1> DEFINE next == run[r].round + 1
           failed == [run[r] EXCEPT !.round = IF next < MaxRounds THEN next ELSE 0,
                        !.pc = IF next < MaxRounds THEN "fetch" ELSE "failed",
                        !.missed = run[r].missed \/ missed, !.bundle = <<>>, !.at = 0,
                        !.inserts = <<>>, !.read = Null, !.output = "png"]
<1>1. run \in [Runs -> RunRecords] /\ run[r] \in RunRecords
  OBVIOUS
<1>2. run[r].round \in 0..(MaxRounds - 1) /\ run[r].missed \in BOOLEAN
  BY <1>1 DEF RunRecords
<1>3. (IF next < MaxRounds THEN next ELSE 0) \in 0..(MaxRounds - 1)
  BY <1>2, MetadataBundleAssumption
<1>4. /\ <<>> \in Seq(Documents) /\ <<>> \in Seq(Row)
      /\ (run[r].missed \/ missed) \in BOOLEAN
      /\ (IF next < MaxRounds THEN "fetch" ELSE "failed") \in PCs
  BY <1>2 DEF PCs
<1>5. failed \in RunRecords
  BY <1>1, <1>3, <1>4 DEF RunRecords, Outputs
<1>6. run' = [run EXCEPT ![r] = failed]
  BY Zenon DEF RoundFails
<1> HIDE DEF failed
<1> QED BY <1>1, <1>5, <1>6

-----------------------------------------------------------------------------
(* The invariant.  What a run holds, and what it needs in the directory, is said *)
(* of its record, so that the record after a step can be named.               *)

Active(v) == v.pc \notin {"idle", "done", "failed"}
Imaging == {"response", "body", "transform", "encode", "upload"}

\* The position in the bundle is the one of a document; what has not started has
\* missed nothing.
AtRight(v) ==
  /\ v.pc = "idle" => ~v.missed
  /\ v.pc = "document" => v.at >= 1
  /\ v.pc \in Imaging => v.at \in 1..Len(v.bundle)

\* What run r finds in the directory when it is alone.
Ready(r, v, dir) ==
  /\ v.pc \in Imaging => dir # Null
  /\ v.pc \in Imaging \ {"response"} =>
       /\ dir.image # Null /\ ~dir.image.torn
       /\ dir.image.open = IF v.pc = "body" THEN {r} ELSE {}
  /\ v.pc = "encode" => v.read # Null
  /\ v.pc = "upload" => dir[v.output] # Null

RunsOK == run \in [Runs -> RunRecords] /\ \A r \in Runs : AtRight(run[r])
\* Nobody has the file open but who is writing into it.
OpenBy(dir, S) == dir # Null => (dir.image # Null => dir.image.open \subseteq S)
FilesOK == files \in {Null} \cup Directories /\ OpenBy(files, {q \in Runs : run[q].pc = "body"})
AloneOK ==
  \A r \in Runs : Active(run[r]) /\ ~run[r].overlapped =>
    /\ \A q \in Runs \ {r} : ~Active(run[q])
    /\ Ready(r, run[r], files)

IInv == RunsOK /\ FilesOK /\ AloneOK /\ FailsOnlyIfOverlapped

\* Whoever else has the file open when run r takes a step.
OthersOpen(r) == {q \in Runs \ {r} : run[q].pc = "body"}

\* A step of a run that leaves the others alone.
LEMMA StepKeeps ==
  ASSUME IInv, NEW r \in Runs, Active(run[r]), NEW v \in RunRecords,
         run' = [run EXCEPT ![r] = v], v.overlapped = run[r].overlapped, AtRight(v),
         files' \in {Null} \cup Directories,
         OpenBy(files', OthersOpen(r) \cup IF v.pc = "body" THEN {r} ELSE {}),
         ~run[r].overlapped => ~v.missed /\ (Active(v) => Ready(r, v, files'))
  PROVE  IInv'
<1>1. RunsOK'
  BY DEF IInv, RunsOK
<1>2. \A q \in Runs : run'[q] = IF q = r THEN v ELSE run[q]
  BY DEF IInv, RunsOK
<1>3. FilesOK'
  <2>1. OthersOpen(r) \cup (IF v.pc = "body" THEN {r} ELSE {}) \subseteq {q \in Runs : run'[q].pc = "body"}
    BY <1>2 DEF OthersOpen
  <2> QED BY <2>1 DEF FilesOK, OpenBy
<1>4. FailsOnlyIfOverlapped'
  <2> SUFFICES ASSUME NEW q \in Runs, run'[q].missed PROVE run'[q].overlapped
    BY DEF FailsOnlyIfOverlapped
  <2>1. CASE q = r
    BY <2>1, <1>2
  <2>2. CASE q # r
    BY <2>2, <1>2 DEF IInv, FailsOnlyIfOverlapped
  <2> QED BY <2>1, <2>2
<1>5. AloneOK'
  <2> SUFFICES ASSUME NEW q \in Runs, Active(run'[q]), ~run'[q].overlapped
               PROVE  /\ \A p \in Runs \ {q} : ~Active(run'[p])
                      /\ Ready(q, run'[q], files')
    BY DEF AloneOK
  <2>1. CASE q = r
    BY <2>1, <1>2 DEF IInv, AloneOK
  <2>2. CASE q # r
    BY <2>2, <1>2 DEF IInv, AloneOK
  <2> QED BY <2>1, <2>2
<1> QED BY <1>1, <1>3, <1>4, <1>5 DEF IInv

\* A round that fails, for a reason that is not another run's.
LEMMA RoundFailsKeeps ==
  ASSUME IInv, NEW r \in Runs, Active(run[r]), NEW missed \in BOOLEAN, RoundFails(r, missed),
         missed => run[r].overlapped,
         files' \in {Null} \cup Directories, OpenBy(files', OthersOpen(r))
  PROVE  IInv'
<1> DEFINE v == run'[r]
<1>1. run' \in [Runs -> RunRecords]
  BY RoundFailsType DEF IInv, RunsOK
<1>2. v \in RunRecords /\ run' = [run EXCEPT ![r] = v]
  BY <1>1 DEF RoundFails, IInv, RunsOK
<1>3. /\ v.pc \in {"fetch", "failed"} /\ v.overlapped = run[r].overlapped
      /\ v.missed = (run[r].missed \/ missed)
  BY DEF RoundFails, IInv, RunsOK, RunRecords
<1>4. AtRight(v) /\ Ready(r, v, files')
  BY <1>3 DEF AtRight, Ready, Imaging
<1>5. ~run[r].overlapped => ~v.missed
  BY <1>3 DEF IInv, FailsOnlyIfOverlapped
<1>6. (OthersOpen(r) \cup IF v.pc = "body" THEN {r} ELSE {}) = OthersOpen(r)
  BY <1>3
<1> HIDE DEF v
<1> QED BY <1>2, <1>3, <1>4, <1>5, <1>6, StepKeeps

\* The end of a run.
LEMMA EndKeeps ==
  ASSUME IInv, NEW r \in Runs, Active(run[r]), NEW pc \in {"done", "failed"}, End(r, pc),
         files' \in {Null} \cup Directories, OpenBy(files', OthersOpen(r))
  PROVE  IInv'
<1> DEFINE v == run'[r]
<1>1. run' \in [Runs -> RunRecords]
  BY EndType DEF IInv, RunsOK, PCs
<1>2. v \in RunRecords /\ run' = [run EXCEPT ![r] = v]
  BY <1>1 DEF End, IInv, RunsOK
<1>3. v.pc = pc /\ v.overlapped = run[r].overlapped /\ v.missed = run[r].missed
  BY DEF End, IInv, RunsOK, RunRecords
<1>4. AtRight(v) /\ Ready(r, v, files')
  BY <1>3 DEF AtRight, Ready, Imaging
<1>5. ~run[r].overlapped => ~v.missed
  BY <1>3 DEF IInv, FailsOnlyIfOverlapped
<1>6. (OthersOpen(r) \cup IF v.pc = "body" THEN {r} ELSE {}) = OthersOpen(r)
  BY <1>3
<1> HIDE DEF v
<1> QED BY <1>2, <1>3, <1>4, <1>5, <1>6, StepKeeps

-----------------------------------------------------------------------------
(* The directory.                                                           *)

\* Who has the file open, as seen from run r.
LEMMA OpenByOthers ==
  ASSUME IInv, NEW r \in Runs
  PROVE  /\ OpenBy(files, OthersOpen(r) \cup {r})
         /\ run[r].pc # "body" => OpenBy(files, OthersOpen(r))
         /\ Active(run[r]) /\ ~run[r].overlapped => OthersOpen(r) = {}
BY DEF IInv, FilesOK, OpenBy, OthersOpen, AloneOK, Active

\* A directory that is made anew is empty, one that is there is left alone.
LEMMA MadeType ==
  ASSUME IInv
  PROVE  /\ Made \in Directories /\ Made # Null
         /\ files # Null => Made = files
         /\ \A S : OpenBy(files, S) => OpenBy(Made, S)
BY NullAssumption DEF IInv, FilesOK, Made, EmptyDirectory, Directories, OpenBy

\* The image in hand is known by its run, round and document.
LEMMA MineType ==
  ASSUME IInv, NEW r \in Runs, run[r].at \in 1..Len(run[r].bundle)
  PROVE  Mine(r) \in Contents
<1>1. run[r] \in RunRecords
  BY DEF IInv, RunsOK
<1>2. run[r].inserts \in Seq(Row) /\ run[r].round \in Nat /\ run[r].at \in Nat
  BY <1>1, MetadataBundleAssumption DEF RunRecords
<1>3. run[r].inserts # <<>> => run[r].inserts[1] \in Row
  BY <1>2
<1>4. Fallback(run[r].inserts, "image") \in Nat
  BY <1>3 DEF Fallback, Row
<1>5. ImageOf(run[r].inserts, run[r].bundle[run[r].at], run[r].at) \in Nat
  BY <1>2, <1>4 DEF ImageOf
<1> QED BY <1>2, <1>5 DEF Mine, Contents

\* A file opened to be written is whole only if nobody else has it open.
LEMMA WriteFileType ==
  ASSUME NEW dir \in Directories, NEW r \in Runs, NEW open \in SUBSET Runs, Mine(r) \in Contents,
         NEW written, written = WriteFile(dir, r, open)
  PROVE  /\ written \in Directories /\ written # Null /\ written.image # Null
         /\ written.image.open = Writing(dir) \cup open
         /\ written.image.torn = (Writing(dir) # {})
<1>1. Writing(dir) \in SUBSET Runs
  BY DEF Writing, Directories, Images
<1>2. [of |-> Mine(r), open |-> Writing(dir) \cup open, torn |-> Writing(dir) # {}] \in Images
  BY <1>1 DEF Images
<1> QED BY <1>2, NullAssumption DEF WriteFile, Directories

\* A file that is closed is still a file, and one fewer has it open.
LEMMA CloseFileType ==
  ASSUME IInv, NEW r \in Runs, NEW cut \in BOOLEAN
  PROVE  /\ CloseFile(r, cut) \in {Null} \cup Directories
         /\ \A S : OpenBy(files, S \cup {r}) => OpenBy(CloseFile(r, cut), S)
<1>1. CASE files # Null /\ r \in Writing(files)
  <2> DEFINE closed == [files.image EXCEPT !.open = @ \ {r}, !.torn = files.image.torn \/ cut]
  <2>1. files \in Directories /\ files.image \in Images /\ files.image # Null
    BY <1>1 DEF IInv, FilesOK, Directories, Writing
  <2>2. closed \in Images /\ closed # Null /\ closed.open = files.image.open \ {r}
    <3>1. (files.image.torn \/ cut) \in BOOLEAN
      BY <2>1 DEF Images
    <3>2. closed \in Images /\ closed.open = files.image.open \ {r}
      BY <2>1, <3>1 DEF Images
    <3> QED BY <3>2, NullAssumption
  <2>3. CloseFile(r, cut) = [files EXCEPT !.image = closed]
    BY <1>1, <2>1 DEF CloseFile, Directories, Images
  <2> HIDE DEF closed
  <2>4. CloseFile(r, cut) \in Directories /\ CloseFile(r, cut).image = closed
    BY <2>1, <2>2, <2>3 DEF Directories
  <2> QED BY <1>1, <2>1, <2>2, <2>4 DEF OpenBy
<1>2. CASE ~(files # Null /\ r \in Writing(files))
  BY <1>2 DEF CloseFile, IInv, FilesOK, OpenBy, Writing
<1> QED BY <1>1, <1>2

-----------------------------------------------------------------------------
(* One lemma per action, or group of actions with the same effect.          *)

\* Being overlapped changes nothing else of a run.
LEMMA Overlap ==
  ASSUME NEW w \in RunRecords, NEW b \in BOOLEAN, NEW v, v = [w EXCEPT !.overlapped = b]
  PROVE  /\ v \in RunRecords
         /\ v.pc = w.pc /\ v.at = w.at /\ v.bundle = w.bundle /\ v.missed = w.missed
         /\ v.read = w.read /\ v.output = w.output /\ v.overlapped = b
BY DEF RunRecords

\* A run starts: whoever else is under way is overlapped from now on.
LEMMA StartKeeps ==
  ASSUME IInv, NEW r \in Runs, Start(r) PROVE IInv'
<1> DEFINE others == {q \in Runs : Live(q)}
<1>1. \A q \in Runs : Live(q) <=> Active(run[q])
  BY DEF Live, Active
<1>2. /\ \A q \in Runs : run'[q] =
           IF q = r THEN [run[q] EXCEPT !.pc = "fetch", !.overlapped = others # {}]
           ELSE [run[q] EXCEPT !.overlapped = run[q].overlapped \/ q \in others]
      /\ DOMAIN run' = Runs /\ run' = [q \in Runs |-> run'[q]] /\ run[r].pc = "idle"
  BY DEF Start, At
<1> HIDE DEF others
<1>3. \A q \in Runs : run[q] \in RunRecords /\ (run[q].overlapped \/ q \in others) \in BOOLEAN
                     /\ (others # {}) \in BOOLEAN
  BY DEF IInv, RunsOK, RunRecords
<1>4. \A q \in Runs \ {r} : /\ run'[q] \in RunRecords
                            /\ run'[q].pc = run[q].pc /\ run'[q].at = run[q].at
                            /\ run'[q].bundle = run[q].bundle /\ run'[q].missed = run[q].missed
                            /\ run'[q].read = run[q].read /\ run'[q].output = run[q].output
                            /\ run'[q].overlapped = (run[q].overlapped \/ q \in others)
  <2> TAKE q \in Runs \ {r}
  <2> DEFINE b == run[q].overlapped \/ q \in others
  <2>1. run'[q] = [run[q] EXCEPT !.overlapped = b]
    BY <1>2
  <2>2. run[q] \in RunRecords /\ b \in BOOLEAN
    BY <1>3
  <2> HIDE DEF b
  <2>3. /\ run'[q] \in RunRecords
        /\ run'[q].pc = run[q].pc /\ run'[q].at = run[q].at
        /\ run'[q].bundle = run[q].bundle /\ run'[q].missed = run[q].missed
        /\ run'[q].read = run[q].read /\ run'[q].output = run[q].output
        /\ run'[q].overlapped = b
    BY <2>1, <2>2, Overlap
  <2> QED BY <2>3 DEF b
<1>5. /\ run'[r] \in RunRecords /\ run'[r].pc = "fetch" /\ run'[r].missed = run[r].missed
      /\ run'[r].overlapped = (others # {})
  <2> DEFINE b == others # {}
  <2>1. run'[r] = [run[r] EXCEPT !.pc = "fetch", !.overlapped = b]
    BY <1>2
  <2>2. run[r] \in RunRecords /\ b \in BOOLEAN
    BY <1>3
  <2> HIDE DEF b
  <2>3. /\ run'[r] \in RunRecords /\ run'[r].pc = "fetch" /\ run'[r].overlapped = b
        /\ run'[r].missed = run[r].missed
    BY <2>1, <2>2 DEF RunRecords, PCs
  <2> QED BY <2>3 DEF b
<1>6. RunsOK'
  <2>1. run' \in [Runs -> RunRecords]
    BY <1>2, <1>4, <1>5
  <2>2. \A q \in Runs : AtRight(run'[q])
    BY <1>4, <1>5 DEF IInv, RunsOK, AtRight, Imaging
  <2> QED BY <2>1, <2>2 DEF RunsOK
<1>7. FilesOK'
  <2>1. {q \in Runs : run[q].pc = "body"} = {q \in Runs : run'[q].pc = "body"}
    <3>1. \A q \in Runs : run[q].pc = "body" <=> run'[q].pc = "body"
      BY <1>2, <1>4, <1>5
    <3> QED BY <3>1
  <2> QED BY <2>1 DEF Start, IInv, FilesOK, OpenBy
<1>8. AloneOK'
  <2> SUFFICES ASSUME NEW q \in Runs, Active(run'[q]), ~run'[q].overlapped
               PROVE  /\ \A p \in Runs \ {q} : ~Active(run'[p])
                      /\ Ready(q, run'[q], files')
    BY DEF AloneOK
  <2>1. q = r
    BY <1>1, <1>4 DEF others, Active
  <2>2. \A p \in Runs \ {q} : ~Active(run'[p])
    BY <2>1, <1>1, <1>4, <1>5 DEF others, Active
  <2> QED BY <2>1, <2>2, <1>5 DEF Ready, Imaging
<1>9. FailsOnlyIfOverlapped'
  <2> SUFFICES ASSUME NEW q \in Runs, run'[q].missed PROVE run'[q].overlapped
    BY DEF FailsOnlyIfOverlapped
  <2>1. CASE q = r
    BY <2>1, <1>2, <1>5 DEF IInv, RunsOK, AtRight
  <2>2. CASE q # r
    BY <2>2, <1>4 DEF IInv, FailsOnlyIfOverlapped
  <2> QED BY <2>1, <2>2
<1> QED BY <1>6, <1>7, <1>8, <1>9 DEF IInv

\* A timeout changes nothing that a run does.
LEMMA TimeOutKeeps ==
  ASSUME IInv, NEW r \in Runs, TimeOut(r) PROVE IInv'
<1> DEFINE v == [run[r] EXCEPT !.timedOut = TRUE]
<1>1. run[r] \in RunRecords /\ AtRight(run[r]) /\ Active(run[r])
  BY DEF IInv, RunsOK, TimeOut, Live, Active
<1>2. /\ v \in RunRecords /\ v.pc = run[r].pc /\ v.overlapped = run[r].overlapped
      /\ v.missed = run[r].missed /\ v.at = run[r].at /\ v.bundle = run[r].bundle
      /\ v.read = run[r].read /\ v.output = run[r].output
  BY <1>1 DEF RunRecords
<1>3. run' = [run EXCEPT ![r] = v] /\ UNCHANGED files
  BY DEF TimeOut
<1> HIDE DEF v
<1>4. AtRight(v)
  BY <1>1, <1>2 DEF AtRight
<1>5. OpenBy(files, OthersOpen(r) \cup IF v.pc = "body" THEN {r} ELSE {})
  BY <1>2, OpenByOthers
<1>6. ~run[r].overlapped => ~v.missed /\ Ready(r, v, files)
  BY <1>1, <1>2 DEF IInv, AloneOK, FailsOnlyIfOverlapped, Ready
<1>7. files' \in {Null} \cup Directories
  BY <1>3 DEF IInv, FilesOK
<1> QED BY <1>1, <1>2, <1>3, <1>4, <1>5, <1>6, <1>7, StepKeeps

\* A fetch leads to the first document, to another round or to the end.
LEMMA FetchKeeps ==
  ASSUME IInv, NEW r \in Runs, Fetch(r) \/ FetchFails(r) PROVE IInv'
<1>1. run[r].pc = "fetch" /\ Active(run[r]) /\ run[r] \in RunRecords /\ UNCHANGED files
  BY DEF Fetch, FetchFails, At, Active, IInv, RunsOK
<1>2. files' \in {Null} \cup Directories /\ OpenBy(files', OthersOpen(r))
  BY <1>1, OpenByOthers DEF IInv, FilesOK
<1>3. CASE RoundFails(r, FALSE)
  BY <1>1, <1>2, <1>3, RoundFailsKeeps
<1>4. CASE End(r, "failed")
  BY <1>1, <1>2, <1>4, EndKeeps
<1>5. CASE \E bundle \in Bundles[r] :
             run' = [run EXCEPT ![r] = [@ EXCEPT !.pc = "document", !.bundle = bundle, !.at = 1]]
  <2>1. PICK bundle \in Bundles[r] :
             run' = [run EXCEPT ![r] = [@ EXCEPT !.pc = "document", !.bundle = bundle, !.at = 1]]
    BY <1>5
  <2> DEFINE v == [run[r] EXCEPT !.pc = "document", !.bundle = bundle, !.at = 1]
  <2>2. bundle \in Seq(Documents)
    BY MetadataBundleAssumption
  <2>3. v \in RunRecords /\ v.pc = "document" /\ v.at = 1 /\ v.overlapped = run[r].overlapped
        /\ v.missed = run[r].missed
    BY <1>1, <2>2 DEF RunRecords, PCs
  <2>4. run' = [run EXCEPT ![r] = v]
    BY <2>1
  <2> HIDE DEF v
  <2>5. AtRight(v) /\ Ready(r, v, files') /\ (~run[r].overlapped => ~v.missed)
    BY <2>3 DEF AtRight, Ready, Imaging, IInv, FailsOnlyIfOverlapped
  <2>6. OthersOpen(r) \cup (IF v.pc = "body" THEN {r} ELSE {}) = OthersOpen(r)
    BY <2>3
  <2> QED BY <1>1, <1>2, <2>3, <2>4, <2>5, <2>6, StepKeeps
<1> QED BY <1>3, <1>4, <1>5 DEF Fetch, FetchFails

\* The next document, when it is passed over or a row without an image to cache.
LEMMA NextDocument ==
  ASSUME IInv, NEW r \in Runs, run[r].pc = "document", UNCHANGED files,
         NEW inserts \in Seq(Row),
         run' = [run EXCEPT ![r] = [run[r] EXCEPT !.at = @ + 1, !.inserts = inserts]]
  PROVE  IInv'
<1> DEFINE v == [run[r] EXCEPT !.at = @ + 1, !.inserts = inserts]
<1>1. run[r] \in RunRecords /\ AtRight(run[r]) /\ Active(run[r])
  BY DEF IInv, RunsOK, Active
<1>2. /\ v \in RunRecords /\ v.pc = "document" /\ v.at >= 1 /\ v.overlapped = run[r].overlapped
      /\ v.missed = run[r].missed
  <2>1. run[r].at \in Nat /\ run[r].at + 1 \in Nat /\ run[r].at + 1 >= 1
    BY <1>1 DEF RunRecords
  <2> QED BY <1>1, <2>1 DEF RunRecords
<1> HIDE DEF v
<1>3. AtRight(v) /\ Ready(r, v, files') /\ (~run[r].overlapped => ~v.missed)
  BY <1>2 DEF AtRight, Ready, Imaging, IInv, FailsOnlyIfOverlapped
<1>4. files' \in {Null} \cup Directories
      /\ OpenBy(files', OthersOpen(r) \cup IF v.pc = "body" THEN {r} ELSE {})
  BY <1>2, OpenByOthers DEF IInv, FilesOK
<1>5. run' = [run EXCEPT ![r] = v]
  BY DEF v
<1> QED BY <1>1, <1>2, <1>3, <1>4, <1>5, StepKeeps

\* Run r goes on with its image, in a directory that holds what it needs.
LEMMA GotoKeeps ==
  ASSUME IInv, NEW r \in Runs, Active(run[r]), NEW pc \in Imaging, Goto(r, pc),
         run[r].at \in 1..Len(run[r].bundle),
         files' \in {Null} \cup Directories,
         OpenBy(files', OthersOpen(r) \cup IF pc = "body" THEN {r} ELSE {}),
         ~run[r].overlapped => Ready(r, [run[r] EXCEPT !.pc = pc], files')
  PROVE  IInv'
<1> DEFINE v == [run[r] EXCEPT !.pc = pc]
<1>1. run[r] \in RunRecords
  BY DEF IInv, RunsOK
<1>2. pc \in PCs
  BY DEF Imaging, PCs
<1>3. /\ v \in RunRecords /\ v.pc = pc /\ v.at = run[r].at /\ v.bundle = run[r].bundle
      /\ v.overlapped = run[r].overlapped /\ v.missed = run[r].missed
  BY <1>1, <1>2 DEF RunRecords
<1>4. run' = [run EXCEPT ![r] = v]
  BY DEF Goto
<1>5. ~run[r].overlapped => Ready(r, v, files')
  OBVIOUS
<1> HIDE DEF v
<1>6. AtRight(v) /\ (~run[r].overlapped => ~v.missed)
  BY <1>3 DEF AtRight, Imaging, IInv, FailsOnlyIfOverlapped
<1> QED BY <1>3, <1>4, <1>5, <1>6, StepKeeps

\* A data: image is written where the directory is made.
LEMMA DocumentKeeps ==
  ASSUME IInv, NEW r \in Runs, Document(r) PROVE IInv'
<1> DEFINE bundle == run[r].bundle
           k == run[r].at
           inserts == run[r].inserts
<1>1. /\ run[r].pc = "document" /\ Active(run[r]) /\ run[r] \in RunRecords
      /\ inserts \in Seq(Row) /\ bundle \in Seq(Documents) /\ k \in 1..Len(bundle)
  BY DEF Document, At, Active, IInv, RunsOK, AtRight, RunRecords
<1>2. CASE run' = [run EXCEPT ![r].at = @ + 1] /\ UNCHANGED files
  <2>1. run' = [run EXCEPT ![r] = [run[r] EXCEPT !.at = @ + 1, !.inserts = run[r].inserts]]
    BY <1>1, <1>2 DEF RunRecords
  <2> QED BY <1>1, <1>2, <2>1, NextDocument
<1>3. CASE /\ run' = [run EXCEPT ![r].at = @ + 1, ![r].inserts = Insert(@, bundle[k], k)]
           /\ UNCHANGED files
  <2>1. Insert(inserts, bundle[k], k) \in Seq(Row)
    <3>1. bundle[k] \in Documents /\ k \in Nat
      BY <1>1
    <3> HIDE DEF bundle, k, inserts
    <3> QED BY <1>1, <3>1, InsertType
  <2>2. run' = [run EXCEPT ![r] = [run[r] EXCEPT !.at = @ + 1, !.inserts = Insert(inserts, bundle[k], k)]]
    BY <1>1, <1>3 DEF RunRecords, IInv, RunsOK
  <2> HIDE DEF bundle, k, inserts
  <2> QED BY <1>1, <1>3, <2>1, <2>2, NextDocument
<1>4. CASE files' = WriteFile(Made, r, {}) /\ Goto(r, "transform")
  <2>1. Mine(r) \in Contents /\ Made \in Directories
    BY <1>1, MineType, MadeType
  <2>2. /\ files' \in Directories /\ files' # Null /\ files'.image # Null
        /\ files'.image.open = Writing(Made) /\ files'.image.torn = (Writing(Made) # {})
    <3>1. {} \in SUBSET Runs /\ files' = WriteFile(Made, r, {})
      BY <1>4
    <3> DEFINE dir == Made
               none == {}
               written == files'
    <3>2. written = WriteFile(dir, r, none) /\ dir \in Directories /\ none \in SUBSET Runs
      BY <2>1, <3>1
    <3> HIDE DEF dir, none, written
    <3>3. /\ written \in Directories /\ written # Null /\ written.image # Null
          /\ written.image.open = Writing(dir) \cup none
          /\ written.image.torn = (Writing(dir) # {})
      BY <2>1, <3>2, WriteFileType
    <3> QED BY <3>3 DEF dir, none, written
  <2>3. OpenBy(Made, OthersOpen(r))
    BY <1>1, OpenByOthers, MadeType
  <2>4. Writing(Made) \subseteq OthersOpen(r)
    BY <2>1, <2>3, MadeType DEF Writing, OpenBy
  <2>5. OpenBy(files', OthersOpen(r))
    BY <2>2, <2>4 DEF OpenBy
  <2>6. ~run[r].overlapped => Ready(r, [run[r] EXCEPT !.pc = "transform"], files')
    BY <1>1, <2>2, <2>4, OpenByOthers DEF Ready, Imaging, RunRecords
  <2> QED BY <1>1, <1>4, <2>2, <2>5, <2>6, GotoKeeps DEF Imaging
<1>5. CASE files' = Made /\ Goto(r, "response")
  <2>1. files' \in Directories /\ files' # Null /\ OpenBy(files', OthersOpen(r))
    BY <1>1, <1>5, OpenByOthers, MadeType
  <2>2. Ready(r, [run[r] EXCEPT !.pc = "response"], files')
    BY <1>1, <2>1 DEF Ready, Imaging, RunRecords
  <2> QED BY <1>1, <1>5, <2>1, <2>2, GotoKeeps DEF Imaging
<1>6. CASE files' = Made /\ RoundFails(r, FALSE)
  BY <1>1, <1>6, OpenByOthers, MadeType, RoundFailsKeeps
<1> HIDE DEF bundle, k, inserts
<1> QED BY <1>2, <1>3, <1>4, <1>5, <1>6 DEF Document, bundle, k, inserts

\* The file is opened in the directory that is there.
LEMMA ResponseKeeps ==
  ASSUME IInv, NEW r \in Runs, Response(r) \/ ResponseFails(r) PROVE IInv'
<1>1. /\ run[r].pc = "response" /\ Active(run[r]) /\ run[r] \in RunRecords
      /\ run[r].at \in 1..Len(run[r].bundle)
  BY DEF Response, ResponseFails, At, Active, IInv, RunsOK, AtRight, Imaging
<1>2. files \in {Null} \cup Directories /\ OpenBy(files, OthersOpen(r))
  BY <1>1, OpenByOthers DEF IInv, FilesOK
<1>3. ~run[r].overlapped => files # Null
  BY <1>1 DEF IInv, AloneOK, Ready, Imaging
<1>4. CASE UNCHANGED files /\ RoundFails(r, FALSE)
  BY <1>1, <1>2, <1>4, RoundFailsKeeps
<1>5. CASE UNCHANGED files /\ End(r, "failed")
  BY <1>1, <1>2, <1>5, EndKeeps
<1>6. CASE files = Null /\ UNCHANGED files /\ RoundFails(r, TRUE)
  BY <1>1, <1>2, <1>3, <1>6, RoundFailsKeeps
<1>7. CASE files # Null /\ files' = WriteFile(files, r, {r}) /\ Goto(r, "body")
  <2> DEFINE dir == files
             open == {r}
             written == files'
  <2>1. /\ written = WriteFile(dir, r, open) /\ dir \in Directories /\ open \in SUBSET Runs
        /\ Mine(r) \in Contents
    BY <1>1, <1>2, <1>7, MineType
  <2> HIDE DEF dir, open, written
  <2>2. /\ written \in Directories /\ written # Null /\ written.image # Null
        /\ written.image.open = Writing(dir) \cup open
        /\ written.image.torn = (Writing(dir) # {})
    BY <2>1, WriteFileType
  <2>3. /\ files' \in Directories /\ files' # Null /\ files'.image # Null
        /\ files'.image.open = Writing(files) \cup {r} /\ files'.image.torn = (Writing(files) # {})
    BY <2>2 DEF dir, open, written
  <2>4. Writing(files) \subseteq OthersOpen(r)
    BY <1>2, <1>7 DEF Writing, OpenBy
  <2>5. OpenBy(files', OthersOpen(r) \cup {r})
    BY <2>3, <2>4 DEF OpenBy
  <2>6. ~run[r].overlapped => Ready(r, [run[r] EXCEPT !.pc = "body"], files')
    BY <1>1, <2>3, <2>4, OpenByOthers DEF Ready, Imaging, RunRecords
  <2> QED BY <1>1, <1>7, <2>3, <2>5, <2>6, GotoKeeps DEF Imaging
<1> QED BY <1>4, <1>5, <1>6, <1>7 DEF Response, ResponseFails

\* The file is closed: alone, the run leaves it whole and with nobody writing.
LEMMA BodyKeeps ==
  ASSUME IInv, NEW r \in Runs, BodyEnds(r) \/ BodyFails(r) PROVE IInv'
<1>1. /\ run[r].pc = "body" /\ Active(run[r]) /\ run[r] \in RunRecords
      /\ run[r].at \in 1..Len(run[r].bundle)
  BY DEF BodyEnds, BodyFails, At, Active, IInv, RunsOK, AtRight, Imaging
<1>2. \A cut \in BOOLEAN : /\ CloseFile(r, cut) \in {Null} \cup Directories
                           /\ OpenBy(CloseFile(r, cut), OthersOpen(r))
  BY OpenByOthers, CloseFileType
<1>3. CASE files' = CloseFile(r, TRUE) /\ (RoundFails(r, FALSE) \/ End(r, "failed"))
  <2>1. files' \in {Null} \cup Directories /\ OpenBy(files', OthersOpen(r))
    BY <1>2, <1>3
  <2>2. CASE RoundFails(r, FALSE)
    BY <1>1, <2>1, <2>2, RoundFailsKeeps
  <2>3. CASE End(r, "failed")
    BY <1>1, <2>1, <2>3, EndKeeps
  <2> QED BY <1>3, <2>2, <2>3
<1>4. CASE files' = CloseFile(r, FALSE) /\ Goto(r, "transform")
  <2>1. files' \in {Null} \cup Directories /\ OpenBy(files', OthersOpen(r))
    BY <1>2, <1>4
  <2>2. ASSUME ~run[r].overlapped PROVE Ready(r, [run[r] EXCEPT !.pc = "transform"], files')
    <3>1. /\ files # Null /\ files.image # Null /\ ~files.image.torn /\ files.image.open = {r}
          /\ files \in Directories /\ files.image \in Images
      BY <1>1, <2>2 DEF IInv, AloneOK, FilesOK, Ready, Imaging, Directories
    <3> DEFINE closed == [files.image EXCEPT !.open = @ \ {r}, !.torn = files.image.torn \/ FALSE]
    <3>2. files' = [files EXCEPT !.image = closed]
      BY <1>4, <3>1 DEF CloseFile, Writing, Directories, Images
    <3>3. closed \in Images /\ closed # Null /\ closed.open = {} /\ ~closed.torn
      BY <3>1, NullAssumption DEF Images
    <3> HIDE DEF closed
    <3>4. files' \in Directories /\ files' # Null /\ files'.image = closed
      BY <3>1, <3>2, <3>3, NullAssumption DEF Directories
    <3>5. [run[r] EXCEPT !.pc = "transform"].pc = "transform"
      BY <1>1 DEF RunRecords
    <3> QED BY <3>3, <3>4, <3>5 DEF Ready, Imaging
  <2> QED BY <1>1, <1>4, <2>1, <2>2, GotoKeeps DEF Imaging
<1> QED BY <1>3, <1>4 DEF BodyEnds, BodyFails

\* Whoever has an image in hand has the file it reads, or finds it gone.
LEMMA TransformReadsKeeps ==
  ASSUME IInv, NEW r \in Runs, TransformReads(r) \/ TransformFails(r) PROVE IInv'
<1> DEFINE image == IF files = Null THEN Null ELSE files.image
           whole == image # Null /\ image.open = {} /\ ~image.torn
<1>1. /\ run[r].pc = "transform" /\ Active(run[r]) /\ run[r] \in RunRecords
      /\ run[r].at \in 1..Len(run[r].bundle) /\ UNCHANGED files
  BY DEF TransformReads, TransformFails, At, Active, IInv, RunsOK, AtRight, Imaging
<1>2. files' \in {Null} \cup Directories /\ OpenBy(files', OthersOpen(r))
  BY <1>1, OpenByOthers DEF IInv, FilesOK
<1>3. ~run[r].overlapped => whole /\ Ready(r, run[r], files)
  BY <1>1 DEF IInv, AloneOK, Ready, Imaging
<1>4. CASE RoundFails(r, FALSE)
  BY <1>1, <1>2, <1>4, RoundFailsKeeps
<1>5. CASE ~whole /\ RoundFails(r, TRUE)
  BY <1>1, <1>2, <1>3, <1>5, RoundFailsKeeps
<1>6. ASSUME NEW read \in Contents \cup {Torn},
             run' = [run EXCEPT ![r].read = read, ![r].pc = "encode"]
      PROVE  IInv'
  <2> DEFINE v == [run[r] EXCEPT !.read = read, !.pc = "encode"]
  <2>1. /\ v \in RunRecords /\ v.pc = "encode" /\ v.read = read /\ v.at = run[r].at
        /\ v.bundle = run[r].bundle /\ v.overlapped = run[r].overlapped
        /\ v.missed = run[r].missed
    BY <1>1 DEF RunRecords, PCs
  <2>2. run' = [run EXCEPT ![r] = v]
    BY <1>6 DEF IInv, RunsOK
  <2> HIDE DEF v
  <2>3. AtRight(v) /\ (~run[r].overlapped => ~v.missed)
    BY <1>1, <2>1 DEF AtRight, IInv, FailsOnlyIfOverlapped
  <2>4. ~run[r].overlapped => Ready(r, v, files')
    BY <1>1, <1>3, <2>1, NullAssumption DEF Ready, Imaging
  <2>5. OpenBy(files', OthersOpen(r) \cup IF v.pc = "body" THEN {r} ELSE {})
    BY <1>2, <2>1
  <2> QED BY <1>1, <1>2, <2>1, <2>2, <2>3, <2>4, <2>5, StepKeeps
<1>7. whole => image.of \in Contents
  BY DEF IInv, FilesOK, Directories, Images
<1> HIDE DEF whole
<1> QED BY <1>4, <1>5, <1>6, <1>7 DEF TransformReads, TransformFails, whole

\* What is read is written, as one of the two outputs.
LEMMA TransformWritesKeeps ==
  ASSUME IInv, NEW r \in Runs, TransformWrites(r) PROVE IInv'
<1>1. /\ run[r].pc = "encode" /\ Active(run[r]) /\ run[r] \in RunRecords
      /\ run[r].at \in 1..Len(run[r].bundle)
  BY DEF TransformWrites, At, Active, IInv, RunsOK, AtRight, Imaging
<1>2. files \in {Null} \cup Directories /\ OpenBy(files, OthersOpen(r))
  BY <1>1, OpenByOthers DEF IInv, FilesOK
<1>3. ~run[r].overlapped => files # Null /\ Ready(r, run[r], files)
  BY <1>1 DEF IInv, AloneOK, Ready, Imaging
<1>4. CASE files = Null /\ UNCHANGED files /\ RoundFails(r, TRUE)
  BY <1>1, <1>2, <1>3, <1>4, RoundFailsKeeps
<1>5. CASE /\ files # Null
           /\ files' = [files EXCEPT ![run[r].output] = run[r].read]
           /\ run' = [run EXCEPT ![r].read = Null, ![r].pc = "upload"]
  <2> DEFINE v == [run[r] EXCEPT !.read = Null, !.pc = "upload"]
  <2>1. /\ v \in RunRecords /\ v.pc = "upload" /\ v.at = run[r].at /\ v.output = run[r].output
        /\ v.bundle = run[r].bundle /\ v.overlapped = run[r].overlapped
        /\ v.missed = run[r].missed
    BY <1>1 DEF RunRecords, PCs
  <2>2. run' = [run EXCEPT ![r] = v]
    BY <1>5 DEF IInv, RunsOK
  <2> HIDE DEF v
  <2>3. AtRight(v) /\ (~run[r].overlapped => ~v.missed)
    BY <1>1, <2>1 DEF AtRight, Imaging, IInv, FailsOnlyIfOverlapped
  <2>4. run[r].read \in Contents \cup {Null, Torn} /\ run[r].output \in Outputs
    BY <1>1 DEF RunRecords
  <2>5. /\ files' \in Directories /\ files' # Null /\ files'.image = files.image
        /\ files'[run[r].output] = run[r].read
    BY <1>2, <1>5, <2>4, NullAssumption DEF Directories, Outputs
  <2>6. ~run[r].overlapped => Ready(r, v, files')
    BY <1>1, <1>3, <2>1, <2>5 DEF Ready, Imaging
  <2>7. OpenBy(files', OthersOpen(r) \cup IF v.pc = "body" THEN {r} ELSE {})
    BY <1>2, <1>5, <2>1, <2>5 DEF OpenBy
  <2> QED BY <1>1, <2>1, <2>2, <2>3, <2>5, <2>6, <2>7, StepKeeps
<1> QED BY <1>4, <1>5 DEF TransformWrites

\* The row that has just been made is marked.
LEMMA MarkedType ==
  ASSUME NEW inserts \in Seq(Row), Len(inserts) > 0
  PROVE  [inserts EXCEPT ![Len(inserts)].cached = TRUE] \in Seq(Row)
<1> DEFINE row == [inserts[Len(inserts)] EXCEPT !.cached = TRUE]
<1>1. inserts[Len(inserts)] \in Row
  OBVIOUS
<1>2. row \in Row
  BY <1>1 DEF Row
<1>3. [inserts EXCEPT ![Len(inserts)].cached = TRUE] = [inserts EXCEPT ![Len(inserts)] = row]
  OBVIOUS
<1> HIDE DEF row
<1>4. [inserts EXCEPT ![Len(inserts)] = row] \in Seq(Row)
  BY <1>2
<1> QED BY <1>3, <1>4

\* The directory goes with the thumbnail; alone, nobody else looks for it.
LEMMA UploadKeeps ==
  ASSUME IInv, NEW r \in Runs, Upload(r) \/ UploadFails(r) PROVE IInv'
<1> DEFINE k == run[r].at
           inserts == Insert(run[r].inserts, run[r].bundle[k], k)
           missing == files = Null \/ (files # Null /\ files[run[r].output] = Null)
<1>1. /\ run[r].pc = "upload" /\ Active(run[r]) /\ run[r] \in RunRecords
      /\ k \in 1..Len(run[r].bundle) /\ run[r].bundle \in Seq(Documents)
      /\ run[r].inserts \in Seq(Row)
  BY DEF Upload, UploadFails, At, Active, IInv, RunsOK, AtRight, Imaging, RunRecords
<1>2. files \in {Null} \cup Directories /\ OpenBy(files, OthersOpen(r))
  BY <1>1, OpenByOthers DEF IInv, FilesOK
<1>3. ~run[r].overlapped => ~missing /\ Ready(r, run[r], files)
  BY <1>1 DEF IInv, AloneOK, Ready, Imaging
<1>4. CASE UNCHANGED files /\ RoundFails(r, FALSE)
  BY <1>1, <1>2, <1>4, RoundFailsKeeps
<1>5. CASE missing /\ UNCHANGED files /\ RoundFails(r, TRUE)
  BY <1>1, <1>2, <1>3, <1>5, RoundFailsKeeps
<1>6. CASE /\ UNCHANGED files
           /\ run' = [run EXCEPT ![r].output = "thumb", ![r].pc = "transform"]
  <2> DEFINE v == [run[r] EXCEPT !.output = "thumb", !.pc = "transform"]
  <2>1. /\ v \in RunRecords /\ v.pc = "transform" /\ v.at = run[r].at
        /\ v.bundle = run[r].bundle /\ v.overlapped = run[r].overlapped
        /\ v.missed = run[r].missed
    BY <1>1 DEF RunRecords, PCs, Outputs
  <2>2. run' = [run EXCEPT ![r] = v]
    BY <1>6 DEF IInv, RunsOK
  <2> HIDE DEF v
  <2>3. AtRight(v) /\ (~run[r].overlapped => ~v.missed)
    BY <1>1, <2>1 DEF AtRight, Imaging, IInv, FailsOnlyIfOverlapped
  <2>4. ~run[r].overlapped => Ready(r, v, files')
    BY <1>1, <1>3, <1>6, <2>1 DEF Ready, Imaging
  <2>5. OpenBy(files', OthersOpen(r) \cup IF v.pc = "body" THEN {r} ELSE {})
    BY <1>2, <1>6, <2>1
  <2> QED BY <1>1, <1>2, <1>6, <2>1, <2>2, <2>3, <2>4, <2>5, StepKeeps
<1>7. CASE /\ files' \in {Null, files}
           /\ run' = [run EXCEPT ![r] =
                [@ EXCEPT !.output = "png", !.pc = "document", !.at = k + 1,
                          !.inserts = [inserts EXCEPT ![Len(inserts)].cached = TRUE]]]
  <2> DEFINE marked == [inserts EXCEPT ![Len(inserts)].cached = TRUE]
             v == [run[r] EXCEPT !.output = "png", !.pc = "document", !.at = k + 1,
                                 !.inserts = marked]
  <2>1. marked \in Seq(Row)
    <3>1. run[r].bundle[k] \in Documents /\ k \in Nat
      BY <1>1
    <3> HIDE DEF k
    <3>2. inserts \in Seq(Row) /\ Len(inserts) = Len(run[r].inserts) + 1
      BY <1>1, <3>1, InsertType
    <3> HIDE DEF inserts
    <3>3. Len(inserts) > 0
      BY <1>1, <3>2
    <3> QED BY <3>2, <3>3, MarkedType
  <2>2. run' = [run EXCEPT ![r] = v]
    BY <1>7
  <2> HIDE DEF marked
  <2>3. /\ v \in RunRecords /\ v.pc = "document" /\ v.at = k + 1
        /\ v.overlapped = run[r].overlapped /\ v.missed = run[r].missed
    <3>1. k + 1 \in Nat /\ "png" \in Outputs /\ "document" \in PCs
      BY <1>1 DEF Outputs, PCs
    <3> QED BY <1>1, <2>1, <3>1 DEF RunRecords
  <2> HIDE DEF v
  <2>4. AtRight(v) /\ Ready(r, v, files') /\ (~run[r].overlapped => ~v.missed)
    BY <1>1, <2>3 DEF AtRight, Ready, Imaging, IInv, FailsOnlyIfOverlapped
  <2>5. files' \in {Null} \cup Directories
        /\ OpenBy(files', OthersOpen(r) \cup IF v.pc = "body" THEN {r} ELSE {})
    BY <1>2, <1>7, <2>3 DEF OpenBy
  <2> QED BY <1>1, <2>2, <2>3, <2>4, <2>5, StepKeeps
<1> HIDE DEF missing, inserts
<1>8. CASE ~missing /\ Uploaded(r)
  <2>1. files' \in {Null, files} /\ (run[r].output = "png" => UNCHANGED files)
    BY <1>8 DEF Uploaded, Removes
  <2> QED BY <1>6, <1>7, <1>8, <2>1 DEF Uploaded, inserts
<1> QED BY <1>4, <1>5, <1>8 DEF Upload, UploadFails, missing

\* A write ends the run and leaves the directory.
LEMMA WriteKeeps ==
  ASSUME IInv, NEW r \in Runs, Write(r) PROVE IInv'
<1>1. /\ Active(run[r]) /\ run[r].pc = "document" /\ UNCHANGED files
      /\ End(r, "failed") \/ End(r, "done")
  BY DEF Write, At, Active
<1>2. files' \in {Null} \cup Directories /\ OpenBy(files', OthersOpen(r))
  BY <1>1, OpenByOthers DEF IInv, FilesOK
<1> QED BY <1>1, <1>2, EndKeeps

\* The directory that is made under a run, or made already.
LEMMA ReprocessKeeps ==
  ASSUME IInv, ReprocessImages PROVE IInv'
<1>1. UNCHANGED run /\ files' = Made
  BY DEF ReprocessImages
<1>2. FilesOK'
  BY <1>1, MadeType DEF IInv, FilesOK
<1>3. AloneOK'
  BY <1>1, MadeType DEF IInv, AloneOK, Ready, Imaging
<1> QED BY <1>1, <1>2, <1>3 DEF IInv, RunsOK, FailsOnlyIfOverlapped

\* Nobody is under way any more.
LEMMA KillKeeps ==
  ASSUME IInv, Kill PROVE IInv'
<1>1. \A q \in Runs : /\ run'[q] \in RunRecords /\ ~Active(run'[q])
                      /\ run'[q].pc \in {run[q].pc, "failed"} /\ run'[q].missed = run[q].missed
                      /\ run'[q].overlapped = run[q].overlapped
  <2> TAKE q \in Runs
  <2>1. run[q] \in RunRecords
    BY DEF IInv, RunsOK
  <2>2. CASE ~Active(run[q])
    BY <2>1, <2>2 DEF Kill, Live, Active
  <2>3. CASE Active(run[q])
    <3> DEFINE v == [run[q] EXCEPT !.pc = "failed", !.round = 0, !.bundle = <<>>, !.at = 0,
                                   !.inserts = <<>>, !.read = Null, !.output = "png"]
    <3>1. run'[q] = v
      BY <2>3 DEF Kill, Live, Active
    <3>2. /\ 0 \in 0..(MaxRounds - 1) /\ <<>> \in Seq(Documents) /\ <<>> \in Seq(Row)
          /\ "failed" \in PCs /\ "png" \in Outputs
      BY MetadataBundleAssumption DEF PCs, Outputs
    <3>3. /\ v \in RunRecords /\ v.pc = "failed" /\ v.missed = run[q].missed
          /\ v.overlapped = run[q].overlapped
      BY <2>1, <3>2 DEF RunRecords
    <3> HIDE DEF v
    <3> QED BY <3>1, <3>3 DEF Active
  <2> QED BY <2>2, <2>3
<1>2. run' \in [Runs -> RunRecords]
  BY <1>1 DEF Kill
<1>3. RunsOK'
  BY <1>1, <1>2 DEF IInv, RunsOK, AtRight, Active, Imaging
<1>4. FilesOK'
  <2>1. CASE UNCHANGED files /\ (files = Null \/ Writing(Made) = {})
    BY <2>1 DEF IInv, FilesOK, OpenBy, Made, Writing
  <2>2. CASE /\ files # Null /\ Writing(Made) # {}
             /\ files' = [files EXCEPT !.image.open = {}, !.image.torn = TRUE]
    <3> DEFINE image == [files.image EXCEPT !.open = {}, !.torn = TRUE]
    <3>1. files \in Directories /\ files.image # Null /\ files.image \in Images
      BY <2>2 DEF IInv, FilesOK, Made, Writing, Directories
    <3>2. image \in Images /\ image.open = {} /\ image # Null
      BY <3>1, NullAssumption DEF Images
    <3>3. files' = [files EXCEPT !.image = image]
      BY <2>2, <3>1 DEF Directories, Images
    <3> HIDE DEF image
    <3>4. files' \in Directories /\ files'.image = image
      BY <3>1, <3>2, <3>3 DEF Directories
    <3> QED BY <3>2, <3>4 DEF FilesOK, OpenBy
  <2> QED BY <2>1, <2>2 DEF Kill
<1> QED BY <1>1, <1>3, <1>4 DEF IInv, AloneOK, FailsOnlyIfOverlapped

-----------------------------------------------------------------------------
(* The invariant holds at first, and every step keeps it.                   *)

LEMMA InitOK ==
  ASSUME Init PROVE IInv
<1> DEFINE v == [pc |-> "idle", round |-> 0, bundle |-> <<>>, at |-> 0, inserts |-> <<>>,
                 output |-> "png", read |-> Null, timedOut |-> FALSE,
                 overlapped |-> FALSE, missed |-> FALSE]
<1>1. /\ 0 \in 0..(MaxRounds - 1) /\ <<>> \in Seq(Documents) /\ <<>> \in Seq(Row)
  BY MetadataBundleAssumption
<1>2. v \in RunRecords /\ v.pc = "idle" /\ ~v.missed
  BY <1>1 DEF RunRecords, PCs, Outputs
<1>3. run = [r \in Runs |-> v] /\ files = Null
  BY DEF Init
<1> HIDE DEF v
<1> QED BY <1>2, <1>3 DEF IInv, RunsOK, AtRight, Imaging, FilesOK, OpenBy, AloneOK, Active,
                          FailsOnlyIfOverlapped

LEMMA NextKeeps ==
  ASSUME IInv, [Next]_vars PROVE IInv'
<1>1. CASE UNCHANGED vars
  BY <1>1 DEF vars, IInv, RunsOK, FilesOK, AloneOK, FailsOnlyIfOverlapped
<1>2. CASE ReprocessImages \/ Kill
  BY <1>2, ReprocessKeeps, KillKeeps
<1>3. ASSUME NEW r \in Runs,
             \/ Start(r) \/ TimeOut(r) \/ Fetch(r) \/ FetchFails(r) \/ Document(r)
             \/ Response(r) \/ ResponseFails(r) \/ BodyEnds(r) \/ BodyFails(r)
             \/ TransformReads(r) \/ TransformFails(r) \/ TransformWrites(r)
             \/ Upload(r) \/ UploadFails(r) \/ Write(r)
      PROVE  IInv'
  BY <1>3, StartKeeps, TimeOutKeeps, FetchKeeps, DocumentKeeps, ResponseKeeps, BodyKeeps,
     TransformReadsKeeps, TransformWritesKeeps, UploadKeeps, WriteKeeps
<1> QED BY <1>1, <1>2, <1>3 DEF Next

\* However many runs of a token there are, whatever they fetch and wherever they are
\* timed out or killed, a run that no other overlapped never finds a file of its own
\* missing or spoilt (image-cache.ts:123-147).
THEOREM OnlyOverlapLosesFiles == Spec => []FailsOnlyIfOverlapped
<1>1. IInv => FailsOnlyIfOverlapped
  BY DEF IInv
<1> QED BY InitOK, NextKeeps, <1>1, PTL DEF Spec

-----------------------------------------------------------------------------
(* The bucket: an object that is there is not removed, and a row is marked when  *)
(* both are.                                                                *)

HasCached(inserts) == \E i \in DOMAIN inserts : inserts[i].cached
Both == \A output \in Outputs : bucket[output] # Null
\* What a run holds is in the bucket.
Stored(v) ==
  /\ HasCached(v.inserts) => Both
  /\ v.output = "thumb" => bucket["png"] # Null

BucketType == bucket \in [Outputs -> Contents \cup {Null, Torn}]
RowsType == rows \in [run : Runs \cup {Null}, round : Nat, bundle : Seq(Documents), inserts : Seq(Row)]
BucketInv ==
  /\ BucketType /\ RowsType
  /\ HasCached(rows.inserts) => Both
  /\ \A r \in Runs : Stored(run[r])

\* What a run holds after a step that marks no row and puts nothing in the bucket.
Held(w, v) ==
  /\ HasCached(v.inserts) => HasCached(w.inserts)
  /\ v.output \in {w.output, "png"}

\* A step that marks no row and leaves the bucket alone.
LEMMA HeldKeeps ==
  ASSUME BucketInv, UNCHANGED <<bucket, rows>>, \A q \in Runs : Held(run[q], run'[q])
  PROVE  BucketInv'
<1>1. \A q \in Runs : Stored(run'[q])
  BY DEF BucketInv, Held, Stored
<1>2. \A q \in Runs : Stored(run[q])'
  BY <1>1 DEF Stored, Both
<1> QED BY <1>2 DEF BucketInv, BucketType, RowsType, Both

\* The step of one run.
LEMMA OneHeldKeeps ==
  ASSUME IInv, BucketInv, UNCHANGED <<bucket, rows>>, NEW r \in Runs, NEW v,
         run' = [run EXCEPT ![r] = v], Held(run[r], v)
  PROVE  BucketInv'
<1>1. \A q \in Runs : run'[q] = IF q = r THEN v ELSE run[q]
  BY DEF IInv, RunsOK
<1>2. \A q \in Runs : Held(run[q], run[q])
  BY DEF Held
<1> QED BY <1>1, <1>2, HeldKeeps

\* A round that fails and a run that ends have nothing in hand.
LEMMA DropsHeld ==
  ASSUME IInv, NEW r \in Runs,
         (\E missed \in BOOLEAN : RoundFails(r, missed)) \/ (\E pc \in PCs : End(r, pc))
  PROVE  \E v : run' = [run EXCEPT ![r] = v] /\ Held(run[r], v)
<1>1. run[r] \in RunRecords /\ ~HasCached(<<>>)
  BY DEF IInv, RunsOK, HasCached
<1>2. ASSUME NEW missed \in BOOLEAN, RoundFails(r, missed)
      PROVE  \E v : run' = [run EXCEPT ![r] = v] /\ Held(run[r], v)
  <2>1. run' = [run EXCEPT ![r] = run'[r]]
    BY <1>2 DEF RoundFails, IInv, RunsOK
  <2>2. run'[r].inserts = <<>> /\ run'[r].output = "png"
    BY <1>1, <1>2 DEF RoundFails, IInv, RunsOK, RunRecords
  <2> QED BY <1>1, <2>1, <2>2 DEF Held
<1>3. ASSUME NEW pc \in PCs, End(r, pc)
      PROVE  \E v : run' = [run EXCEPT ![r] = v] /\ Held(run[r], v)
  <2>1. run' = [run EXCEPT ![r] = run'[r]]
    BY <1>3 DEF End, IInv, RunsOK
  <2>2. run'[r].inserts = <<>> /\ run'[r].output = "png"
    BY <1>1, <1>3 DEF End, IInv, RunsOK, RunRecords
  <2> QED BY <1>1, <2>1, <2>2 DEF Held
<1> QED BY <1>2, <1>3

\* Every step but an upload and a write marks no row and leaves the bucket alone.
LEMMA MostStepsHeld ==
  ASSUME IInv, BucketInv, NEW r \in Runs,
         \/ Start(r) \/ TimeOut(r) \/ Fetch(r) \/ FetchFails(r)
         \/ Document(r) \/ Response(r) \/ ResponseFails(r) \/ BodyEnds(r) \/ BodyFails(r)
         \/ TransformReads(r) \/ TransformFails(r) \/ TransformWrites(r) \/ UploadFails(r)
  PROVE  BucketInv'
<1>1. UNCHANGED <<bucket, rows>>
  BY DEF Start, TimeOut, Fetch, FetchFails, Document, Response, ResponseFails, BodyEnds,
         BodyFails, TransformReads, TransformFails, TransformWrites, UploadFails
<1>2. run \in [Runs -> RunRecords] /\ run[r] \in RunRecords
  BY DEF IInv, RunsOK
<1>3. ASSUME (\E missed \in BOOLEAN : RoundFails(r, missed)) \/ (\E pc \in PCs : End(r, pc))
      PROVE  BucketInv'
  BY <1>1, <1>3, DropsHeld, OneHeldKeeps
<1>4. CASE RoundFails(r, FALSE) \/ RoundFails(r, TRUE) \/ End(r, "failed")
  BY <1>3, <1>4 DEF PCs
<1>5. ASSUME NEW pc \in PCs, Goto(r, pc) PROVE BucketInv'
  <2> DEFINE v == [run[r] EXCEPT !.pc = pc]
  <2>1. run' = [run EXCEPT ![r] = v]
    BY <1>5 DEF Goto
  <2>2. v.inserts = run[r].inserts /\ v.output = run[r].output
    BY <1>2 DEF RunRecords
  <2> HIDE DEF v
  <2> QED BY <1>1, <2>1, <2>2, OneHeldKeeps DEF Held
<1>6. CASE Start(r)
  <2>1. \A q \in Runs : run[q] \in RunRecords
    BY <1>2
  <2>2. \A q \in Runs : run'[q].inserts = run[q].inserts /\ run'[q].output = run[q].output
    BY <1>6, <2>1 DEF Start, RunRecords
  <2>3. \A q \in Runs : Held(run[q], run'[q])
    BY <2>2 DEF Held
  <2> QED BY <1>1, <2>3, HeldKeeps
<1>7. CASE TimeOut(r)
  <2> DEFINE v == [run[r] EXCEPT !.timedOut = TRUE]
  <2>1. run' = [run EXCEPT ![r] = v]
    BY <1>7 DEF TimeOut
  <2>2. v.inserts = run[r].inserts /\ v.output = run[r].output
    BY <1>2 DEF RunRecords
  <2> HIDE DEF v
  <2> QED BY <1>1, <2>1, <2>2, OneHeldKeeps DEF Held
<1>8. ASSUME NEW bundle,
             run' = [run EXCEPT ![r] = [@ EXCEPT !.pc = "document", !.bundle = bundle, !.at = 1]]
      PROVE  BucketInv'
  <2> DEFINE v == [run[r] EXCEPT !.pc = "document", !.bundle = bundle, !.at = 1]
  <2>1. run' = [run EXCEPT ![r] = v]
    BY <1>8
  <2>2. v.inserts = run[r].inserts /\ v.output = run[r].output
    BY <1>2 DEF RunRecords
  <2> HIDE DEF v
  <2> QED BY <1>1, <2>1, <2>2, OneHeldKeeps DEF Held
<1>9. ASSUME NEW read, NEW pc, run' = [run EXCEPT ![r].read = read, ![r].pc = pc]
      PROVE  BucketInv'
  <2> DEFINE v == [run[r] EXCEPT !.read = read, !.pc = pc]
  <2>1. run' = [run EXCEPT ![r] = v]
    BY <1>2, <1>9
  <2>2. v.inserts = run[r].inserts /\ v.output = run[r].output
    BY <1>2 DEF RunRecords
  <2> HIDE DEF v
  <2> QED BY <1>1, <2>1, <2>2, OneHeldKeeps DEF Held
<1>10. CASE Document(r)
  <2> DEFINE k == run[r].at
             inserts == Insert(run[r].inserts, run[r].bundle[k], k)
  <2>1. CASE run' = [run EXCEPT ![r].at = @ + 1]
    <3> DEFINE v == [run[r] EXCEPT !.at = @ + 1]
    <3>1. run' = [run EXCEPT ![r] = v]
      BY <2>1
    <3>2. v.inserts = run[r].inserts /\ v.output = run[r].output
      BY <1>2 DEF RunRecords
    <3> HIDE DEF v
    <3> QED BY <1>1, <3>1, <3>2, OneHeldKeeps DEF Held
  <2>2. CASE run' = [run EXCEPT ![r].at = @ + 1, ![r].inserts = Insert(@, run[r].bundle[k], k)]
    <3> DEFINE v == [run[r] EXCEPT !.at = @ + 1, !.inserts = inserts]
    <3>1. run' = [run EXCEPT ![r] = v]
      BY <1>2, <2>2 DEF RunRecords
    <3>2. v.inserts = inserts /\ v.output = run[r].output
      BY <1>2 DEF RunRecords
    <3>3. run[r].inserts \in Seq(Row) /\ run[r].bundle[k] \in Documents /\ k \in Nat
      BY <1>2, <1>10 DEF Document, At, RunRecords, IInv, RunsOK, AtRight
    <3> HIDE DEF v
    <3>4. HasCached(inserts) => HasCached(run[r].inserts)
      BY <3>3, InsertType DEF HasCached
    <3> QED BY <1>1, <3>1, <3>2, <3>4, OneHeldKeeps DEF Held
  <2>3. "transform" \in PCs /\ "response" \in PCs
    BY DEF PCs
  <2> QED BY <1>4, <1>5, <1>10, <2>1, <2>2, <2>3 DEF Document
<1>11. "body" \in PCs /\ "transform" \in PCs
  BY DEF PCs
<1> QED BY <1>4, <1>5, <1>6, <1>7, <1>8, <1>9, <1>10, <1>11
        DEF Fetch, FetchFails, Response, ResponseFails, BodyEnds, BodyFails, TransformReads,
            TransformFails, TransformWrites, UploadFails

\* The thumbnail is uploaded once the image is, and only then is the row marked.
LEMMA UploadHeld ==
  ASSUME IInv, BucketInv, NEW r \in Runs, Upload(r) PROVE BucketInv'
<1> DEFINE k == run[r].at
           inserts == Insert(run[r].inserts, run[r].bundle[k], k)
           output == run[r].output
           missing == files = Null \/ (files # Null /\ files[output] = Null)
<1>1. /\ run[r] \in RunRecords /\ run[r].pc = "upload" /\ UNCHANGED rows
      /\ k \in 1..Len(run[r].bundle) /\ run[r].bundle \in Seq(Documents)
      /\ run[r].inserts \in Seq(Row) /\ output \in Outputs
  BY DEF Upload, At, IInv, RunsOK, RunRecords, AtRight, Imaging
<1>2. CASE RoundFails(r, TRUE) /\ UNCHANGED bucket
  BY <1>1, <1>2, DropsHeld, OneHeldKeeps
<1>3. CASE ~missing /\ bucket' = [bucket EXCEPT ![output] = files[output]] /\ Uploaded(r)
  <2>1. files \in Directories /\ files[output] \in Contents \cup {Torn} /\ files[output] # Null
    BY <1>1, <1>3 DEF IInv, FilesOK, Directories, Outputs
  <2>2. /\ bucket' \in [Outputs -> Contents \cup {Null, Torn}]
        /\ bucket'[output] # Null
        /\ \A o \in Outputs : bucket[o] # Null => bucket'[o] # Null
    BY <1>1, <1>3, <2>1 DEF BucketInv, BucketType
  <2>3. Both => Both'
    BY <2>2 DEF Both
  <2>4. \A w : Stored(w) => (HasCached(w.inserts) => Both') /\ (w.output = "thumb" => bucket'["png"] # Null)
    BY <2>2, <2>3 DEF Stored, Outputs
  <2>5. ASSUME NEW v, run' = [run EXCEPT ![r] = v],
               HasCached(v.inserts) => Both', v.output = "thumb" => bucket'["png"] # Null
        PROVE  BucketInv'
    <3>1. \A q \in Runs : run'[q] = IF q = r THEN v ELSE run[q]
      BY <2>5 DEF IInv, RunsOK
    <3>2. \A q \in Runs : /\ HasCached(run'[q].inserts) => Both'
                          /\ run'[q].output = "thumb" => bucket'["png"] # Null
      BY <2>4, <2>5, <3>1 DEF BucketInv
    <3>3. \A q \in Runs : Stored(run[q])'
      BY <3>2 DEF Stored
    <3>4. RowsType' /\ (HasCached(rows.inserts) => Both)'
      BY <1>1, <2>3 DEF BucketInv, RowsType
    <3> QED BY <2>2, <3>3, <3>4 DEF BucketInv, BucketType
  <2>6. CASE output = "png" /\ run' = [run EXCEPT ![r].output = "thumb", ![r].pc = "transform"]
    <3> DEFINE v == [run[r] EXCEPT !.output = "thumb", !.pc = "transform"]
    <3>1. run' = [run EXCEPT ![r] = v]
      BY <2>6 DEF IInv, RunsOK
    <3>2. v.inserts = run[r].inserts
      BY <1>1 DEF RunRecords
    <3>3. Stored(run[r])
      BY DEF BucketInv
    <3> HIDE DEF v
    <3> QED BY <2>2, <2>4, <2>5, <2>6, <3>1, <3>2, <3>3
  <2>7. CASE /\ output = "thumb"
             /\ run' = [run EXCEPT ![r] =
                  [@ EXCEPT !.output = "png", !.pc = "document", !.at = k + 1,
                            !.inserts = [inserts EXCEPT ![Len(inserts)].cached = TRUE]]]
    <3>1. Both'
      <4>1. bucket["png"] # Null
        BY <2>7 DEF BucketInv, Stored
      <4> QED BY <2>2, <2>7, <4>1 DEF Both, Outputs
    <3> DEFINE v == [run[r] EXCEPT !.output = "png", !.pc = "document", !.at = k + 1,
                              !.inserts = [inserts EXCEPT ![Len(inserts)].cached = TRUE]]
    <3>2. run' = [run EXCEPT ![r] = v]
      BY <2>7
    <3>3. v.output = "png"
      BY <1>1 DEF RunRecords
    <3> HIDE DEF v
    <3> QED BY <2>5, <3>1, <3>2, <3>3
  <2> HIDE DEF k, inserts
  <2> QED BY <1>3, <2>6, <2>7 DEF Uploaded, k, inserts
<1> HIDE DEF missing
<1> QED BY <1>2, <1>3 DEF Upload, missing

\* What is written is marked only if both objects are there.
LEMMA WriteHeld ==
  ASSUME IInv, BucketInv, NEW r \in Runs, Write(r) PROVE BucketInv'
<1>1. /\ run[r] \in RunRecords /\ UNCHANGED bucket /\ "done" \in PCs /\ "failed" \in PCs
      /\ End(r, "failed") \/ End(r, "done")
  BY DEF Write, IInv, RunsOK, PCs
<1>2. PICK v : run' = [run EXCEPT ![r] = v] /\ Held(run[r], v)
  BY <1>1, DropsHeld
<1>3. CASE UNCHANGED rows
  BY <1>1, <1>2, <1>3, OneHeldKeeps
<1>4. CASE rows' = [run |-> r, round |-> run[r].round, bundle |-> run[r].bundle,
                    inserts |-> run[r].inserts]
  <2>1. RowsType'
    BY <1>1, <1>4, MetadataBundleAssumption DEF RowsType, RunRecords
  <2>2. HasCached(rows'.inserts) => Both'
    BY <1>1, <1>4 DEF BucketInv, Stored, Both
  <2>3. \A q \in Runs : Stored(run'[q])
    BY <1>2 DEF BucketInv, Held, Stored, IInv, RunsOK
  <2>4. \A q \in Runs : Stored(run[q])'
    BY <1>1, <2>3 DEF Stored, Both
  <2> QED BY <1>1, <2>1, <2>2, <2>4 DEF BucketInv, BucketType
<1> QED BY <1>3, <1>4 DEF Write

\* What dies has marked no row, and nothing else touches the bucket.
LEMMA KillHeld ==
  ASSUME IInv, BucketInv, Kill \/ ReprocessImages \/ UNCHANGED vars PROVE BucketInv'
<1>1. UNCHANGED <<bucket, rows>>
  BY DEF Kill, ReprocessImages, vars
<1>2. \A q \in Runs : run[q] \in RunRecords
  BY DEF IInv, RunsOK
<1>3. ~HasCached(<<>>)
  BY DEF HasCached
<1>4. ASSUME UNCHANGED run, NEW q \in Runs PROVE Held(run[q], run'[q])
  BY <1>4 DEF Held
<1>5. ASSUME Kill, NEW q \in Runs PROVE Held(run[q], run'[q])
  <2>1. CASE ~Live(q)
    BY <1>5, <2>1 DEF Kill, Held
  <2>2. CASE Live(q)
    <3> DEFINE v == [run[q] EXCEPT !.pc = "failed", !.round = 0, !.bundle = <<>>, !.at = 0,
                                   !.inserts = <<>>, !.read = Null, !.output = "png"]
    <3>1. run'[q] = v
      BY <1>5, <2>2 DEF Kill
    <3>2. v.inserts = <<>> /\ v.output = "png"
      BY <1>2 DEF RunRecords
    <3> HIDE DEF v
    <3> QED BY <1>3, <3>1, <3>2 DEF Held
  <2> QED BY <2>1, <2>2
<1>6. \A q \in Runs : Held(run[q], run'[q])
  BY <1>4, <1>5 DEF ReprocessImages, vars
<1> QED BY <1>1, <1>6, HeldKeeps

LEMMA BucketInit ==
  ASSUME Init PROVE BucketInv
<1>1. RowsType /\ BucketType /\ ~HasCached(rows.inserts)
  BY DEF Init, RowsType, BucketType, HasCached
<1>2. \A r \in Runs : ~HasCached(run[r].inserts) /\ run[r].output = "png"
  <2>1. ~HasCached(<<>>)
    BY DEF HasCached
  <2>2. \A r \in Runs : run[r].inserts = <<>> /\ run[r].output = "png"
    BY DEF Init
  <2> QED BY <2>1, <2>2
<1> QED BY <1>1, <1>2 DEF BucketInv, Stored

LEMMA NextHeld ==
  ASSUME IInv, BucketInv, [Next]_vars PROVE BucketInv'
<1>1. CASE UNCHANGED vars \/ ReprocessImages \/ Kill
  BY <1>1, KillHeld
<1>2. ASSUME NEW r \in Runs,
             \/ Start(r) \/ TimeOut(r) \/ Fetch(r) \/ FetchFails(r) \/ Document(r)
             \/ Response(r) \/ ResponseFails(r) \/ BodyEnds(r) \/ BodyFails(r)
             \/ TransformReads(r) \/ TransformFails(r) \/ TransformWrites(r)
             \/ Upload(r) \/ UploadFails(r) \/ Write(r)
      PROVE  BucketInv'
  BY <1>2, MostStepsHeld, UploadHeld, WriteHeld
<1> QED BY <1>1, <1>2 DEF Next

\* The state keeps its shape, and a run makes no more rounds than it may.
THEOREM TypeCorrect == Spec => []TypeOK
<1>1. IInv /\ BucketInv => TypeOK
  BY DEF IInv, RunsOK, FilesOK, BucketInv, BucketType, RowsType, TypeOK
<1> QED BY InitOK, NextKeeps, BucketInit, NextHeld, <1>1, PTL DEF Spec

\* No overlap, failure or death of a run leaves a row that names an image or a
\* thumbnail that is not in the bucket (image-cache.ts:135-151).
THEOREM NamedImagesExist == Spec => []CachedImagesExist
<1>1. IInv /\ BucketInv => CachedImagesExist
  BY DEF BucketInv, HasCached, Both, CachedImagesExist
<1> QED BY InitOK, NextKeeps, BucketInit, NextHeld, <1>1, PTL DEF Spec

=============================================================================
