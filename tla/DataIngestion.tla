---------------------------- MODULE DataIngestion ----------------------------
(***************************************************************************)
(* Importing market data sets (data_ingestion/service.py, lobster.py and   *)
(* the publication half of itch.py): requests claim a candidate, background*)
(* tasks convert it into a directory under the processed root, listing     *)
(* reads the root without a lock, and a data set is deleted after a look   *)
(* at what the Arena has loaded.  The process may be restarted at any step.*)
(*                                                                         *)
(* A data set is one window of one candidate; its directory is the set of  *)
(* its files that are there ("data", "manifest").  Temporary directories   *)
(* are kept apart; the listing does not tell them from the final ones.     *)
(***************************************************************************)
EXTENDS Naturals, FiniteSets, Sequences

CONSTANTS
    Requests,     \* threads that serve an import or a delete request
    MaxCrashes,   \* bound on restarts
    MaxPairRows,  \* bound on the rows of a LOBSTER pair
    MaxPairStamp  \* bound on its timestamps

DataSets == {"full", "part"}
Whole == {"data", "manifest"}
Nobody == "nobody"

ASSUME IngestionAssumption ==
    /\ MaxCrashes \in Nat /\ MaxPairRows \in Nat /\ MaxPairStamp \in Nat
    /\ Requests \cap {Nobody, "importer"} = {}

VARIABLES
    final,     \* [DataSets -> set of files]: the data set's own directory
    temp,      \* [DataSets -> set of files]: the running import's temporary directory
    left,      \* [DataSets -> Seq(set of files)]: those with a manifest that a restart left
    job,       \* the candidate's entry in _jobs: none, importing or failed
    importer,  \* the background task: [pc, window], or idle
    lock,      \* holder of _import_lock
    request,   \* [Requests -> [pc, window]]
    loaded,    \* the data set the Arena has loaded, or none
    torn,      \* data sets whose deletion a restart cut short
    deleted,   \* data sets whose last deletion was reported as done
    pair,      \* the LOBSTER source: its rows, and whether both files end together
    restarts

ingestVars == <<final, temp, left, job, importer, lock, request, loaded, torn, deleted, pair, restarts>>

None == "none"
Idle == [pc |-> "idle", window |-> None]

PairRows == [time : 0..MaxPairStamp, good : BOOLEAN]

IngestInit ==
    /\ final = [w \in DataSets |-> {}] /\ temp = [w \in DataSets |-> {}]
    /\ left = [w \in DataSets |-> <<>>]
    /\ job = None /\ importer = Idle /\ lock = Nobody
    /\ request = [r \in Requests |-> Idle]
    /\ loaded = None /\ torn = {} /\ deleted = {} /\ restarts = 0
    /\ \E n \in 0..MaxPairRows : \E rows \in [1..n -> PairRows], even \in BOOLEAN :
         pair = [rows |-> rows, even |-> even]

(***************************************************************************)
(* A LOBSTER pair.  A row's "good" stands for everything that can be wrong *)
(* in one message and one book: its columns, its sentinels, its order of   *)
(* levels, its change against the row before, its order's life.            *)
(***************************************************************************)
WindowOf(w) == IF w = "full" THEN <<0, MaxPairStamp + 1>> ELSE <<1, MaxPairStamp>>

Inside(row, w) == WindowOf(w)[1] <= row.time /\ row.time < WindowOf(w)[2]

(* validate_pair: every row is read, inside the window or not.             *)
Report(w) ==
    [valid |-> /\ \A i \in DOMAIN pair.rows : pair.rows[i].good
               /\ \A i \in DOMAIN pair.rows : i > 1 => pair.rows[i - 1].time <= pair.rows[i].time
               /\ pair.even
               /\ \E i \in DOMAIN pair.rows : Inside(pair.rows[i], w),
     count |-> Cardinality({i \in DOMAIN pair.rows : Inside(pair.rows[i], w)})]

(* convert_pair's own reading: it skips what is before the window and      *)
(* stops at the first row after it.  The rows it writes, by position.      *)
ConvertedRows(w) ==
    LET past == {i \in DOMAIN pair.rows : pair.rows[i].time >= WindowOf(w)[2]}
        read == IF past = {} THEN Len(pair.rows) ELSE (CHOOSE i \in past : \A j \in past : i <= j) - 1
    IN  {i \in 1..read : Inside(pair.rows[i], w)}

(***************************************************************************)
(* Listing and claiming.                                                   *)
(***************************************************************************)
(* iter_manifests: a window is listed when some directory has its manifest.*)
Listed(w) ==
    "manifest" \in final[w] \cup temp[w] \/ \E i \in DOMAIN left[w] : "manifest" \in left[w][i]

Go(r, pc, w) == request' = [request EXCEPT ![r] = [pc |-> pc, window |-> w]]

(* The first half of begin_import: the candidate's status is read; a full  *)
(* window that is there already is answered without a task.                *)
BeginImport(r, w) ==
    /\ request[r].pc = "idle"
    /\ IF w = "full" /\ Listed(w) THEN UNCHANGED request ELSE Go(r, "claim", w)
    /\ UNCHANGED <<final, temp, left, job, importer, lock, loaded, torn, deleted, pair, restarts>>

(* The second half, under _job_lock: one import of a candidate at a time,  *)
(* whatever its window.                                                    *)
ClaimImport(r) ==
    /\ request[r].pc = "claim"
    /\ Go(r, "idle", None)
    /\ IF job = "importing" THEN UNCHANGED <<job, importer>>
       ELSE /\ job' = "importing"
            /\ importer' = [pc |-> "acquire", window |-> request[r].window]
    /\ UNCHANGED <<final, temp, left, lock, loaded, torn, deleted, pair, restarts>>

(***************************************************************************)
(* execute_import, import_candidate and the conversion.                    *)
(***************************************************************************)
AcquireImport ==
    /\ importer.pc = "acquire" /\ lock = Nobody
    /\ lock' = "importer" /\ importer' = [importer EXCEPT !.pc = "convert"]
    /\ UNCHANGED <<final, temp, left, job, request, loaded, torn, deleted, pair, restarts>>

EndImport(outcome) ==
    /\ job' = outcome /\ importer' = Idle /\ lock' = Nobody

(* The pair is validated; a data set with a manifest is returned as it is. *)
Convert ==
    /\ importer.pc = "convert"
    /\ IF ~Report(importer.window).valid THEN EndImport("failed")
       ELSE IF "manifest" \in final[importer.window] THEN EndImport(None)
       ELSE /\ importer' = [importer EXCEPT !.pc = "write"]
            /\ UNCHANGED <<job, lock>>
    /\ deleted' = IF importer'.pc = "write" THEN deleted \ {importer.window} ELSE deleted
    /\ UNCHANGED <<final, temp, left, request, loaded, torn, pair, restarts>>

WriteInPlace ==
    /\ importer.pc \in {"write", "seal"}
    /\ final' = [final EXCEPT ![importer.window] =
                   @ \cup {IF importer.pc = "write" THEN "manifest" ELSE "data"}]
    /\ importer' = [importer EXCEPT !.pc = IF @ = "write" THEN "seal" ELSE "rename"]
    /\ UNCHANGED <<temp, left, job, lock, request, loaded, torn, deleted, pair, restarts>>

(* The files are written to a temporary directory, the manifest last.      *)
WriteTemporary ==
    /\ importer.pc \in {"write", "seal"}
    /\ temp' = [temp EXCEPT ![importer.window] =
                  @ \cup {IF importer.pc = "write" THEN "data" ELSE "manifest"}]
    /\ importer' = [importer EXCEPT !.pc = IF @ = "write" THEN "seal" ELSE "rename"]
    /\ UNCHANGED <<final, left, job, lock, request, loaded, torn, deleted, pair, restarts>>

(* A failure on the way removes this import's temporary directory.         *)
ConversionFails ==
    /\ importer.pc \in {"write", "seal"}
    /\ temp' = [temp EXCEPT ![importer.window] = {}]
    /\ EndImport("failed")
    /\ UNCHANGED <<final, left, request, loaded, torn, deleted, pair, restarts>>

(* The rename: it fails when the target is there and not empty.            *)
Publish ==
    LET w == importer.window
    IN  /\ importer.pc = "rename"
        /\ temp' = [temp EXCEPT ![w] = {}]
        /\ IF final[w] = {}
           THEN final' = [final EXCEPT ![w] = temp[w]] /\ EndImport(None)
           ELSE UNCHANGED final /\ EndImport("failed")
        /\ UNCHANGED <<left, request, loaded, torn, deleted, pair, restarts>>

(***************************************************************************)
(* Deleting.                                                               *)
(***************************************************************************)
(* The Arena's state is read first, and nothing holds it still afterwards. *)
BeginDelete(r, w) ==
    /\ request[r].pc = "idle" /\ loaded # w
    /\ Go(r, "delete", w)
    /\ UNCHANGED <<final, temp, left, job, importer, lock, loaded, torn, deleted, pair, restarts>>

(* Under the import lock the first listed directory of the data set is     *)
(* chosen: a temporary one that was left behind sorts first.               *)
ChooseDirectory(r) ==
    LET w == request[r].window
    IN  /\ request[r].pc = "delete" /\ lock = Nobody
        /\ IF Listed(w)
           THEN Go(r, IF left[w] # <<>> THEN "remove_left" ELSE "remove", w) /\ lock' = r
           ELSE Go(r, "idle", None) /\ UNCHANGED lock
        /\ UNCHANGED <<final, temp, left, job, importer, loaded, torn, deleted, pair, restarts>>

Removing(r) == request[r].pc \in {"remove", "remove_left"}
Doomed(r) == IF request[r].pc = "remove" THEN final[request[r].window] ELSE Head(left[request[r].window])

(* rmtree removes the files one by one, in the order the directory has.    *)
RemoveFile(r) ==
    LET w == request[r].window
    IN  /\ Removing(r)
        /\ \E f \in Doomed(r) :
             IF request[r].pc = "remove"
             THEN final' = [final EXCEPT ![w] = @ \ {f}] /\ UNCHANGED left
             ELSE left' = [left EXCEPT ![w][1] = @ \ {f}] /\ UNCHANGED final
        /\ UNCHANGED <<temp, job, importer, lock, request, loaded, torn, deleted, pair, restarts>>

Deleted(r) ==
    LET w == request[r].window
    IN  /\ Removing(r) /\ Doomed(r) = {}
        /\ left' = IF request[r].pc = "remove" THEN left ELSE [left EXCEPT ![w] = Tail(@)]
        /\ lock' = Nobody /\ Go(r, "idle", None)
        /\ deleted' = deleted \cup {w}
        /\ torn' = IF final[w] = {} /\ left'[w] = <<>> THEN torn \ {w} ELSE torn
        /\ UNCHANGED <<final, temp, job, importer, loaded, pair, restarts>>

(* The Arena loads a listed data set, or another source (external).        *)
ArenaLoads(w) ==
    /\ IF w = None THEN TRUE ELSE Listed(w)
    /\ loaded' = w
    /\ UNCHANGED <<final, temp, left, job, importer, lock, request, torn, deleted, pair, restarts>>

(* The backend is restarted: its locks, jobs and tasks are gone, the files *)
(* stay as they are.  Only a directory with a manifest matters from then   *)
(* on, and only the first can have lost its own, to a deletion cut short.  *)
Restart ==
    LET kept(w) == IF left[w] # <<>> /\ "manifest" \notin Head(left[w]) THEN Tail(left[w]) ELSE left[w]
        listedLeft(w) == IF "manifest" \in temp[w] THEN Append(kept(w), temp[w]) ELSE kept(w)
    IN  /\ restarts < MaxCrashes /\ restarts' = restarts + 1
        /\ job' = None /\ importer' = Idle /\ lock' = Nobody
        /\ request' = [r \in Requests |-> Idle]
        /\ temp' = [w \in DataSets |-> {}] /\ left' = [w \in DataSets |-> listedLeft(w)]
        /\ torn' = torn \cup {request[r].window : r \in {q \in Requests : Removing(q)}}
        /\ UNCHANGED <<final, loaded, deleted, pair>>

IngestNext ==
    \/ \E r \in Requests, w \in DataSets : BeginImport(r, w) \/ BeginDelete(r, w)
    \/ \E r \in Requests : ClaimImport(r) \/ ChooseDirectory(r) \/ RemoveFile(r) \/ Deleted(r)
    \/ AcquireImport \/ Convert \/ WriteTemporary \/ ConversionFails \/ Publish
    \/ \E w \in DataSets \cup {None} : ArenaLoads(w)
    \/ Restart

IngestSpec == IngestInit /\ [][IngestNext]_ingestVars

(***************************************************************************)
(* Properties.                                                             *)
(***************************************************************************)
BeingRemoved(w) == \E r \in Requests : Removing(r) /\ request[r].window = w

(* A data set that is listed has all its files, whatever imports, deletions*)
(* and restarts came before, except while it is being deleted or after a   *)
(* restart in the middle of its deletion.                                  *)
ListedIsWhole ==
    \A w \in DataSets : Listed(w) /\ ~BeingRemoved(w) /\ w \notin torn
        => /\ "manifest" \in final[w] => final[w] = Whole
           /\ "manifest" \in temp[w] => temp[w] = Whole
           /\ \A i \in DOMAIN left[w] : left[w][i] = Whole

(* The manifest's row count, which the validating reading counts, is the   *)
(* number of rows the converting reading writes, although the two stop at  *)
(* different places.                                                       *)
ManifestCountsWrittenRows ==
    \A w \in DataSets : "manifest" \in final[w]
        => Report(w).count = Cardinality(ConvertedRows(w)) /\ Report(w).count > 0

(* A dataset the registry lists is whole, and its manifest counts the rows *)
(* that were written, under imports, deletions and crashes that overlap    *)
(* (data_ingestion/service.py).                                            *)
ListedIsCounted == ListedIsWhole /\ ManifestCountsWrittenRows
=============================================================================
