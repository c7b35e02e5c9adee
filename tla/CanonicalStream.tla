--------------------------- MODULE CanonicalStream ---------------------------
(***************************************************************************)
(* The durable canonical event stream of the live arena: one arena tick    *)
(* emits events, flushes them to the archive, replaces the manifest and    *)
(* only then publishes the completed tick (LiveArenaService.java with      *)
(* CanonicalEventArchive.java), while an HTTP client pages through a       *)
(* stream with a cursor (exchangeEvents; replay_export.py, features/io.py).*)
(*                                                                         *)
(* The arena's methods share one lock: `phase` is where the lock holder    *)
(* is, and clients and operators act when it is "idle".  A write may stop  *)
(* at any byte and the process may stop between any two steps.  Events are *)
(* their sequence numbers and every row has size 1.                        *)
(***************************************************************************)
EXTENDS EventArchive

CONSTANTS
  MaxStreamBytes,   \* quota of one stream
  PageLimit,        \* events per page
  ReaderPinsStream, \* does the client name its stream in every request?
  MaxStreams, MaxSequence, MaxFaults   \* bounds of the exploration

ASSUME StreamAssumption ==
  /\ MaxStreamBytes \in Nat \ {0} /\ PageLimit \in Nat \ {0}
  /\ ReaderPinsStream \in BOOLEAN
  /\ MaxStreams \in Nat \ {0} /\ MaxSequence \in Nat /\ MaxFaults \in Nat

Streams == 1..MaxStreams
NoStream == 0

VARIABLES
  running,    \* the scheduler advances the arena
  phase,      \* where the lock holder is
  closing,    \* the flush in progress is the one of close()
  engine,     \* the matching engine's latestEventSequence
  created,    \* how many streams were ever begun
  stream,     \* the current stream id
  pending,    \* rows accepted since the last completed flush
  cursor,     \* how many of them this flush has written
  persisted,  \* latestPersistedSequence
  bytes,      \* archiveBytes
  stored,     \* the stream directories on disk
  files,      \* their segment files
  manifest,   \* latest_sequence of their manifests
  published,  \* the sequence of the last completed tick published per stream
  damaged,    \* streams in which a flush failed after writing something
  faults,     \* how many writes have failed
  reader      \* the paging client

arena == <<running, phase, closing, engine, created>>
archive == <<stream, pending, cursor, persisted, bytes>>
disk == <<stored, files, manifest>>
ghosts == <<published, damaged, faults>>
vars == <<arena, archive, disk, ghosts, reader>>

Phases == {"idle", "tick", "write", "manifest", "down"}

\* Leaving a flush: back to the arena, or the end of the process.
Leave == /\ phase' = IF closing THEN "down" ELSE "idle"
         /\ UNCHANGED closing

\* completeCanonicalTick's catch: the arena stops and the exception goes on.
Abort == /\ running' = FALSE
         /\ Leave

(***************************************************************************)
(* A tick.                                                                 *)
(***************************************************************************)
\* appendEvent and acceptCanonicalEvent: the engine's sequence advances first;
\* an archive that expects another sequence, or has no stream, throws, and the
\* tick is abandoned with the arena still running.
AcceptsNext == stream # NoStream /\ engine = persisted + Len(pending)

EmitEvent ==
  /\ phase = "tick" \/ (phase = "idle" /\ running)
  /\ engine < MaxSequence
  /\ engine' = engine + 1
  /\ IF AcceptsNext
     THEN phase' = "tick" /\ pending' = Append(pending, engine + 1)
     ELSE phase' = "idle" /\ UNCHANGED pending
  /\ UNCHANGED <<running, closing, created, stream, cursor, persisted, bytes,
                 disk, ghosts, reader>>

\* The quota check of flushCompletedTick comes before any write.
WithinQuota == bytes + Len(pending) <= MaxStreamBytes

BeginFlush ==
  /\ phase = "tick"
  /\ IF WithinQuota
     THEN phase' = "write" /\ cursor' = 0 /\ UNCHANGED <<running, closing>>
     ELSE Abort /\ UNCHANGED cursor
  /\ UNCHANGED <<engine, created, stream, pending, persisted, bytes, disk,
                 ghosts, reader>>

Unwritten == SubSeq(pending, cursor + 1, Len(pending))

Store(rows) ==
  files' = [files EXCEPT ![stream] = WriteRows(@, SegmentOf(Unwritten[1]), rows)]

\* One segment's batch; after the last one the pending rows are dropped.
WriteBatch(n) ==
  /\ phase = "write"
  /\ IsBatch(Unwritten, n)
  /\ Store(SubSeq(Unwritten, 1, n))
  /\ bytes' = bytes + n
  /\ persisted' = Unwritten[n]
  /\ IF cursor + n = Len(pending)
     THEN cursor' = 0 /\ pending' = <<>> /\ phase' = "manifest"
     ELSE cursor' = cursor + n /\ UNCHANGED <<pending, phase>>
  /\ UNCHANGED <<running, closing, engine, created, stream, stored, manifest,
                 ghosts, reader>>

\* Files.write of a batch of `size` rows throws after n whole rows and perhaps
\* a part of the next one.
WriteBatchFails(size, n, torn) ==
  /\ faults < MaxFaults
  /\ faults' = faults + 1
  /\ phase = "write"
  /\ IsBatch(Unwritten, size)
  /\ n <= size
  /\ torn => n < size
  /\ Store(SubSeq(Unwritten, 1, n) \o (IF torn THEN <<Torn>> ELSE <<>>))
  /\ damaged' = IF cursor + n > 0 \/ torn THEN damaged \cup {stream} ELSE damaged
  /\ cursor' = 0
  /\ Abort
  /\ UNCHANGED <<engine, created, stream, pending, persisted, bytes, stored, manifest,
                 published, reader>>

\* The manifest is replaced atomically; the completed tick is published when
\* the archive has reached the engine's sequence.
WriteManifest ==
  /\ phase = "manifest"
  /\ manifest' = [manifest EXCEPT ![stream] = persisted]
  /\ IF closing \/ persisted = engine THEN Leave /\ UNCHANGED running ELSE Abort
  /\ published' = IF ~closing /\ persisted = engine
                  THEN [published EXCEPT ![stream] = engine] ELSE published
  /\ UNCHANGED <<engine, created, archive, stored, files, damaged, faults,
                 reader>>

\* Mutant: the failure is swallowed and the tick published all the same.
WriteManifestFailsSilently ==
  /\ faults < MaxFaults
  /\ faults' = faults + 1
  /\ phase = "manifest"
  /\ Leave
  /\ published' = [published EXCEPT ![stream] = engine]
  /\ UNCHANGED <<running, engine, created, archive, disk, damaged, reader>>

WriteManifestFails ==
  /\ faults < MaxFaults
  /\ faults' = faults + 1
  /\ phase = "manifest"
  /\ Abort
  /\ UNCHANGED <<engine, created, archive, disk, published, damaged, reader>>

(***************************************************************************)
(* Operators.                                                              *)
(***************************************************************************)
Start ==
  /\ phase = "idle"
  /\ running' = TRUE
  /\ UNCHANGED <<phase, closing, engine, created, archive, disk, ghosts, reader>>

Pause ==
  /\ phase = "idle"
  /\ running' = FALSE
  /\ UNCHANGED <<phase, closing, engine, created, archive, disk, ghosts, reader>>

\* beginStream: unflushed rows are dropped, a new directory gets a manifest.
BeginStream ==
  /\ created < MaxStreams
  /\ created' = created + 1
  /\ stream' = created + 1
  /\ pending' = <<>>
  /\ cursor' = 0
  /\ persisted' = 0
  /\ bytes' = 0
  /\ engine' = 0
  /\ stored' = stored \cup {created + 1}
  /\ running' = FALSE
  /\ phase' = "idle"
  /\ closing' = FALSE
  /\ UNCHANGED <<files, manifest, ghosts, reader>>

Reset == phase = "idle" /\ BeginStream

\* The process stops anywhere; a new one starts with a stream of its own.
Restart == phase # "idle" /\ BeginStream

\* close() runs at shutdown and flushes once more.
Close ==
  /\ phase = "idle"
  /\ closing' = TRUE
  /\ running' = FALSE
  /\ cursor' = 0
  /\ phase' = IF pending # <<>> /\ WithinQuota THEN "write" ELSE "down"
  /\ UNCHANGED <<engine, created, stream, pending, persisted, bytes, disk,
                 ghosts, reader>>

DeleteFiles(s) ==
  /\ stored' = stored \ {s}
  /\ files' = [files EXCEPT ![s] = <<>>]
  /\ manifest' = [manifest EXCEPT ![s] = 0]

ForgetStream(s) ==
  IF s = stream
  THEN stream' = NoStream /\ pending' = <<>> /\ persisted' = 0 /\ bytes' = 0
  ELSE UNCHANGED <<stream, pending, persisted, bytes>>

\* releaseExchangeEventStream, of an old stream or of the current one.
Release(s) ==
  /\ phase = "idle"
  /\ s \in stored
  /\ DeleteFiles(s)
  /\ ForgetStream(s)
  /\ UNCHANGED <<arena, cursor, ghosts, reader>>

(***************************************************************************)
(* The paging client.                                                      *)
(***************************************************************************)
Idle == [status |-> "idle", stream |-> NoStream, after |-> 0, got |-> <<>>]

OpenReader(s) ==
  /\ phase = "idle"
  /\ s \in stored
  /\ reader.status = "idle"
  /\ reader' = [Idle EXCEPT !.status = "reading", !.stream = s]
  /\ UNCHANGED <<arena, archive, disk, ghosts>>

\* Mutant: a client without the check.
NeverStalled(next, hasMore) == FALSE

\* A page that promises more but does not move the cursor.
Stalled(next, hasMore) == hasMore /\ next <= reader.after

\* One request and what the client does with the answer: it takes the rows and
\* goes on from the returned cursor while has_more, and gives up on an error (no
\* server, no such stream, a damaged line) or on a page that stalls.
ReadPage ==
  /\ phase \in {"idle", "down"}
  /\ reader.status = "reading"
  /\ LET s == IF ReaderPinsStream THEN reader.stream ELSE stream
         page == ReadAfter(files[s], manifest[s], reader.after, PageLimit)
         rows == page.rows
         next == IF rows = <<>> THEN reader.after ELSE rows[Len(rows)]
         latest == IF s = stream THEN engine ELSE manifest[s]
         hasMore == next < latest
     IN  reader' =
           IF phase = "down" \/ s \notin stored \/ page.failed \/ Stalled(next, hasMore)
           THEN [reader EXCEPT !.status = "failed"]
           ELSE [reader EXCEPT
                   !.status = IF hasMore THEN "reading" ELSE "done",
                   !.after = next,
                   !.got = @ \o [i \in DOMAIN rows |-> <<s, rows[i]>>]]
  /\ UNCHANGED <<arena, archive, disk, ghosts>>

Init ==
  /\ running = FALSE
  /\ phase = "idle"
  /\ closing = FALSE
  /\ engine = 0
  /\ created = 1
  /\ stream = 1
  /\ pending = <<>>
  /\ cursor = 0
  /\ persisted = 0
  /\ bytes = 0
  /\ stored = {1}
  /\ files = [s \in Streams |-> <<>>]
  /\ manifest = [s \in Streams |-> 0]
  /\ published = [s \in Streams |-> 0]
  /\ damaged = {}
  /\ faults = 0
  /\ reader = Idle

Next ==
  \/ EmitEvent \/ BeginFlush \/ WriteManifest \/ WriteManifestFails
  \/ \E size \in 1..Len(pending) :
       \/ WriteBatch(size)
       \/ \E n \in 0..Len(pending), torn \in BOOLEAN : WriteBatchFails(size, n, torn)
  \/ Start \/ Pause \/ Reset \/ Restart \/ Close
  \/ \E s \in Streams : Release(s) \/ OpenReader(s)
  \/ ReadPage

Spec == Init /\ [][Next]_vars

\* A thread that holds the lock runs on, and the client sends its next request.
Flushing == BeginFlush \/ WriteManifest \/ \E n \in 1..Len(pending) : WriteBatch(n)
FairSpec == Spec /\ WF_vars(Flushing) /\ SF_vars(ReadPage)

(***************************************************************************)
(* Properties.                                                             *)
(***************************************************************************)
\* Every variable has its type.
TypeOK ==
  /\ running \in BOOLEAN /\ closing \in BOOLEAN
  /\ phase \in Phases
  /\ engine \in Nat /\ persisted \in Nat /\ bytes \in Nat
  /\ created \in Streams
  /\ stream \in stored \cup {NoStream}
  /\ stored \in SUBSET (1..created)
  /\ pending \in Seq(Nat)
  /\ cursor \in 0..Len(pending)
  /\ manifest \in [Streams -> Nat] /\ published \in [Streams -> Nat]
  /\ damaged \in SUBSET Streams
  /\ faults \in Nat

\* A completed tick is published only once the manifest covers its events, and
\* no later failure, retry, reset, crash or shutdown takes that back.
PublishedIsDurable ==
  \A s \in stored : published[s] <= manifest[s]

\* A stream in which no flush failed half-way holds each of its events up to the
\* manifest exactly once and in order, across segment boundaries, whatever else
\* failed: quota, manifest, a crash between two segments, a repeated flush.
UndamagedArchiveIsExact ==
  \A s \in stored \ damaged :
    /\ \A k \in DOMAIN files[s] : \A i \in DOMAIN files[s][k] :
         files[s][k][i] = k * SegmentEvents + i
    /\ \A n \in 1..manifest[s] :
         \E i \in DOMAIN Lines(files[s], SegmentOf(n)) :
           Lines(files[s], SegmentOf(n))[i] = n

\* A client that pages to the end has received everything published before its
\* last request and, from an undamaged stream, each event exactly once in order.
FinishedReaderIsComplete ==
  [][reader.status = "reading" /\ reader'.status = "done" =>
       /\ reader'.after >= published[reader.stream]
       /\ reader.stream \notin damaged =>
            reader'.got = [i \in 1..reader'.after |-> <<reader.stream, i>>]]_vars

KeepsEarlierStreams ==
  \A s \in stored \cap stored' :
    s # stream => files'[s] = files[s] /\ manifest'[s] = manifest[s]

\* The streams of earlier runs are append-only history: no step but a release
\* changes what a client reads from a stream that is not the current one.
EarlierStreamsAreImmutable == [][KeepsEarlierStreams]_vars

\* Every client that starts paging comes to an end: each page moves the cursor
\* or is the last one, also while ticks, failures and resets go on.
ReaderFinishes == reader.status = "reading" ~> reader.status \in {"done", "failed"}

\* Cursor replay is gap-free and the sequences a client receives are contiguous
\* from 1 within one stream.
CursorReplayIsContiguous ==
  \A i \in DOMAIN reader.got : reader.got[i] = <<reader.got[1][1], i>>

\* Archives are exact: what an undamaged archive returns is what was emitted,
\* once each and in order, and no step but its release touches the files of a
\* stream that is not the current one (CanonicalEventArchive.flushCompletedTick,
\* readAfter, deleteStream).
ArchivesAreExact == [](TypeOK /\ UndamagedArchiveIsExact) /\ EarlierStreamsAreImmutable
=============================================================================
