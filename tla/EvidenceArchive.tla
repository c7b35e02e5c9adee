--------------------------- MODULE EvidenceArchive ---------------------------
(***************************************************************************)
(* The cloud evidence archive (nebius/evidence_archive.py): record writes  *)
(* a directory of evidence and mirrors it to object storage, sync uploads  *)
(* what failed and restores the archive, both index records in             *)
(* evidence.jsonl.  A record is mirrored by the aws command line tool,     *)
(* which copies files one by one and may stop in between.                  *)
(***************************************************************************)
EXTENDS Naturals, Sequences, SequencesExt, FiniteSets

CONSTANTS
    Evidence,    \* evidence ids
    Parts,       \* files of a record besides metadata.json
    SyncOverlaps \* whether sync is requested while a call is being recorded

VARIABLES
    files,    \* parts of each record on local disk
    meta,     \* s3_status in its local metadata.json
    mirror,   \* parts of each record in object storage
    mirrorMeta, \* s3_status in the copy of its metadata.json there
    index,    \* evidence ids of evidence.jsonl
    writer,   \* where record stands for each id
    sync      \* [step, todo]: the one sync the archive lock admits

evVars == <<files, meta, mirror, mirrorMeta, index, writer, sync>>
local == <<files, meta>>
remote == <<mirror, mirrorMeta>>

EvInit ==
    /\ files = [e \in Evidence |-> {}] /\ meta = [e \in Evidence |-> "none"]
    /\ mirror = [e \in Evidence |-> {}] /\ mirrorMeta = [e \in Evidence |-> "none"]
    /\ index = <<>> /\ writer = [e \in Evidence |-> "none"]
    /\ sync = [step |-> "idle", todo |-> <<>>]

(* record: every file, then metadata.json saying "uploaded" before the     *)
(* upload has been tried.                                                  *)
WriteEvidence(e) ==
    /\ writer[e] = "none" /\ (SyncOverlaps \/ sync.step = "idle")
    /\ files' = [files EXCEPT ![e] = Parts] /\ meta' = [meta EXCEPT ![e] = "uploaded"]
    /\ writer' = [writer EXCEPT ![e] = "uploading"]
    /\ UNCHANGED <<remote, index, sync>>

(* _sync_directory: all of a directory reaches the other side, or a part.  *)
Upload(e) ==
    /\ mirror' = [mirror EXCEPT ![e] = @ \cup files[e]]
    /\ mirrorMeta' = [mirrorMeta EXCEPT ![e] = meta[e]]

UploadPart(e) ==
    /\ \E part \in SUBSET files[e] : mirror' = [mirror EXCEPT ![e] = @ \cup part]
    /\ mirrorMeta' \in {mirrorMeta, [mirrorMeta EXCEPT ![e] = meta[e]]}

MirrorEvidence(e) ==
    /\ writer[e] = "uploading"
    /\ \/ Upload(e) /\ writer' = [writer EXCEPT ![e] = "registering"]
       \/ UploadPart(e) /\ writer' = [writer EXCEPT ![e] = "failed"]
    /\ UNCHANGED <<local, index, sync>>

MarkUploadFailed(e) ==
    /\ writer[e] = "failed"
    /\ meta' = [meta EXCEPT ![e] = "upload_failed"]
    /\ writer' = [writer EXCEPT ![e] = "registering"]
    /\ UNCHANGED <<files, remote, index, sync>>

IsNew(e) == e \notin Range(index)

(* _register, under the archive lock, which sync holds while it copies.    *)
Register(e) ==
    /\ writer[e] = "registering" /\ sync.step \notin {"upload", "mark", "again", "restore"}
    /\ index' = IF IsNew(e) THEN Append(index, e) ELSE index
    /\ writer' = [writer EXCEPT ![e] = "done"]
    /\ UNCHANGED <<local, remote, sync>>

PendingNone == <<>>

Pending == SetToSeq({e \in Evidence : meta[e] = "upload_failed"})

BeginSync ==
    /\ sync.step = "idle" /\ \E e \in Evidence : meta[e] # "none"
    /\ SyncOverlaps \/ \A e \in Evidence : writer[e] \in {"none", "done"}
    /\ sync' = [step |-> "upload", todo |-> Pending]
    /\ UNCHANGED <<local, remote, index, writer>>

(* sync: upload, mark uploaded, upload again so that the mark is mirrored. *)
(* A failed upload ends the request.                                       *)
SyncUpload ==
    /\ sync.step \in {"upload", "again"} /\ sync.todo # <<>>
    /\ LET e == Head(sync.todo) IN
       \/ /\ Upload(e)
          /\ sync' = IF sync.step = "upload" THEN [sync EXCEPT !.step = "mark"]
                     ELSE [step |-> "upload", todo |-> Tail(sync.todo)]
       \/ UploadPart(e) /\ sync' = [step |-> "idle", todo |-> <<>>]
    /\ UNCHANGED <<local, index, writer>>

SyncMark ==
    /\ sync.step = "mark"
    /\ meta' = [meta EXCEPT ![Head(sync.todo)] = "uploaded"]
    /\ sync' = [sync EXCEPT !.step = "again"]
    /\ UNCHANGED <<files, remote, index, writer>>

(* The archive is restored: a mirrored file that differs replaces the      *)
(* local one.                                                              *)
SyncRestore ==
    /\ sync.step = "upload" /\ sync.todo = <<>>
    /\ files' = [e \in Evidence |-> files[e] \cup mirror[e]]
    /\ meta' = [e \in Evidence |-> IF mirrorMeta[e] = "none" THEN meta[e] ELSE mirrorMeta[e]]
    /\ sync' = [step |-> "register", todo |-> SetToSeq({e \in Evidence : meta'[e] # "none"})]
    /\ UNCHANGED <<remote, index, writer>>

SyncRegister ==
    /\ sync.step = "register"
    /\ IF sync.todo = <<>> THEN sync' = [sync EXCEPT !.step = "idle"] /\ UNCHANGED index
       ELSE /\ index' = IF IsNew(Head(sync.todo)) THEN Append(index, Head(sync.todo)) ELSE index
            /\ sync' = [sync EXCEPT !.todo = Tail(@)]
    /\ UNCHANGED <<local, remote, writer>>

Writer(e) == WriteEvidence(e) \/ MirrorEvidence(e) \/ MarkUploadFailed(e) \/ Register(e)
SyncStep == SyncUpload \/ SyncMark \/ SyncRestore \/ SyncRegister

EvNext == BeginSync \/ SyncStep \/ \E e \in Evidence : Writer(e)

(* Requests end, sync is asked for again and again, and so does an upload  *)
(* that can succeed.                                                       *)
EvFairness ==
    /\ WF_evVars(BeginSync) /\ WF_evVars(SyncStep)
    /\ SF_evVars(SyncUpload /\ sync'.step # "idle")
    /\ \A e \in Evidence : WF_evVars(Writer(e) /\ writer[e] # "none")

EvSpec == EvInit /\ [][EvNext]_evVars /\ EvFairness

(***************************************************************************)
(* Properties                                                              *)
(***************************************************************************)

(* A record is indexed once, though record and sync both register it.      *)
IndexedOnce == IsInjective(index)

(* "POST /api/nebius/evidence/sync retries failed uploads": a record whose *)
(* upload has failed is eventually complete in object storage.             *)
FailedUploadIsRetried ==
    \A e \in Evidence : writer[e] = "failed" ~> mirror[e] = Parts
=============================================================================
