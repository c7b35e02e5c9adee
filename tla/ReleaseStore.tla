---------------------------- MODULE ReleaseStore ----------------------------
(* Publication and reading of one immutable release prefix in the object     *)
(* store (backend/app/nebius/object_storage.py) and the exactly-once final   *)
(* evaluation job that publishes through it (serverless/jobs/                *)
(* run_lightgbm_g8.py).                                                      *)
(*                                                                           *)
(* An object is abstracted to the publisher whose staged directory it comes  *)
(* from: equal content is equal SHA-256 and size.  A SUCCESS object of p     *)
(* carries p's inventory.  One store request is one step; a request may fail *)
(* without an effect, or take effect and report an error.                    *)
EXTENDS Naturals, Sequences, FiniteSets, SequencesExt

CONSTANTS Publishers,    \* jobs that publish to this prefix
          Readers,       \* jobs that read it
          Files,         \* object names below the prefix, markers excluded
          Upload,        \* [Publishers -> Seq(Files)]: sorted inventory, checksums included
          Selected,      \* the member a selective or inspecting reader needs
          Checksums,     \* the name of checksums.sha256
          Layouts,       \* entry points the writers may use: subset of Modes
          Kinds,         \* reading operations the readers use
          None

Modes == {"listed", "intent", "g8"}
Markers == {"SUCCESS", "FAILED"}
Objects == Files \cup Markers

ASSUME ConstantsAssumption ==
    /\ Upload \in [Publishers -> Seq(Files)]
    /\ IsFiniteSet(Files) /\ Files \cap Markers = {}
    /\ {Checksums, Selected} \subseteq Files
    /\ Layouts \subseteq Modes
    /\ Kinds \subseteq {"inspect", "select", "download"}
    /\ None \notin Publishers
    /\ \A p \in Publishers : {Checksums, Selected} \subseteq Range(Upload[p])

VARIABLES
    store,      \* [Objects -> Publishers \cup {None}]
    intent,     \* the publisher whose request is in .intents/<run_id>.json, or None
    mode,       \* the entry point every writer of this prefix uses
    pub,        \* [Publishers -> record]: progress of one publication
    reader,     \* [Readers -> record]: progress of one read
    everWhole,  \* history: publishers whose release was complete at some time
    finalReads  \* history: how often the sealed final release was downloaded

vars == <<store, intent, mode, pub, reader, everWhole, finalReads>>

FilesOf(p) == Range(Upload[p])

Whole(s, p, marker) ==
    /\ \A f \in FilesOf(p) : s[f] = p
    /\ s[marker] = p

Keys(s) == {k \in Objects : s[k] # None}

\* The put-object of publisher p for its next object: marker last.
NextKey(p) ==
    IF pub[p].done < Len(Upload[p]) THEN Upload[p][pub[p].done + 1] ELSE pub[p].marker

Conditional == mode \in {"intent", "g8"}

PubStates == {"preflight", "reserved", "final", "put", "verify", "cleanup",
              "done", "failed", "dead"}
ReaderStates == {"idle", "marker", "members", "sync", "absent", "accepted", "rejected"}

Init ==
    /\ store = [k \in Objects |-> None]
    /\ intent = None
    /\ mode \in Layouts
    /\ pub = [p \in Publishers |->
                [pc |-> "preflight", marker |-> "SUCCESS", done |-> 0, owned |-> <<>>]]
    /\ reader \in [Readers -> {[kind |-> k, pc |-> "idle", keys |-> {}, release |-> None,
                                todo |-> <<>>] : k \in Kinds}]
    /\ everWhole = {}
    /\ finalReads = 0

\* Every change of the store goes through here: the history records the
\* releases that are complete in the new store.
SetStore(s) ==
    /\ store' = s
    /\ everWhole' = everWhole \cup {p \in Publishers : \E m \in Markers : Whole(s, p, m)}

Advance(p, pc) == pub' = [pub EXCEPT ![p].pc = pc]

----------------------------------------------------------------------------
(* The final-evaluation job up to publication *)

\* The request, its signed authorization, the C4 inputs or MLflow readiness do
\* not verify: the job ends before it has touched the store.
RefuseRequest(p) ==
    /\ mode = "g8" /\ pub[p].pc = "preflight"
    /\ Advance(p, "failed")
    /\ UNCHANGED <<store, intent, mode, reader, everWhole, finalReads>>

\* _require_empty_result: one conditional put of the intent object.  A 412 and
\* any other error end the job; an error may hide a put that took effect.
TakeIntent(p) ==
    /\ mode = "g8" /\ pub[p].pc = "preflight"
    /\ \/ intent = None /\ intent' = p /\ Advance(p, "reserved")
       \/ intent = None /\ intent' = p /\ Advance(p, "failed")
       \/ UNCHANGED intent /\ Advance(p, "failed")
    /\ UNCHANGED <<store, mode, reader, everWhole, finalReads>>

\* Candidate release verified, then the only download of the sealed final
\* release; a candidate that does not verify ends the job before it.
AccessFinal(p) ==
    /\ pub[p].pc = "reserved"
    /\ \/ Advance(p, "failed") /\ UNCHANGED finalReads
       \/ finalReads' = finalReads + 1 /\ pub' = [pub EXCEPT ![p].pc = "final"]
    /\ UNCHANGED <<store, intent, mode, reader, everWhole>>

\* execute_wave1_request: a result directory with SUCCESS, one with FAILED
\* (published as failure evidence), or neither.
Execute(p) ==
    /\ pub[p].pc = "final"
    /\ \/ \E m \in Markers : pub' = [pub EXCEPT ![p].pc = "put", ![p].marker = m]
       \/ Advance(p, "failed")
    /\ UNCHANGED <<store, intent, mode, reader, everWhole, finalReads>>

----------------------------------------------------------------------------
(* Publication *)

\* Local checks passed; without an intent the prefix must list empty.
BeginPublication(p) ==
    /\ mode # "g8" /\ pub[p].pc = "preflight"
    /\ \/ mode = "intent" /\ Advance(p, "put")
       \/ mode = "listed" /\ Keys(store) = {} /\ Advance(p, "put")
       \/ mode = "listed" /\ Keys(store) # {} /\ Advance(p, "failed")
    /\ UNCHANGED <<store, intent, mode, reader, everWhole, finalReads>>

\* The intent-backed publisher notes the key before it has created it.
OwnsTooEarly(p, key, moments) ==
    IF "before" \in moments THEN Append(pub[p].owned, key) ELSE pub[p].owned

\* When a key enters the list the rollback deletes: before its put (listed),
\* right after a successful put (g8) or after its read-back (intent).
Owns(p, key, moments) ==
    IF [listed |-> "before", g8 |-> "created", intent |-> "verified"][mode] \in moments
    THEN Append(pub[p].owned, key) ELSE pub[p].owned

Blocked(key) == Conditional /\ store[key] # None

PutObject(p) ==
    LET key == NextKey(p)
    IN  /\ pub[p].pc = "put"
        /\ \/ /\ ~Blocked(key)                     \* created, or overwritten
              /\ SetStore([store EXCEPT ![key] = p])
              /\ pub' = [pub EXCEPT ![p].pc = "verify",
                                    ![p].owned = Owns(p, key, {"before", "created"})]
           \/ /\ ~Blocked(key)                     \* took effect, reported as an error
              /\ SetStore([store EXCEPT ![key] = p])
              /\ pub' = [pub EXCEPT ![p].pc = "cleanup", ![p].owned = Owns(p, key, {"before"})]
           \/ /\ pub' = [pub EXCEPT ![p].pc = "cleanup", ![p].owned = Owns(p, key, {"before"})]
              /\ UNCHANGED <<store, everWhole>>
        /\ UNCHANGED <<intent, mode, reader, finalReads>>

\* head-object and get-object of the key just put must return what was staged;
\* either request may also fail.
VerifyObject(p) ==
    LET key == NextKey(p) IN
    /\ pub[p].pc = "verify"
    /\ \/ /\ store[key] = p
          /\ pub' = [pub EXCEPT ![p].pc = IF key \in Markers THEN "done" ELSE "put",
                                ![p].done = @ + 1,
                                ![p].owned = Owns(p, key, {"verified"})]
       \/ Advance(p, "cleanup")
    /\ UNCHANGED <<store, intent, mode, reader, everWhole, finalReads>>

\* Rollback deletes the owned keys in order.  A delete that fails stops the
\* rollback, except in the final-evaluation job, which goes on with the next.
Cleanup(p) ==
    /\ pub[p].pc = "cleanup"
    /\ \/ pub[p].owned = <<>> /\ Advance(p, "failed") /\ UNCHANGED <<store, everWhole>>
       \/ /\ pub[p].owned # <<>>
          /\ SetStore([store EXCEPT ![Head(pub[p].owned)] = None])
          /\ pub' = [pub EXCEPT ![p].owned = Tail(@)]
       \/ /\ pub[p].owned # <<>>
          /\ IF mode = "g8" THEN pub' = [pub EXCEPT ![p].owned = Tail(@)]
                            ELSE Advance(p, "failed")
          /\ UNCHANGED <<store, everWhole>>
    /\ UNCHANGED <<intent, mode, reader, finalReads>>

\* The process dies between two requests; nothing is rolled back.
Crash(p) ==
    /\ pub[p].pc \notin {"done", "failed", "dead"}
    /\ Advance(p, "dead")
    /\ UNCHANGED <<store, intent, mode, reader, everWhole, finalReads>>

----------------------------------------------------------------------------
(* Reading *)

ReaderStep(r, rec) ==
    /\ reader' = [reader EXCEPT ![r] = rec]
    /\ UNCHANGED <<store, intent, mode, pub, everWhole, finalReads>>

\* The listing: nothing listed is an absent checkpoint, not an error.
ListPrefix(r) ==
    /\ reader[r].pc = "idle"
    /\ ReaderStep(r, [reader[r] EXCEPT
           !.keys = Keys(store),
           !.todo = IF reader[r].kind = "download" THEN SetToSeq(Keys(store)) ELSE <<>>,
           !.pc = IF Keys(store) = {} THEN "absent"
                  ELSE IF reader[r].kind = "download" THEN "sync" ELSE "marker"])

\* An inspection that trusts SUCCESS and reads only the member it wants.
InspectNoHeads(p) == <<Selected>>

ChecksumsAt(p) == CHOOSE i \in DOMAIN Upload[p] : Upload[p][i] = Checksums

\* What is compared after the envelope: inspect heads every inventory member,
\* then gets the one it wants; select heads and gets only the selected ones.
InspectChecks(p) ==
    <<Checksums>> \o RemoveAt(Upload[p], ChecksumsAt(p)) \o <<Selected>>

SelectChecks(p) == <<Checksums, Selected, Selected>>

\* get-object SUCCESS; the listing must be exactly its inventory plus the
\* checksum file and the marker.
ReadMarker(r) ==
    LET p == store["SUCCESS"] IN
    /\ reader[r].pc = "marker"
    /\ IF p # None /\ reader[r].keys = FilesOf(p) \cup {"SUCCESS"}
       THEN ReaderStep(r, [reader[r] EXCEPT !.pc = "members", !.release = p,
                                            !.todo = IF reader[r].kind = "inspect"
                                                     THEN InspectChecks(p) ELSE SelectChecks(p)])
       ELSE ReaderStep(r, [reader[r] EXCEPT !.pc = "rejected"])

\* head-object or get-object of the next key, compared with the inventory.
ReadMember(r) ==
    LET key == Head(reader[r].todo) IN
    /\ reader[r].pc = "members"
    /\ IF store[key] # reader[r].release
       THEN ReaderStep(r, [reader[r] EXCEPT !.pc = "rejected"])
       ELSE ReaderStep(r, [reader[r] EXCEPT !.todo = Tail(@),
                             !.pc = IF Len(reader[r].todo) = 1 THEN "accepted" ELSE "members"])

\* aws s3 sync copies one object after another.  verify_complete_result then
\* needs SUCCESS, no FAILED and every byte as in the inventory: one foreign or
\* missing object rejects the copy (and removes it).
SyncObject(r) ==
    LET key == Head(reader[r].todo)
        p == store[key]
    IN  /\ reader[r].pc = "sync"
        /\ IF p = None \/ key = "FAILED" \/ (reader[r].release \notin {None, p})
           THEN ReaderStep(r, [reader[r] EXCEPT !.pc = "rejected"])
           ELSE ReaderStep(r, [reader[r] EXCEPT
                  !.release = p,
                  !.todo = Tail(@),
                  !.pc = IF Len(reader[r].todo) > 1 THEN "sync"
                         ELSE IF reader[r].keys = FilesOf(p) \cup {"SUCCESS"}
                              THEN "accepted" ELSE "rejected"])

----------------------------------------------------------------------------
Publish(p) ==
    \/ RefuseRequest(p)
    \/ TakeIntent(p)
    \/ AccessFinal(p)
    \/ Execute(p)
    \/ BeginPublication(p)
    \/ PutObject(p)
    \/ VerifyObject(p)
    \/ Cleanup(p)
    \/ Crash(p)

Read(r) == ListPrefix(r) \/ ReadMarker(r) \/ ReadMember(r) \/ SyncObject(r)

Finished ==
    /\ \A p \in Publishers : pub[p].pc \in {"done", "failed", "dead"}
    /\ \A r \in Readers : reader[r].pc \in {"absent", "accepted", "rejected"}
    /\ UNCHANGED vars

Next == (\E p \in Publishers : Publish(p)) \/ (\E r \in Readers : Read(r)) \/ Finished

Spec == Init /\ [][Next]_vars

----------------------------------------------------------------------------
(* Properties *)

TypeOK ==
    /\ store \in [Objects -> Publishers \cup {None}]
    /\ intent \in Publishers \cup {None}
    /\ mode \in Modes
    /\ pub \in [Publishers -> [pc : PubStates, marker : Markers, done : Nat, owned : Seq(Objects)]]
    /\ reader \in [Readers -> [kind : Kinds, pc : ReaderStates, keys : SUBSET Objects,
                               release : Publishers \cup {None}, todo : Seq(Objects)]]
    /\ \A p \in Publishers : pub[p].done <= Len(Upload[p]) + 1
    /\ everWhole \subseteq Publishers
    /\ finalReads \in Nat

\* A publication that returned its evidence through conditional creation is
\* there, whole, whatever other publishers of the prefix, their rollbacks and
\* their crashes do afterwards (_publish_s3_directory deletes only keys it
\* created itself).
PublishedReleaseIsFinal ==
    \A p \in Publishers :
        Conditional /\ pub[p].pc = "done" => Whole(store, p, pub[p].marker)

\* The sealed final release is downloaded at most once, over every submission,
\* crash and lost response of the final-evaluation job.
FinalAccessedAtMostOnce == finalReads <= 1

\* A reader that inspected the whole envelope accepts only a release that was
\* complete at some time, even while two listing publishers race; a downloaded
\* copy has that guarantee when creation is conditional.
AcceptedReleaseWasWhole ==
    \A r \in Readers :
        /\ reader[r].pc = "accepted"
        /\ reader[r].kind = "inspect" \/ (reader[r].kind = "download" /\ Conditional)
        => reader[r].release \in everWhole

\* What the prefix shows of the abstract one: whose release is whole, and how
\* far its publisher has come.
Holder == {p \in Publishers : \E m \in Markers : Whole(store, p, m)}
VisibleRelease == IF Holder = {} THEN None ELSE CHOOSE p \in Holder : TRUE
PrefixPhase ==
    IF Keys(store) = {} THEN "empty"
    ELSE IF Holder = {} THEN "partial"
    ELSE IF pub[VisibleRelease].pc = "done" THEN "final" ELSE "visible"

Prefix == INSTANCE ReleasePrefix WITH
    Releases <- Publishers, NoRelease <- None, phase <- PrefixPhase,
    release <- VisibleRelease, exclusive <- Conditional

\* The prefix, written by racing publishers that crash, roll back and lose
\* answers, implements the promise of ReleasePrefix (object_storage.py,
\* _publish_s3_directory).
ImplementsPrefix == Prefix!Spec

\* The store under racing publishers, crashes and repeated submissions: what was
\* conditionally published stays whole, what a reader accepted was whole, and
\* the sealed release is downloaded at most once (_publish_s3_directory,
\* download_s3_release).
ReleaseIsSound ==
    TypeOK /\ PublishedReleaseIsFinal /\ AcceptedReleaseWasWhole /\ FinalAccessedAtMostOnce
=============================================================================
