---------------------------- MODULE AttachmentStore ----------------------------
(***************************************************************************)
(* The directory of attachments: payload and metadata files, the uploads    *)
(* and collections of several workers, each under the lock of its own       *)
(* process only, and crashes between any two file operations.               *)
(*                                                                          *)
(* An attachment is the number of its upload, so its name is its age.  All  *)
(* payloads have the size of one unit of the quota; metadata weighs         *)
(* nothing.                                                                 *)
(*                                                                          *)
(* Definitions commented "Mutant" are plausible bugs in the definition that *)
(* follows; nothing uses them but the sanity check of the properties.       *)
(***************************************************************************)
EXTENDS RateLimit

CONSTANTS
    MaxAttachments,     \* bound on uploads
    MaxStored           \* MAX_ATTACHMENT_STORAGE_BYTES, in payloads

ASSUME AttachmentAssumption == MaxAttachments \in Nat /\ MaxStored \in Nat

Attachments == 1 .. MaxAttachments
None == 0

VARIABLES
    uploaded,           \* how many ids were given out
    payload, meta,      \* the files of att-<id>.payload and att-<id>.json
    old,                \* attachments whose files are older than ATTACHMENT_ORPHAN_TTL_SECONDS
    known,              \* attachments whose upload was answered
    job,                \* job[w]: what w does under its ATTACHMENT_LOCK
    referenced          \* ids in messages and run snapshots

fileVars == <<uploaded, payload, meta, old, known, job>>

\* at: idle, check, scan, refs, sweep, unlink, total, payload, meta;  new: the upload the job
\* serves, None for the collection of a starting process;  records: metadata found, with what
\* was stale then;  refs: the references read;  quota: the second pass;  total: cached bytes.
Free == [at |-> "idle", new |-> None, records |-> {}, stale |-> {}, refs |-> {}, victim |-> None,
         quota |-> FALSE, total |-> 0]
Starting == [Free EXCEPT !.at = "scan"]

FilesInit(stored) ==
    /\ uploaded = stored /\ old = {} /\ referenced = {}
    /\ payload = 1 .. stored /\ meta = 1 .. stored /\ known = 1 .. stored
    /\ job = [w \in Workers |-> Free]

\* _load_attachment finds both files.
Whole(a) == a \in payload /\ a \in meta

Step(w, fields) == job' = [job EXCEPT ![w] = fields]

\* upload_attachment: a new id; the storage is measured, and collected first when that is due
\* or the upload would not fit.
Upload(w) ==
    /\ job[w].at = "idle" /\ uploaded < MaxAttachments
    /\ uploaded' = uploaded + 1
    /\ LET fits == Cardinality(payload) + 1 <= MaxStored
           new == [Free EXCEPT !.new = uploaded + 1]
       IN \/ fits /\ Step(w, [new EXCEPT !.at = "payload"])
          \/ Step(w, [new EXCEPT !.at = "scan"])
    /\ UNCHANGED <<payload, meta, old, known, referenced>>

\* The collection reads the metadata, unlinks what it cannot read or does not accept, whoever
\* names it, and stale payloads that have none; references are only read when there is more
\* it may delete.
Scan(w, unreadable) ==
    LET found == meta \ unreadable
        orphans == (payload \cap old) \ found
        total == Cardinality(payload \ orphans)
        listed == [job[w] EXCEPT !.records = found, !.stale = found \cap old, !.total = total]
    IN /\ job[w].at = "scan"
       /\ meta' = found
       /\ payload' = payload \ orphans
       /\ Step(w, [listed EXCEPT !.at = IF found \cap old # {} \/ total > MaxStored
                                        THEN "refs" ELSE "total"])
       /\ UNCHANGED <<uploaded, old, known, referenced>>

\* Messages and run snapshots (referenced_attachment_ids), read in one go.
ReadReferences(w) ==
    /\ job[w].at = "refs"
    /\ Step(w, [job[w] EXCEPT !.at = "sweep", !.refs = referenced])
    /\ UNCHANGED <<uploaded, payload, meta, old, known, referenced>>

\* What the first pass may still take, and then the second.
Expired(j) == j.stale \ j.refs

\* Mutant: the quota evicts the oldest, referenced or not.
EvictableAny(j) == IF j.quota /\ j.total > MaxStored THEN j.records ELSE {}
Evictable(j) == IF j.quota /\ j.total > MaxStored THEN j.records \ j.refs ELSE {}

\* Each record is two unlinks: the payload, then the metadata.  The first pass follows no
\* order, the second takes the oldest.
Unlink(w) ==
    LET j == job[w]
    IN /\ j.at = "sweep"
       /\ \E a \in IF Expired(j) # {} THEN Expired(j)
                   ELSE {b \in Evictable(j) : \A o \in Evictable(j) : b <= o} :
             /\ payload' = payload \ {a}
             /\ Step(w, [j EXCEPT !.at = "unlink", !.victim = a, !.records = @ \ {a},
                                  !.stale = @ \ {a},
                                  !.total = IF a \in payload THEN @ - 1 ELSE @])
       /\ UNCHANGED <<uploaded, meta, old, known, referenced>>

UnlinkMeta(w) ==
    /\ job[w].at = "unlink"
    /\ meta' = meta \ {job[w].victim}
    /\ Step(w, [job[w] EXCEPT !.at = "sweep", !.victim = None])
    /\ UNCHANGED <<uploaded, payload, old, known, referenced>>

SweepDone(w) ==
    LET j == job[w]
    IN /\ j.at = "sweep" /\ Expired(j) = {} /\ Evictable(j) = {}
       /\ Step(w, IF j.quota THEN [j EXCEPT !.at = "total"] ELSE [j EXCEPT !.quota = TRUE])
       /\ UNCHANGED <<uploaded, payload, meta, old, known, referenced>>

\* Mutant: a collection is taken to have made room.
MeasureNothing(w) ==
    /\ job[w].at = "total"
    /\ Step(w, IF job[w].new # None THEN [Free EXCEPT !.at = "payload", !.new = job[w].new]
               ELSE Free)
    /\ UNCHANGED <<uploaded, payload, meta, old, known, referenced>>

\* The directory is measured again; an upload that still does not fit is refused (507).
Measure(w) ==
    LET j == job[w]
        room == Cardinality(payload) + 1 <= MaxStored
    IN /\ j.at = "total"
       /\ Step(w, IF j.new # None /\ room THEN [Free EXCEPT !.at = "payload", !.new = j.new]
                  ELSE Free)
       /\ UNCHANGED <<uploaded, payload, meta, old, known, referenced>>

InstallPayload(w) ==
    /\ job[w].at = "payload"
    /\ payload' = payload \cup {job[w].new}
    /\ Step(w, [job[w] EXCEPT !.at = "meta"])
    /\ UNCHANGED <<uploaded, meta, old, known, referenced>>

InstallMeta(w) ==
    /\ job[w].at = "meta"
    /\ meta' = meta \cup {job[w].new} /\ known' = known \cup {job[w].new}
    /\ Step(w, Free)
    /\ UNCHANGED <<uploaded, payload, old, referenced>>

\* A worker dies and starts again: its lock is gone with it, and lifespan collects.
Restart(w) ==
    /\ Step(w, Starting)
    /\ UNCHANGED <<uploaded, payload, meta, old, known, referenced>>

\* Time passes over the files of uploads that are over.
GrowOld ==
    /\ \E a \in (payload \cup meta) \ old :
          /\ \A w \in Workers : job[w].new # a
          /\ old' = old \cup {a}
    /\ UNCHANGED <<uploaded, payload, meta, known, job, referenced>>

\* What the workers that serve do while every read of a file succeeds.
FileStep(serving) ==
    \/ \E w \in serving : \/ Upload(w) \/ Scan(w, {}) \/ ReadReferences(w) \/ Unlink(w)
                          \/ UnlinkMeta(w) \/ SweepDone(w) \/ Measure(w)
                          \/ InstallPayload(w) \/ InstallMeta(w)
    \/ GrowOld

-----------------------------------------------------------------------------
\* The quota is overrun by at most one upload of each other worker: their locks do not
\* exclude each other, but each measured the directory before it wrote.
\* (attachment_storage_for_upload, upload_attachment)
StorageIsBounded == Cardinality(payload) <= MaxStored + Cardinality(Workers) - 1
=============================================================================
