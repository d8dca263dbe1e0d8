--------------------------- MODULE SnapshotTransfer ---------------------------
(***************************************************************************)
(* remote.py, snapshot.py and stage.py below the granularity of SkillSync: *)
(* files that are written piece by piece, requests that are repeated or    *)
(* arrive late, a cache that keeps what it once fetched, and the staging   *)
(* that has to notice.  Archives are named by the hash of their content.   *)
(***************************************************************************)
EXTENDS Naturals, FiniteSets

CONSTANTS
    Skills, Versions, Absent,
    Damaged,        \* content that is not what its name says
    Writers,        \* processes that upload
    Snapshots,      \* what they may upload: [Skills -> Versions or Absent]
    Transports,     \* [kind, modes]: the remotes and the uploads they see
    MaxUploads, MaxDownloads, MaxEdits, MaxFailures

VARIABLES
    transport,  \* one of Transports
    stored,     \* [Archives -> File]: the archives on the remote
    index,      \* index.json on the remote
    late,       \* index puts given up by their sender that may still arrive
    up,         \* [Writers -> upload under way]
    cache,      \* the device's cache: an index and archives
    down,       \* the download under way
    staged,     \* what was last staged for an installation
    published,  \* history: every index that was put
    counts

vars == <<transport, stored, index, late, up, cache, down, staged, published, counts>>

Archives == Skills \X Versions
\* "mixed": a whole zip whose files are not those its manifest lists.
Files == {"absent", "empty", "torn", "mixed", "whole"}
Snapshot == [Skills -> Versions \cup {Absent}]
Empty == [s \in Skills |-> Absent]
Torn == Damaged
ArchivesOf(snap) == {a \in Archives : snap[a[1]] = a[2]}

Modes == {"sync", "approved", "full"}
Idle == [step |-> "idle", snap |-> Empty, todo |-> {}, skip |-> FALSE,
         mixed |-> {}, at |-> Absent]
NoDownload == [step |-> "idle", index |-> Empty, todo |-> {}, at |-> Absent,
               data |-> "absent"]

UploadState == [step: {"idle", "archives", "archive", "index"}, snap: Snapshot,
                todo: SUBSET Archives, skip: BOOLEAN, mixed: SUBSET Archives,
                at: Archives \cup {Absent}]
DownloadState == [step: {"idle", "index", "archives", "write"}, index: Snapshot,
                  todo: SUBSET Archives, at: Archives \cup {Absent}, data: Files]

TransferTypeOK ==
    /\ transport \in Transports
    /\ stored \in [Archives -> Files \ {"empty"}]
    /\ index \in Snapshot \cup {Torn}
    /\ late \subseteq Snapshot /\ published \subseteq Snapshot
    /\ up \in [Writers -> UploadState]
    /\ cache \in [index: Snapshot \cup {Torn}, archives: [Archives -> Files]]
    /\ down \in DownloadState
    /\ staged \in [Skills -> Versions \cup {Absent, Damaged}]
    /\ counts \in [uploads: Nat, downloads: Nat, failures: Nat]

Init ==
    /\ transport \in Transports
    /\ stored = [a \in Archives |-> "absent"]
    /\ index = Empty /\ late = {} /\ published = {Empty}
    /\ up = [w \in Writers |-> Idle]
    /\ cache = [index |-> Empty, archives |-> [a \in Archives |-> "absent"]]
    /\ down = NoDownload /\ staged = Empty
    /\ counts = [uploads |-> 0, downloads |-> 0, failures |-> 0]

Counted(what, max) == /\ counts[what] < max
                      /\ counts' = [counts EXCEPT ![what] = @ + 1]

-----------------------------------------------------------------------------
(* upload_snapshot *)

\* The push of a plan uploads the archives central does not list; an approved
\* push and the command `push' leave out those the remote already has.
SkipsExisting(mode) == mode \in {"approved", "full"}
Included(mode, snap) ==
    IF mode = "full" THEN ArchivesOf(snap)
    ELSE ArchivesOf(snap) \ ArchivesOf(index)

\* Skills edited between hashing and zipping give mixed archives.
Upload(w, mode, snap, edited) ==
    /\ up[w] = Idle
    /\ mode \in transport.modes
    /\ mode # "full" => index # Torn
    /\ Counted("uploads", MaxUploads)
    /\ edited \subseteq ArchivesOf(snap)
    /\ up' = [up EXCEPT ![w] =
          [step |-> "archives", snap |-> snap, todo |-> Included(mode, snap),
           skip |-> SkipsExisting(mode), mixed |-> edited, at |-> Absent]]
    /\ UNCHANGED <<transport, stored, index, late, cache, down, staged, published>>

SkipArchive(w, a) ==
    /\ up[w].step = "archives" /\ a \in up[w].todo
    /\ up[w].skip /\ stored[a] # "absent"
    /\ up' = [up EXCEPT ![w].todo = @ \ {a}]
    /\ UNCHANGED <<transport, stored, index, late, cache, down, staged, published, counts>>

Bytes(w, a) == IF a \in up[w].mixed THEN "mixed" ELSE "whole"

\* A WebDAV server stores a body whole; a file is truncated, then written.
PutArchive(w, a) ==
    /\ up[w].step = "archives" /\ a \in up[w].todo
    /\ ~ (up[w].skip /\ stored[a] # "absent")
    /\ IF transport.kind = "webdav"
       THEN /\ stored' = [stored EXCEPT ![a] = Bytes(w, a)]
            /\ up' = [up EXCEPT ![w].todo = @ \ {a}]
       ELSE /\ stored' = [stored EXCEPT ![a] = "torn"]
            /\ up' = [up EXCEPT ![w].step = "archive", ![w].at = a]
    /\ UNCHANGED <<transport, index, late, cache, down, staged, published, counts>>

ArchiveWritten(w) ==
    /\ up[w].step = "archive"
    /\ stored' = [stored EXCEPT ![up[w].at] = Bytes(w, up[w].at)]
    /\ up' = [up EXCEPT ![w].step = "archives", ![w].todo = @ \ {up[w].at}]
    /\ UNCHANGED <<transport, index, late, cache, down, staged, published, counts>>

IndexIsLast(w) == up[w].todo = {}

PutIndex(w) ==
    /\ up[w].step = "archives" /\ IndexIsLast(w)
    /\ IF transport.kind = "webdav"
       THEN /\ index' = up[w].snap /\ published' = published \cup {up[w].snap}
            /\ up' = [up EXCEPT ![w] = Idle]
       ELSE /\ index' = Torn /\ up' = [up EXCEPT ![w].step = "index"]
            /\ UNCHANGED published
    /\ UNCHANGED <<transport, stored, late, cache, down, staged, counts>>

IndexWritten(w) ==
    /\ up[w].step = "index"
    /\ index' = up[w].snap /\ published' = published \cup {up[w].snap}
    /\ up' = [up EXCEPT ![w] = Idle]
    /\ UNCHANGED <<transport, stored, late, cache, down, staged, counts>>

\* The attempts time out: the process gives up, a body may arrive later.
PutTimesOut(w) ==
    /\ transport.kind = "webdav"
    /\ up[w].step = "archives" /\ IndexIsLast(w)
    /\ Counted("failures", MaxFailures)
    /\ late' = late \cup {up[w].snap}
    /\ up' = [up EXCEPT ![w] = Idle]
    /\ UNCHANGED <<transport, stored, index, cache, down, staged, published>>

LatePut(snap) ==
    /\ snap \in late
    /\ late' = late \ {snap}
    /\ index' = snap /\ published' = published \cup {snap}
    /\ UNCHANGED <<transport, stored, up, cache, down, staged, counts>>

UploadDies(w) ==
    /\ up[w] # Idle
    /\ Counted("failures", MaxFailures)
    /\ up' = [up EXCEPT ![w] = Idle]
    /\ UNCHANGED <<transport, stored, index, late, cache, down, staged, published>>

-----------------------------------------------------------------------------
(* download_snapshot *)

\* What is not JSON is an error before anything is written.
ReadIndex ==
    /\ down = NoDownload
    /\ index # Torn
    /\ Counted("downloads", MaxDownloads)
    /\ cache' = [cache EXCEPT !.index = Torn]
    /\ down' = [NoDownload EXCEPT !.step = "index", !.index = index]
    /\ UNCHANGED <<transport, stored, index, late, up, staged, published>>

CacheIndex ==
    /\ down.step = "index"
    /\ cache' = [cache EXCEPT !.index = down.index]
    /\ down' = [down EXCEPT !.step = "archives", !.todo = ArchivesOf(down.index)]
    /\ UNCHANGED <<transport, stored, index, late, up, staged, published, counts>>

\* mutant: a file that exists is not fetched again
ExistsInCache(a) == cache.archives[a] # "absent"
InCache(a) == cache.archives[a] \notin {"absent", "empty"}

KeepCached(a) ==
    /\ down.step = "archives" /\ a \in down.todo
    /\ InCache(a)
    /\ down' = [down EXCEPT !.todo = @ \ {a}]
    /\ UNCHANGED <<transport, stored, index, late, up, cache, staged, published, counts>>

FetchArchive(a) ==
    /\ down.step = "archives" /\ a \in down.todo
    /\ ~ InCache(a) /\ stored[a] # "absent"
    /\ cache' = [cache EXCEPT !.archives[a] = "empty"]
    /\ down' = [down EXCEPT !.step = "write", !.at = a, !.data = stored[a]]
    /\ UNCHANGED <<transport, stored, index, late, up, staged, published, counts>>

WriteArchive ==
    /\ down.step = "write"
    /\ cache' = [cache EXCEPT !.archives[down.at] = down.data]
    /\ down' = [down EXCEPT !.step = "archives", !.todo = @ \ {down.at},
                            !.at = Absent, !.data = "absent"]
    /\ UNCHANGED <<transport, stored, index, late, up, staged, published, counts>>

Downloaded ==
    /\ down.step = "archives" /\ down.todo = {}
    /\ down' = NoDownload
    /\ UNCHANGED <<transport, stored, index, late, up, cache, staged, published, counts>>

\* A missing archive is an error; the process may die, in the middle of a file.
DownloadFails ==
    /\ \/ /\ down.step = "archives"
          /\ \E a \in down.todo : ~ InCache(a) /\ stored[a] = "absent"
          /\ UNCHANGED <<cache, counts>>
       \/ /\ down # NoDownload
          /\ Counted("failures", MaxFailures)
          /\ IF down.step = "write"
             THEN \E left \in {"empty", "torn"} :
                     cache' = [cache EXCEPT !.archives[down.at] = left]
             ELSE UNCHANGED cache
    /\ down' = NoDownload
    /\ UNCHANGED <<transport, stored, index, late, up, staged, published>>

-----------------------------------------------------------------------------
(* stage_snapshot: by a cycle after its download, or by an operator's command *)
(* on the cache as it is.  One archive that is not whole refuses them all.    *)

Valid(a) == cache.archives[a] = "whole"

Stage ==
    /\ down = NoDownload
    /\ cache.index # Torn
    /\ \A a \in ArchivesOf(cache.index) : Valid(a)
    /\ staged' = [s \in Skills |->
          IF cache.index[s] = Absent THEN Absent
          ELSE IF cache.archives[<<s, cache.index[s]>>] = "whole" THEN cache.index[s]
          ELSE Damaged]
    /\ staged' # staged
    /\ UNCHANGED <<transport, stored, index, late, up, cache, down, published, counts>>

Next ==
    \/ \E w \in Writers, mode \in Modes, snap \in Snapshots, edited \in SUBSET Archives :
          Cardinality(edited) <= MaxEdits /\ Upload(w, mode, snap, edited)
    \/ \E w \in Writers : \/ \E a \in Archives : SkipArchive(w, a) \/ PutArchive(w, a)
                          \/ ArchiveWritten(w) \/ PutIndex(w) \/ IndexWritten(w)
                          \/ PutTimesOut(w) \/ UploadDies(w)
    \/ \E snap \in late : LatePut(snap)
    \/ ReadIndex \/ CacheIndex
    \/ \E a \in Archives : KeepCached(a) \/ FetchArchive(a)
    \/ WriteArchive \/ Downloaded \/ DownloadFails \/ Stage

Spec == Init /\ [][Next]_vars

-----------------------------------------------------------------------------
(* Properties *)

\* Whatever dies, is repeated or arrives late, the index on the remote refers
\* only to archives that were written to their end (remote.py:241-256).
IndexRefersToWhole ==
    index # Torn => \A a \in ArchivesOf(index) : stored[a] \notin {"absent", "torn"}

\* What is staged for an installation is, skill by skill, an index somebody
\* put, however old, torn or mixed the files in the cache are
\* (stage.py:75-83, 114-136).
StagedWasPublished == staged \in published

\* A download that ends well leaves no archive of its index empty or missing,
\* also after one that died (remote.py:264-273).
DownloadIsComplete ==
    [][down.step = "archives" /\ down.todo = {} /\ down' = NoDownload =>
         \A a \in ArchivesOf(down.index) :
            cache.archives[a] \notin {"absent", "empty"}]_vars

-----------------------------------------------------------------------------
(* Why they hold *)

\* A remote of files is written in place (remote.py:91): one process uploads to
\* it at a time, and a cycle's upload writes again what an earlier one left torn.
OneWriterPerFile ==
    \A t \in Transports : t.kind # "webdav" =>
        t.modes \subseteq {"sync"} /\ \A v, w \in Writers : v = w

IsStored(a) == stored[a] \notin {"absent", "torn"}
AllStored(snap) == \A a \in ArchivesOf(snap) : IsStored(a)

\* An upload has stored what it has not left to do, and an archive that a file
\* remote holds in part is not one that the index lists.
UploadInOrder(w) ==
    /\ up[w].step = "idle" => up[w] = Idle
    /\ up[w].todo \subseteq ArchivesOf(up[w].snap)
    /\ up[w].step # "idle" =>
          \A a \in ArchivesOf(up[w].snap) \ up[w].todo : IsStored(a)
    /\ up[w].step \in {"archive", "index"} => transport.kind # "webdav"
    /\ up[w].step = "archive" => up[w].at \in up[w].todo
    /\ up[w].step = "index" => up[w].todo = {}
    /\ transport.kind # "webdav" => ~ up[w].skip
    /\ transport.kind # "webdav" /\ up[w].step \in {"archives", "archive"} =>
          index # Torn /\ up[w].todo \cap ArchivesOf(index) = {}
UploadsInOrder == \A w \in Writers : UploadInOrder(w)

\* What may become the index is stored already.
RemoteIsWhole ==
    /\ IndexRefersToWhole
    /\ \A snap \in late : AllStored(snap)
    /\ late # {} => transport.kind = "webdav"
    /\ transport.kind = "webdav" => \A a \in Archives : stored[a] # "torn"

\* Every index a device reads, caches or stages was put by somebody.
AllPublished ==
    /\ index \in published \cup {Torn}
    /\ cache.index \in published \cup {Torn}
    /\ down.step # "idle" => down.index \in published
    /\ staged \in published

\* What a download has not left to do lies in the cache.
DownloadInOrder ==
    /\ down.step = "idle" => down = NoDownload
    /\ down.step \in {"archives", "write"} =>
          \A a \in ArchivesOf(down.index) \ down.todo : InCache(a)
    /\ down.step = "write" => /\ down.at \in down.todo
                              /\ down.data \notin {"absent", "empty"}

TransferInv == /\ TransferTypeOK /\ UploadsInOrder /\ RemoteIsWhole
               /\ AllPublished /\ DownloadInOrder
=============================================================================
