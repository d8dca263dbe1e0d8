----------------------------- MODULE ServicesProofs -----------------------------
(***************************************************************************)
(* What serves the synchronisation keeps its promises, for any skills,     *)
(* versions, devices, records, intervals and bounds: the transfer of       *)
(* snapshots, releases of the gateway, the daemon's restart, the probe,    *)
(* the material for reviews, the review console and the status pipeline,   *)
(* each with its inductive invariant, in this order.                       *)
(***************************************************************************)
EXTENDS Services, Sequences, TLAPS, WellFoundedInduction, FiniteSetTheorems


-----------------------------------------------------------------------------
(* remote.py, snapshot.py, stage.py *)

LEMMA TransferStart ==
    /\ T!Empty \in T!Snapshot /\ T!ArchivesOf(T!Empty) = {}
    /\ T!Idle \in T!UploadState /\ T!NoDownload \in T!DownloadState
    /\ T!Torn \notin T!Snapshot
    /\ \A snap : T!ArchivesOf(snap) \subseteq T!Archives
    /\ Absent \notin T!Archives
<1>1. T!Empty \in T!Snapshot /\ T!Torn \notin T!Snapshot /\ Absent \notin T!Archives
  BY TransferAssumption DEF T!Empty, T!Snapshot, T!Torn, T!Archives
<1>2. \A snap : T!ArchivesOf(snap) \subseteq T!Archives
  BY DEF T!ArchivesOf
<1>3. T!ArchivesOf(T!Empty) = {}
  BY TransferAssumption DEF T!ArchivesOf, T!Empty, T!Archives
<1>4. T!Idle \in T!UploadState /\ T!NoDownload \in T!DownloadState
  BY <1>1 DEF T!Idle, T!NoDownload, T!UploadState, T!DownloadState, T!Files
<1> QED
  BY <1>1, <1>2, <1>3, <1>4

LEMMA TransferInit == T!Init => T!TransferInv
<1> SUFFICES ASSUME T!Init PROVE T!TransferInv
  OBVIOUS
<1>1. T!TransferTypeOK
  <2>1. tstored \in [T!Archives -> T!Files \ {"empty"}]
    BY DEF T!Init, T!Files
  <2>2. tcache \in [index: T!Snapshot \cup {T!Torn}, archives: [T!Archives -> T!Files]]
    BY TransferStart DEF T!Init, T!Files
  <2>3. tstaged \in [Skills -> Versions \cup {Absent, Damaged}]
    BY DEF T!Init, T!Empty
  <2> QED
    BY <2>1, <2>2, <2>3, TransferStart DEF T!Init, T!TransferTypeOK
<1>2. T!UploadsInOrder
  BY TransferStart DEF T!Init, T!UploadsInOrder, T!UploadInOrder, T!Idle
<1>3. T!RemoteIsWhole
  BY TransferStart DEF T!Init, T!RemoteIsWhole, T!IndexRefersToWhole
<1>4. T!AllPublished /\ T!DownloadInOrder
  BY DEF T!Init, T!AllPublished, T!DownloadInOrder, T!NoDownload
<1> QED
  BY <1>1, <1>2, <1>3, <1>4 DEF T!TransferInv

\* The steps of an upload and what each does to its own state.
LEMMA UploadMoves ==
    ASSUME T!TransferTypeOK, T!UploadsInOrder, NEW w \in Writers
    PROVE  /\ tup[w] \in T!UploadState
           /\ \A a \in T!Archives : T!SkipArchive(w, a) =>
                 /\ tup' \in [Writers -> T!UploadState]
                 /\ tup'[w] = [tup[w] EXCEPT !.todo = @ \ {a}]
                 /\ \A v \in Writers \ {w} : tup'[v] = tup[v]
           /\ \A a \in T!Archives : T!PutArchive(w, a) =>
                 /\ tup' \in [Writers -> T!UploadState]
                 /\ tup'[w] = IF ttransport.kind = "webdav"
                              THEN [tup[w] EXCEPT !.todo = @ \ {a}]
                              ELSE [tup[w] EXCEPT !.step = "archive", !.at = a]
                 /\ \A v \in Writers \ {w} : tup'[v] = tup[v]
           /\ T!ArchiveWritten(w) =>
                 /\ tup' \in [Writers -> T!UploadState]
                 /\ tup'[w] = [tup[w] EXCEPT !.step = "archives", !.todo = @ \ {tup[w].at}]
                 /\ \A v \in Writers \ {w} : tup'[v] = tup[v]
           /\ T!PutIndex(w) \/ T!IndexWritten(w) \/ T!PutTimesOut(w) \/ T!UploadDies(w) =>
                 /\ tup' \in [Writers -> T!UploadState]
                 /\ tup'[w] = T!Idle \/ tup'[w] = [tup[w] EXCEPT !.step = "index"]
                 /\ \A v \in Writers \ {w} : tup'[v] = tup[v]
<1>1. tup \in [Writers -> T!UploadState] /\ tup[w] \in T!UploadState
  BY DEF T!TransferTypeOK
<1>2. ASSUME NEW a \in T!Archives, T!SkipArchive(w, a)
      PROVE  /\ tup' \in [Writers -> T!UploadState]
             /\ tup'[w] = [tup[w] EXCEPT !.todo = @ \ {a}]
             /\ \A v \in Writers \ {w} : tup'[v] = tup[v]
  BY <1>1, <1>2 DEF T!SkipArchive, T!UploadState
<1>3. ASSUME NEW a \in T!Archives, T!PutArchive(w, a)
      PROVE  /\ tup' \in [Writers -> T!UploadState]
             /\ tup'[w] = IF ttransport.kind = "webdav"
                          THEN [tup[w] EXCEPT !.todo = @ \ {a}]
                          ELSE [tup[w] EXCEPT !.step = "archive", !.at = a]
             /\ \A v \in Writers \ {w} : tup'[v] = tup[v]
  <2>1. CASE ttransport.kind = "webdav"
    BY <1>1, <1>3, <2>1 DEF T!PutArchive, T!UploadState
  <2>2. CASE ttransport.kind # "webdav"
    <3>1. tup' = [tup EXCEPT ![w] = [@ EXCEPT !.step = "archive", !.at = a]]
      BY <1>1, <1>3, <2>2 DEF T!PutArchive
    <3>2. [tup[w] EXCEPT !.step = "archive", !.at = a] \in T!UploadState
      BY <1>1 DEF T!UploadState
    <3> QED
      BY <1>1, <2>2, <3>1, <3>2
  <2> QED
    BY <2>1, <2>2
<1>4. ASSUME T!ArchiveWritten(w)
      PROVE  /\ tup' \in [Writers -> T!UploadState]
             /\ tup'[w] = [tup[w] EXCEPT !.step = "archives", !.todo = @ \ {tup[w].at}]
             /\ \A v \in Writers \ {w} : tup'[v] = tup[v]
  BY <1>1, <1>4 DEF T!ArchiveWritten, T!UploadState
<1>5. ASSUME T!PutIndex(w) \/ T!IndexWritten(w) \/ T!PutTimesOut(w) \/ T!UploadDies(w)
      PROVE  /\ tup' \in [Writers -> T!UploadState]
             /\ tup'[w] = T!Idle \/ tup'[w] = [tup[w] EXCEPT !.step = "index"]
             /\ \A v \in Writers \ {w} : tup'[v] = tup[v]
  <2>1. \/ tup' = [tup EXCEPT ![w] = T!Idle]
        \/ tup' = [tup EXCEPT ![w].step = "index"]
    BY <1>5 DEF T!PutIndex, T!IndexWritten, T!PutTimesOut, T!UploadDies
  <2>2. T!Idle \in T!UploadState /\ [tup[w] EXCEPT !.step = "index"] \in T!UploadState
    BY <1>1, TransferStart DEF T!UploadState
  <2> QED
    BY <1>1, <2>1, <2>2
<1> QED
  BY <1>1, <1>2, <1>3, <1>4, <1>5

LEMMA TransferCounted ==
    ASSUME T!TransferTypeOK, NEW what \in {"uploads", "downloads", "failures"}, NEW max,
           T!Counted(what, max)
    PROVE  tcounts' \in [uploads: Nat, downloads: Nat, failures: Nat]
<1>1. tcounts \in [uploads: Nat, downloads: Nat, failures: Nat]
  BY DEF T!TransferTypeOK
<1>2. tcounts' = [tcounts EXCEPT ![what] = @ + 1]
  BY DEF T!Counted
<1>3. CASE what = "uploads"
  BY <1>1, <1>2, <1>3
<1>4. CASE what = "downloads"
  BY <1>1, <1>2, <1>4
<1>5. CASE what = "failures"
  BY <1>1, <1>2, <1>5
<1> QED
  BY <1>3, <1>4, <1>5

\* Uploads leave the device alone, the device leaves the remote alone.
LEMMA TransferSides ==
    ASSUME T!TransferTypeOK, [T!Next]_tvars
    PROVE  /\ UNCHANGED ttransport
           /\ \/ /\ UNCHANGED <<tcache, tdown, tstaged>>
                 /\ \/ UNCHANGED <<tstored, tindex, tlate, tup, tpublished, tcounts>>
                    \/ \E w \in Writers, mode \in T!Modes, snap \in Snapshots,
                          edited \in SUBSET T!Archives : T!Upload(w, mode, snap, edited)
                    \/ \E w \in Writers, a \in T!Archives : T!SkipArchive(w, a)
                    \/ \E w \in Writers, a \in T!Archives : T!PutArchive(w, a)
                    \/ \E w \in Writers : T!ArchiveWritten(w)
                    \/ \E w \in Writers : T!PutIndex(w)
                    \/ \E w \in Writers : T!IndexWritten(w)
                    \/ \E w \in Writers : T!PutTimesOut(w)
                    \/ \E w \in Writers : T!UploadDies(w)
                    \/ \E snap \in tlate : T!LatePut(snap)
              \/ /\ UNCHANGED <<tstored, tindex, tlate, tup, tpublished>>
                 /\ \/ T!ReadIndex \/ T!CacheIndex
                    \/ \E a \in T!Archives : T!KeepCached(a)
                    \/ \E a \in T!Archives : T!FetchArchive(a)
                    \/ T!WriteArchive \/ T!Downloaded \/ T!DownloadFails \/ T!Stage
<1>1. CASE UNCHANGED tvars
  BY <1>1 DEF tvars
<1>2. CASE \E w \in Writers, mode \in T!Modes, snap \in Snapshots,
              edited \in SUBSET T!Archives : T!Upload(w, mode, snap, edited)
  BY <1>2 DEF T!Upload
<1>3. CASE \E w \in Writers, a \in T!Archives : T!SkipArchive(w, a) \/ T!PutArchive(w, a)
  BY <1>3 DEF T!SkipArchive, T!PutArchive
<1>4. CASE \E w \in Writers : T!ArchiveWritten(w) \/ T!PutIndex(w) \/ T!IndexWritten(w)
  BY <1>4 DEF T!ArchiveWritten, T!PutIndex, T!IndexWritten
<1>5. CASE \E w \in Writers : T!PutTimesOut(w) \/ T!UploadDies(w)
  BY <1>5 DEF T!PutTimesOut, T!UploadDies
<1>6. CASE \E snap \in tlate : T!LatePut(snap)
  BY <1>6 DEF T!LatePut
<1>7. CASE T!ReadIndex \/ T!CacheIndex \/ T!WriteArchive \/ T!Downloaded
  BY <1>7 DEF T!ReadIndex, T!CacheIndex, T!WriteArchive, T!Downloaded
<1>8. CASE \E a \in T!Archives : T!KeepCached(a) \/ T!FetchArchive(a)
  BY <1>8 DEF T!KeepCached, T!FetchArchive
<1>9. CASE T!DownloadFails \/ T!Stage
  BY <1>9 DEF T!DownloadFails, T!Stage
<1> QED
  BY <1>1, <1>2, <1>3, <1>4, <1>5, <1>6, <1>7, <1>8, <1>9 DEF T!Next, tvars

LEMMA TransferCache ==
    ASSUME T!TransferTypeOK
    PROVE  /\ \A x \in T!Snapshot \cup {T!Torn} : [tcache EXCEPT !.index = x]
                 \in [index: T!Snapshot \cup {T!Torn}, archives: [T!Archives -> T!Files]]
           /\ \A a \in T!Archives, data \in T!Files : [tcache EXCEPT !.archives[a] = data]
                 \in [index: T!Snapshot \cup {T!Torn}, archives: [T!Archives -> T!Files]]
<1> DEFINE Indexes == T!Snapshot \cup {T!Torn}
           Stores == [T!Archives -> T!Files]
<1>1. tcache \in [index: Indexes, archives: Stores]
  BY DEF T!TransferTypeOK
<1>2. \A a \in T!Archives, data \in T!Files : [tcache.archives EXCEPT ![a] = data] \in Stores
  BY <1>1
<1> HIDE DEF Indexes, Stores
<1>3. \A x \in Indexes : [tcache EXCEPT !.index = x] \in [index: Indexes, archives: Stores]
  BY <1>1
<1>4. \A f \in Stores : [tcache EXCEPT !.archives = f] \in [index: Indexes, archives: Stores]
  BY <1>1
<1>5. \A a \in T!Archives, data \in T!Files :
         [tcache EXCEPT !.archives[a] = data] \in [index: Indexes, archives: Stores]
  BY <1>1, <1>2, <1>4
<1> QED
  BY <1>3, <1>5 DEF Indexes, Stores

LEMMA TransferTypeNext == T!TransferInv /\ [T!Next]_tvars => T!TransferTypeOK'
<1> SUFFICES ASSUME T!TransferInv, [T!Next]_tvars PROVE T!TransferTypeOK'
  OBVIOUS
<1>0. T!TransferTypeOK /\ T!UploadsInOrder /\ T!DownloadInOrder
  BY DEF T!TransferInv
<1>a. /\ ttransport \in Transports /\ tstored \in [T!Archives -> T!Files \ {"empty"}]
      /\ tindex \in T!Snapshot \cup {T!Torn}
      /\ tlate \subseteq T!Snapshot /\ tpublished \subseteq T!Snapshot
      /\ tup \in [Writers -> T!UploadState]
      /\ tcache \in [index: T!Snapshot \cup {T!Torn}, archives: [T!Archives -> T!Files]]
      /\ tdown \in T!DownloadState
      /\ tstaged \in [Skills -> Versions \cup {Absent, Damaged}]
      /\ tcounts \in [uploads: Nat, downloads: Nat, failures: Nat]
  BY <1>0 DEF T!TransferTypeOK
<1> USE <1>0, <1>a
<1> DEFINE Remote == /\ tstored' \in [T!Archives -> T!Files \ {"empty"}]
                     /\ tindex' \in T!Snapshot \cup {T!Torn}
                     /\ tlate' \subseteq T!Snapshot /\ tpublished' \subseteq T!Snapshot
                     /\ tup' \in [Writers -> T!UploadState]
                     /\ tcounts' \in [uploads: Nat, downloads: Nat, failures: Nat]
           Device == /\ tcache' \in [index: T!Snapshot \cup {T!Torn},
                                     archives: [T!Archives -> T!Files]]
                     /\ tdown' \in T!DownloadState
                     /\ tstaged' \in [Skills -> Versions \cup {Absent, Damaged}]
                     /\ tcounts' \in [uploads: Nat, downloads: Nat, failures: Nat]
<1>f. \A w, a : T!Bytes(w, a) \in {"mixed", "whole"}
  BY DEF T!Bytes
<1>1. ASSUME NEW w \in Writers, NEW mode \in T!Modes, NEW snap \in Snapshots,
             NEW edited \in SUBSET T!Archives, T!Upload(w, mode, snap, edited)
      PROVE  Remote
  <2>1. T!Included(mode, snap) \subseteq T!Archives /\ T!SkipsExisting(mode) \in BOOLEAN
    BY TransferStart DEF T!Included, T!SkipsExisting
  <2>2. [step |-> "archives", snap |-> snap, todo |-> T!Included(mode, snap),
         skip |-> T!SkipsExisting(mode), mixed |-> edited, at |-> Absent] \in T!UploadState
    BY <2>1, TransferAssumption DEF T!UploadState, T!Snapshot
  <2> QED
    BY <1>1, <2>2, TransferCounted DEF T!Upload
<1>2. ASSUME NEW w \in Writers, NEW a \in T!Archives, T!SkipArchive(w, a) PROVE Remote
  BY <1>2, UploadMoves DEF T!SkipArchive
<1>3. ASSUME NEW w \in Writers, NEW a \in T!Archives, T!PutArchive(w, a) PROVE Remote
  <2>1. tup' \in [Writers -> T!UploadState]
    BY <1>3, UploadMoves
  <2>2. tstored' \in [T!Archives -> T!Files \ {"empty"}]
    BY <1>3, <1>f DEF T!PutArchive, T!Files
  <2> QED
    BY <1>3, <2>1, <2>2 DEF T!PutArchive
<1>4. ASSUME NEW w \in Writers, T!ArchiveWritten(w) PROVE Remote
  <2>1. tup' \in [Writers -> T!UploadState]
    BY <1>4, UploadMoves
  <2>2. tstored' \in [T!Archives -> T!Files \ {"empty"}]
    BY <1>4, <1>f DEF T!ArchiveWritten, T!Files
  <2> QED
    BY <1>4, <2>1, <2>2 DEF T!ArchiveWritten
<1>5. ASSUME NEW w \in Writers, T!PutIndex(w) \/ T!IndexWritten(w) PROVE Remote
  <2>1. tup' \in [Writers -> T!UploadState] /\ tup[w].snap \in T!Snapshot
    BY <1>5, UploadMoves DEF T!UploadState
  <2> QED
    BY <1>5, <2>1 DEF T!PutIndex, T!IndexWritten
<1>6. ASSUME NEW w \in Writers, T!PutTimesOut(w) \/ T!UploadDies(w) PROVE Remote
  <2>1. tup' \in [Writers -> T!UploadState] /\ tup[w].snap \in T!Snapshot
    BY <1>6, UploadMoves DEF T!UploadState
  <2>2. tcounts' \in [uploads: Nat, downloads: Nat, failures: Nat]
    BY <1>6, TransferCounted DEF T!PutTimesOut, T!UploadDies
  <2> QED
    BY <1>6, <2>1, <2>2 DEF T!PutTimesOut, T!UploadDies
<1>7. ASSUME NEW snap \in tlate, T!LatePut(snap) PROVE Remote
  BY <1>7 DEF T!LatePut
<1>8. ASSUME T!ReadIndex PROVE Device
  <2>1. tdown' \in T!DownloadState
    <3>1. tindex \in T!Snapshot
      BY <1>8 DEF T!ReadIndex
    <3>2. tdown' = [T!NoDownload EXCEPT !.step = "index", !.index = tindex]
      BY <1>8 DEF T!ReadIndex
    <3> QED
      BY <3>1, <3>2, TransferStart DEF T!DownloadState
  <2>2. tcache' \in [index: T!Snapshot \cup {T!Torn}, archives: [T!Archives -> T!Files]]
    BY <1>8, TransferCache DEF T!ReadIndex
  <2> QED
    BY <1>8, <2>1, <2>2, TransferCounted DEF T!ReadIndex
<1>9. ASSUME T!CacheIndex PROVE Device
  <2>1. tdown.index \in T!Snapshot
    BY DEF T!DownloadState
  <2>2. tdown' \in T!DownloadState
    BY <1>9, <2>1, TransferStart DEF T!CacheIndex, T!DownloadState
  <2>3. tcache' \in [index: T!Snapshot \cup {T!Torn}, archives: [T!Archives -> T!Files]]
    BY <1>9, <2>1, TransferCache DEF T!CacheIndex
  <2> QED
    BY <1>9, <2>2, <2>3 DEF T!CacheIndex
<1>10. ASSUME NEW a \in T!Archives, T!KeepCached(a) PROVE Device
  <2>1. tdown' \in T!DownloadState
    BY <1>10 DEF T!KeepCached, T!DownloadState
  <2> QED
    BY <1>10, <2>1 DEF T!KeepCached
<1>11. ASSUME NEW a \in T!Archives, T!FetchArchive(a) PROVE Device
  <2>1. tstored[a] \in T!Files
    OBVIOUS
  <2>2. tdown' \in T!DownloadState
    BY <1>11, <2>1 DEF T!FetchArchive, T!DownloadState
  <2>3. tcache' \in [index: T!Snapshot \cup {T!Torn}, archives: [T!Archives -> T!Files]]
    BY <1>11, TransferCache DEF T!FetchArchive, T!Files
  <2> QED
    BY <1>11, <2>2, <2>3 DEF T!FetchArchive
<1>12. ASSUME T!WriteArchive PROVE Device
  <2>1. tdown.at \in T!Archives /\ tdown.data \in T!Files
    BY <1>12 DEF T!WriteArchive, T!DownloadInOrder, T!DownloadState
  <2>2. tdown' \in T!DownloadState
    BY <1>12, <2>1 DEF T!WriteArchive, T!DownloadState, T!Files
  <2>3. tcache' \in [index: T!Snapshot \cup {T!Torn}, archives: [T!Archives -> T!Files]]
    BY <1>12, <2>1, TransferCache DEF T!WriteArchive
  <2>4. UNCHANGED <<tstaged, tcounts>>
    BY <1>12 DEF T!WriteArchive
  <2> QED
    BY <2>2, <2>3, <2>4
<1>13. ASSUME T!Downloaded PROVE Device
  BY <1>13, TransferStart DEF T!Downloaded
<1>14. ASSUME T!DownloadFails PROVE Device
  <2>1. tcounts' \in [uploads: Nat, downloads: Nat, failures: Nat]
    BY <1>14, TransferCounted DEF T!DownloadFails
  <2>2. tcache' \in [index: T!Snapshot \cup {T!Torn}, archives: [T!Archives -> T!Files]]
    <3>1. tdown.step = "write" => tdown.at \in T!Archives
      BY DEF T!DownloadInOrder, T!DownloadState
    <3>2. \/ tcache' = tcache
          \/ /\ tdown.step = "write"
             /\ \E left \in {"empty", "torn"} :
                   tcache' = [tcache EXCEPT !.archives[tdown.at] = left]
      BY <1>14 DEF T!DownloadFails
    <3> QED
      BY <3>1, <3>2, TransferCache DEF T!Files
  <2> QED
    BY <1>14, <2>1, <2>2, TransferStart DEF T!DownloadFails
<1>15. ASSUME T!Stage PROVE Device
  <2>1. tcache.index \in T!Snapshot
    BY <1>15 DEF T!Stage
  <2>2. tstaged' \in [Skills -> Versions \cup {Absent, Damaged}]
    BY <1>15, <2>1 DEF T!Stage, T!Snapshot
  <2> QED
    BY <1>15, <2>2 DEF T!Stage
<1>16. \/ Remote /\ UNCHANGED <<tcache, tdown, tstaged>>
       \/ Device /\ UNCHANGED <<tstored, tindex, tlate, tup, tpublished>>
  <2> HIDE DEF Remote, Device
  <2>1. CASE UNCHANGED <<tcache, tdown, tstaged, tstored, tindex, tlate, tup, tpublished, tcounts>>
    BY <2>1 DEF Remote
  <2> QED
    BY <2>1, <1>1, <1>2, <1>3, <1>4, <1>5, <1>6, <1>7, <1>8, <1>9, <1>10, <1>11, <1>12,
       <1>13, <1>14, <1>15, TransferSides
<1>17. UNCHANGED ttransport
  BY TransferSides
<1> QED
  BY <1>16, <1>17 DEF T!TransferTypeOK

\* A step of an upload leaves the others in order, if it tears no archive.
LEMMA OthersInOrder ==
    ASSUME T!OneWriterPerFile, T!TransferTypeOK, T!UploadsInOrder,
           NEW w \in Writers, NEW v \in Writers \ {w},
           UNCHANGED ttransport, tup'[v] = tup[v],
           ttransport.kind = "webdav" => \A a \in T!Archives : T!IsStored(a) => T!IsStored(a)'
    PROVE  T!UploadInOrder(v)'
<1>1. ttransport.kind = "webdav"
  BY DEF T!OneWriterPerFile, T!TransferTypeOK
<1>2. T!UploadInOrder(v) /\ T!ArchivesOf(tup[v].snap) \subseteq T!Archives
  BY TransferStart DEF T!UploadsInOrder
<1> QED
  BY <1>1, <1>2 DEF T!UploadInOrder

LEMMA UploadsNext ==
    ASSUME T!OneWriterPerFile, T!TransferInv, [T!Next]_tvars
    PROVE  T!UploadsInOrder'
<1>0. /\ T!TransferTypeOK /\ T!UploadsInOrder /\ T!RemoteIsWhole
      /\ UNCHANGED ttransport
  BY TransferSides DEF T!TransferInv
<1>k. \A w \in Writers : T!UploadInOrder(w) /\ tup[w] \in T!UploadState
  BY <1>0 DEF T!UploadsInOrder, T!TransferTypeOK
<1>f. \A w, a : T!Bytes(w, a) \notin {"absent", "torn"}
  BY DEF T!Bytes
<1>t. tstored \in [T!Archives -> T!Files \ {"empty"}] /\ tup \in [Writers -> T!UploadState]
  BY <1>0 DEF T!TransferTypeOK
<1>1. ASSUME NEW w \in Writers, NEW mode \in T!Modes, NEW snap \in Snapshots,
             NEW edited \in SUBSET T!Archives, T!Upload(w, mode, snap, edited)
      PROVE  T!UploadsInOrder'
  <2> DEFINE new == [step |-> "archives", snap |-> snap, todo |-> T!Included(mode, snap),
                     skip |-> T!SkipsExisting(mode), mixed |-> edited, at |-> Absent]
  <2>1. /\ tup' = [tup EXCEPT ![w] = new] /\ UNCHANGED <<tstored, tindex>>
        /\ mode \in ttransport.modes /\ (mode # "full" => tindex # T!Torn)
    BY <1>1 DEF T!Upload
  <2>2. tup'[w] = new /\ \A v \in Writers \ {w} : tup'[v] = tup[v]
    BY <2>1, <1>t
  <2>3. T!UploadInOrder(w)'
    <3>1. T!Included(mode, snap) \subseteq T!ArchivesOf(snap)
      BY DEF T!Included
    <3>2. \A a \in T!ArchivesOf(snap) \ T!Included(mode, snap) : T!IsStored(a)
      BY <1>0, <2>1 DEF T!Included, T!RemoteIsWhole, T!IndexRefersToWhole, T!IsStored
    <3>3. ttransport.kind # "webdav" => mode = "sync"
      BY <1>0, <2>1 DEF T!OneWriterPerFile, T!TransferTypeOK
    <3>4. ttransport.kind # "webdav" =>
             /\ ~ T!SkipsExisting(mode) /\ tindex # T!Torn
             /\ T!Included(mode, snap) \cap T!ArchivesOf(tindex) = {}
      BY <2>1, <3>3 DEF T!SkipsExisting, T!Included
    <3>5. \A a : T!IsStored(a) => T!IsStored(a)'
      BY <2>1 DEF T!IsStored
    <3> QED
      BY <1>0, <2>1, <2>2, <3>1, <3>2, <3>4, <3>5 DEF T!UploadInOrder
  <2>4. \A a \in T!Archives : T!IsStored(a) => T!IsStored(a)'
    BY <2>1 DEF T!IsStored
  <2> QED
    BY <1>0, <2>2, <2>3, <2>4, OthersInOrder DEF T!UploadsInOrder
<1>2. ASSUME NEW w \in Writers, NEW a \in T!Archives, T!SkipArchive(w, a)
      PROVE  T!UploadsInOrder'
  <2>1. /\ tup'[w] = [tup[w] EXCEPT !.todo = @ \ {a}]
        /\ \A v \in Writers \ {w} : tup'[v] = tup[v]
    BY <1>0, <1>2, UploadMoves
  <2>2. /\ UNCHANGED <<tstored, tindex>> /\ tup[w].skip /\ tstored[a] # "absent"
        /\ tup[w].step = "archives"
    BY <1>2 DEF T!SkipArchive
  <2>3. T!IsStored(a)
    BY <1>0, <1>k, <2>2 DEF T!UploadInOrder, T!RemoteIsWhole, T!IsStored
  <2>4. \A b : T!IsStored(b) => T!IsStored(b)'
    BY <2>2 DEF T!IsStored
  <2>5. T!UploadInOrder(w)'
    BY <1>0, <1>k, <2>1, <2>2, <2>3, <2>4 DEF T!UploadInOrder, T!UploadState
  <2> QED
    BY <1>0, <2>1, <2>4, <2>5, OthersInOrder DEF T!UploadsInOrder
<1>3. ASSUME NEW w \in Writers, NEW a \in T!Archives, T!PutArchive(w, a)
      PROVE  T!UploadsInOrder'
  <2>1. /\ tup'[w] = IF ttransport.kind = "webdav"
                     THEN [tup[w] EXCEPT !.todo = @ \ {a}]
                     ELSE [tup[w] EXCEPT !.step = "archive", !.at = a]
        /\ \A v \in Writers \ {w} : tup'[v] = tup[v]
    BY <1>0, <1>3, UploadMoves
  <2>2. UNCHANGED tindex /\ tup[w].step = "archives" /\ a \in tup[w].todo
    BY <1>3 DEF T!PutArchive
  <2>3. CASE ttransport.kind = "webdav"
    <3>1. tstored' = [tstored EXCEPT ![a] = T!Bytes(w, a)]
      BY <1>3, <2>3 DEF T!PutArchive
    <3>2. /\ T!IsStored(a)'
          /\ \A b \in T!Archives : T!IsStored(b) => T!IsStored(b)'
      BY <3>1, <1>f, <1>t DEF T!IsStored
    <3>3. T!ArchivesOf(tup[w].snap) \subseteq T!Archives
      BY TransferStart
    <3>4. T!UploadInOrder(w)'
      BY <1>0, <1>k, <2>1, <2>2, <2>3, <3>2, <3>3 DEF T!UploadInOrder, T!UploadState
    <3> QED
      BY <1>0, <2>1, <3>2, <3>4, OthersInOrder DEF T!UploadsInOrder
  <2>4. CASE ttransport.kind # "webdav"
    <3>1. \A v \in Writers : v = w
      BY <1>0, <2>4 DEF T!OneWriterPerFile, T!TransferTypeOK
    <3>2. tstored' = [tstored EXCEPT ![a] = "torn"]
      BY <1>3, <2>4 DEF T!PutArchive
    <3>3. T!ArchivesOf(tup[w].snap) \subseteq T!Archives
      BY TransferStart
    <3>4. \A b \in T!Archives \ {a} : T!IsStored(b) => T!IsStored(b)'
      BY <3>2, <1>t DEF T!IsStored
    <3>5. tup'[w] = [tup[w] EXCEPT !.step = "archive", !.at = a]
      BY <2>1, <2>4
    <3>6. /\ tup'[w].step = "archive" /\ tup'[w].at = a /\ tup'[w].todo = tup[w].todo
          /\ tup'[w].snap = tup[w].snap /\ tup'[w].skip = tup[w].skip
      BY <1>k, <3>5 DEF T!UploadState
    <3>7. T!UploadInOrder(w)'
      BY <1>0, <1>k, <2>2, <2>4, <3>3, <3>4, <3>6 DEF T!UploadInOrder
    <3> QED
      BY <3>1, <3>7 DEF T!UploadsInOrder
  <2> QED
    BY <2>3, <2>4
<1>4. ASSUME NEW w \in Writers, T!ArchiveWritten(w)
      PROVE  T!UploadsInOrder'
  <2>1. /\ tup'[w] = [tup[w] EXCEPT !.step = "archives", !.todo = @ \ {tup[w].at}]
        /\ \A v \in Writers \ {w} : tup'[v] = tup[v]
    BY <1>0, <1>4, UploadMoves
  <2>2. /\ UNCHANGED tindex /\ tup[w].step = "archive"
        /\ tstored' = [tstored EXCEPT ![tup[w].at] = T!Bytes(w, tup[w].at)]
    BY <1>4 DEF T!ArchiveWritten
  <2>3. ttransport.kind # "webdav" /\ tup[w].at \in tup[w].todo
    BY <1>k, <2>2 DEF T!UploadInOrder
  <2>4. \A v \in Writers : v = w
    BY <1>0, <2>3 DEF T!OneWriterPerFile, T!TransferTypeOK
  <2>5. T!ArchivesOf(tup[w].snap) \subseteq T!Archives /\ tup[w].at \in T!Archives
    BY <1>k, <2>3, TransferStart DEF T!UploadInOrder
  <2>6. PICK a \in T!Archives : a = tup[w].at
    BY <2>5
  <2>7. T!IsStored(a)' /\ \A b \in T!Archives : T!IsStored(b) => T!IsStored(b)'
    <3>1. tstored'[a] \notin {"absent", "torn"}
      BY <2>2, <2>6, <1>f, <1>t
    <3>2. \A b \in T!Archives : tstored'[b] = tstored[b] \/ b = a
      BY <2>2, <2>6, <1>t
    <3> QED
      BY <3>1, <3>2 DEF T!IsStored
  <2>8. T!UploadInOrder(w)'
    BY <1>0, <1>k, <2>1, <2>2, <2>3, <2>5, <2>6, <2>7 DEF T!UploadInOrder, T!UploadState
  <2> QED
    BY <2>4, <2>8 DEF T!UploadsInOrder
<1>5. ASSUME NEW w \in Writers,
             T!PutIndex(w) \/ T!IndexWritten(w) \/ T!PutTimesOut(w) \/ T!UploadDies(w)
      PROVE  T!UploadsInOrder'
  <2>1. \A v \in Writers \ {w} : tup'[v] = tup[v]
    BY <1>0, <1>5, UploadMoves
  <2>2. UNCHANGED tstored
    BY <1>5 DEF T!PutIndex, T!IndexWritten, T!PutTimesOut, T!UploadDies
  <2>3. \A b : T!IsStored(b) => T!IsStored(b)'
    BY <2>2 DEF T!IsStored
  <2>4. T!UploadInOrder(w)'
    <3>1. CASE tup'[w] = T!Idle
      BY <3>1, TransferStart DEF T!UploadInOrder, T!Idle
    <3>2. CASE tup'[w] # T!Idle
      <4>1. tup'[w] = [tup[w] EXCEPT !.step = "index"]
        BY <1>0, <1>5, <3>2, UploadMoves
      <4>2. T!PutIndex(w)
        BY <1>5, <1>t, <3>2 DEF T!IndexWritten, T!PutTimesOut, T!UploadDies
      <4>3. /\ ttransport.kind # "webdav" /\ tup[w].todo = {}
            /\ tup[w].step = "archives"
        BY <1>t, <3>2, <4>2 DEF T!PutIndex, T!IndexIsLast
      <4> QED
        BY <1>0, <1>k, <2>3, <4>1, <4>3 DEF T!UploadInOrder, T!UploadState
    <3> QED
      BY <3>1, <3>2
  <2> QED
    BY <1>0, <2>1, <2>3, <2>4, OthersInOrder DEF T!UploadsInOrder
<1>6. ASSUME NEW snap \in tlate, T!LatePut(snap)
      PROVE  T!UploadsInOrder'
  <2>1. UNCHANGED <<tup, tstored>> /\ ttransport.kind = "webdav"
    BY <1>0, <1>6 DEF T!LatePut, T!RemoteIsWhole
  <2>2. \A b : T!IsStored(b) => T!IsStored(b)'
    BY <2>1 DEF T!IsStored
  <2> QED
    BY <1>0, <1>k, <2>1, <2>2 DEF T!UploadInOrder, T!UploadsInOrder
<1>7. CASE UNCHANGED <<tstored, tindex, tup>>
  BY <1>0, <1>k, <1>7 DEF T!UploadsInOrder, T!UploadInOrder, T!IsStored
<1> QED
  BY <1>0, <1>1, <1>2, <1>3, <1>4, <1>5, <1>6, <1>7, TransferSides

LEMMA RemoteNext ==
    ASSUME T!TransferInv, [T!Next]_tvars
    PROVE  T!RemoteIsWhole'
<1>0. /\ T!TransferTypeOK /\ T!UploadsInOrder /\ T!RemoteIsWhole
      /\ UNCHANGED ttransport
  BY TransferSides DEF T!TransferInv
<1>k. \A w \in Writers : T!UploadInOrder(w) /\ tup[w] \in T!UploadState
  BY <1>0 DEF T!UploadsInOrder, T!TransferTypeOK
<1>f. \A w, a : T!Bytes(w, a) \notin {"absent", "torn"}
  BY DEF T!Bytes
<1>t. /\ tstored \in [T!Archives -> T!Files \ {"empty"}] /\ tup \in [Writers -> T!UploadState]
      /\ \A snap : T!ArchivesOf(snap) \subseteq T!Archives
  BY <1>0, TransferStart DEF T!TransferTypeOK
<1>r. /\ tindex # T!Torn => T!AllStored(tindex)
      /\ \A snap \in tlate : T!AllStored(snap)
      /\ tlate # {} => ttransport.kind = "webdav"
      /\ ttransport.kind = "webdav" => \A a \in T!Archives : tstored[a] # "torn"
  BY <1>0 DEF T!RemoteIsWhole, T!IndexRefersToWhole, T!AllStored, T!IsStored
<1>1. ASSUME NEW w \in Writers, NEW a \in T!Archives, T!PutArchive(w, a)
      PROVE  T!RemoteIsWhole'
  <2>1. /\ UNCHANGED <<tindex, tlate>> /\ tup[w].step = "archives" /\ a \in tup[w].todo
        /\ tstored' = [tstored EXCEPT ![a] =
              IF ttransport.kind = "webdav" THEN T!Bytes(w, a) ELSE "torn"]
    BY <1>1 DEF T!PutArchive
  <2>2. CASE ttransport.kind = "webdav"
    <3>1. /\ \A b \in T!Archives : T!IsStored(b) => T!IsStored(b)'
          /\ \A b \in T!Archives : tstored'[b] # "torn"
      BY <1>f, <1>t, <1>r, <2>1, <2>2 DEF T!IsStored
    <3> QED
      BY <1>0, <1>t, <1>r, <2>1, <2>2, <3>1
      DEF T!RemoteIsWhole, T!IndexRefersToWhole, T!AllStored, T!IsStored
  <2>3. CASE ttransport.kind # "webdav"
    <3>1. tlate = {} /\ a \notin T!ArchivesOf(tindex)
      BY <1>k, <1>r, <2>1, <2>3 DEF T!UploadInOrder
    <3>2. \A b \in T!Archives \ {a} : tstored'[b] = tstored[b]
      BY <1>t, <2>1
    <3> QED
      BY <1>0, <1>t, <1>r, <2>1, <2>3, <3>1, <3>2
      DEF T!RemoteIsWhole, T!IndexRefersToWhole, T!AllStored, T!IsStored
  <2> QED
    BY <2>2, <2>3
<1>2. ASSUME NEW w \in Writers, T!ArchiveWritten(w)
      PROVE  T!RemoteIsWhole'
  <2>1. /\ UNCHANGED <<tindex, tlate>> /\ tup[w].step = "archive"
        /\ tstored' = [tstored EXCEPT ![tup[w].at] = T!Bytes(w, tup[w].at)]
    BY <1>2 DEF T!ArchiveWritten
  <2>2. \A b \in T!Archives : tstored'[b] = tstored[b] \/ tstored'[b] \notin {"absent", "torn"}
    BY <1>f, <1>t, <2>1
  <2> QED
    BY <1>0, <1>t, <1>r, <2>1, <2>2
    DEF T!RemoteIsWhole, T!IndexRefersToWhole, T!AllStored, T!IsStored
<1>3. ASSUME NEW w \in Writers, T!PutIndex(w) \/ T!IndexWritten(w) \/ T!PutTimesOut(w)
      PROVE  T!RemoteIsWhole'
  <2>1. /\ UNCHANGED tstored /\ tup[w].step # "idle" /\ tup[w].todo = {}
        /\ tindex' \in {tindex, T!Torn, tup[w].snap}
        /\ tlate' = tlate \/ (tlate' = tlate \cup {tup[w].snap} /\ ttransport.kind = "webdav")
    BY <1>k, <1>3 DEF T!PutIndex, T!IndexWritten, T!PutTimesOut, T!IndexIsLast, T!UploadInOrder
  <2>2. T!AllStored(tup[w].snap)
    BY <1>k, <2>1 DEF T!UploadInOrder, T!AllStored
  <2> QED
    BY <1>0, <1>r, <2>1, <2>2
    DEF T!RemoteIsWhole, T!IndexRefersToWhole, T!AllStored, T!IsStored
<1>4. ASSUME NEW snap \in tlate, T!LatePut(snap)
      PROVE  T!RemoteIsWhole'
  BY <1>0, <1>r, <1>4
  DEF T!LatePut, T!RemoteIsWhole, T!IndexRefersToWhole, T!AllStored, T!IsStored
<1>5. CASE UNCHANGED <<tstored, tindex, tlate>>
  BY <1>0, <1>5 DEF T!RemoteIsWhole, T!IndexRefersToWhole, T!AllStored, T!IsStored
<1>6. ASSUME NEW w \in Writers, NEW mode \in T!Modes, NEW snap \in Snapshots,
             NEW edited \in SUBSET T!Archives, T!Upload(w, mode, snap, edited)
      PROVE  UNCHANGED <<tstored, tindex, tlate>>
  BY <1>6 DEF T!Upload
<1>7. ASSUME NEW w \in Writers, NEW a \in T!Archives, T!SkipArchive(w, a)
      PROVE  UNCHANGED <<tstored, tindex, tlate>>
  BY <1>7 DEF T!SkipArchive
<1>8. ASSUME NEW w \in Writers, T!UploadDies(w)
      PROVE  UNCHANGED <<tstored, tindex, tlate>>
  BY <1>8 DEF T!UploadDies
<1> QED
  BY <1>0, <1>1, <1>2, <1>3, <1>4, <1>5, <1>6, <1>7, <1>8, TransferSides

\* What is staged is the index the cache holds, skill by skill.
LEMMA StagedIsCached ==
    ASSUME T!TransferTypeOK, T!Stage
    PROVE  tstaged' = tcache.index
<1>1. tcache.index \in T!Snapshot
  BY DEF T!Stage, T!TransferTypeOK
<1>2. \A a \in T!ArchivesOf(tcache.index) : tcache.archives[a] = "whole"
  BY DEF T!Stage, T!Valid
<1>3. \A s \in Skills : tcache.index[s] # Absent =>
         tcache.archives[<<s, tcache.index[s]>>] = "whole"
  BY <1>1, <1>2 DEF T!ArchivesOf, T!Archives, T!Snapshot
<1>4. tstaged' = [s \in Skills |->
          IF tcache.index[s] = Absent THEN Absent
          ELSE IF tcache.archives[<<s, tcache.index[s]>>] = "whole" THEN tcache.index[s]
          ELSE Damaged]
  BY DEF T!Stage
<1>5. tstaged' = [s \in Skills |-> tcache.index[s]]
  BY <1>3, <1>4
<1> QED
  BY <1>1, <1>5 DEF T!Snapshot

LEMMA PublishedNext ==
    ASSUME T!TransferInv, [T!Next]_tvars
    PROVE  T!AllPublished'
<1>0. T!TransferTypeOK /\ T!AllPublished /\ T!DownloadInOrder
  BY DEF T!TransferInv
<1>t. /\ tdown \in T!DownloadState
      /\ tcache \in [index: T!Snapshot \cup {T!Torn}, archives: [T!Archives -> T!Files]]
  BY <1>0 DEF T!TransferTypeOK
<1>1. ASSUME NEW w \in Writers, T!PutIndex(w) \/ T!IndexWritten(w),
             UNCHANGED <<tcache, tdown, tstaged>>
      PROVE  T!AllPublished'
  BY <1>0, <1>1 DEF T!PutIndex, T!IndexWritten, T!AllPublished
<1>2. ASSUME NEW snap \in tlate, T!LatePut(snap), UNCHANGED <<tcache, tdown, tstaged>>
      PROVE  T!AllPublished'
  BY <1>0, <1>2 DEF T!LatePut, T!AllPublished
<1>3. CASE T!ReadIndex
  <2>1. /\ tdown'.index = tindex /\ tcache'.index = T!Torn /\ tindex # T!Torn
        /\ UNCHANGED <<tindex, tpublished, tstaged>>
    BY <1>t, <1>3 DEF T!ReadIndex, T!NoDownload
  <2> QED
    BY <1>0, <2>1 DEF T!AllPublished
<1>4. CASE T!CacheIndex
  <2>1. /\ tdown'.index = tdown.index /\ tcache'.index = tdown.index /\ tdown.step # "idle"
        /\ UNCHANGED <<tindex, tpublished, tstaged>>
    BY <1>t, <1>4 DEF T!CacheIndex, T!DownloadState
  <2> QED
    BY <1>0, <2>1 DEF T!AllPublished
<1>5. ASSUME NEW a \in T!Archives, T!KeepCached(a) \/ T!FetchArchive(a)
      PROVE  T!AllPublished'
  <2>1. /\ tdown'.index = tdown.index /\ tcache'.index = tcache.index /\ tdown.step # "idle"
        /\ UNCHANGED <<tindex, tpublished, tstaged>>
    BY <1>t, <1>5 DEF T!KeepCached, T!FetchArchive, T!DownloadState
  <2> QED
    BY <1>0, <2>1 DEF T!AllPublished
<1>6. CASE T!WriteArchive
  <2>1. /\ tdown'.index = tdown.index /\ tcache'.index = tcache.index /\ tdown.step # "idle"
        /\ UNCHANGED <<tindex, tpublished, tstaged>>
    BY <1>t, <1>6 DEF T!WriteArchive, T!DownloadState
  <2> QED
    BY <1>0, <2>1 DEF T!AllPublished
<1>7. CASE T!Downloaded \/ T!DownloadFails
  <2>1. /\ tdown' = T!NoDownload
        /\ UNCHANGED <<tindex, tpublished, tstaged>>
    BY <1>7 DEF T!Downloaded, T!DownloadFails
  <2>2. tcache'.index = tcache.index
    BY <1>t, <1>7 DEF T!Downloaded, T!DownloadFails
  <2> QED
    BY <1>0, <2>1, <2>2 DEF T!AllPublished, T!NoDownload
<1>8. CASE T!Stage
  <2>1. /\ tstaged' = tcache.index /\ tcache.index # T!Torn
        /\ UNCHANGED <<tindex, tpublished, tcache, tdown>>
    BY <1>0, <1>8, StagedIsCached DEF T!Stage
  <2> QED
    BY <1>0, <2>1 DEF T!AllPublished
<1>9. CASE UNCHANGED <<tindex, tpublished, tcache, tdown, tstaged>>
  BY <1>0, <1>9 DEF T!AllPublished
<1>10. ASSUME NEW w \in Writers, NEW mode \in T!Modes, NEW snap \in Snapshots,
             NEW edited \in SUBSET T!Archives, T!Upload(w, mode, snap, edited)
      PROVE  UNCHANGED <<tindex, tpublished>>
  BY <1>10 DEF T!Upload
<1>11. ASSUME NEW w \in Writers, NEW a \in T!Archives, T!SkipArchive(w, a) \/ T!PutArchive(w, a)
      PROVE  UNCHANGED <<tindex, tpublished>>
  BY <1>11 DEF T!SkipArchive, T!PutArchive
<1>12. ASSUME NEW w \in Writers, T!ArchiveWritten(w) \/ T!PutTimesOut(w) \/ T!UploadDies(w)
      PROVE  UNCHANGED <<tindex, tpublished>>
  BY <1>12 DEF T!ArchiveWritten, T!PutTimesOut, T!UploadDies
<1> QED
  BY <1>0, <1>1, <1>2, <1>3, <1>4, <1>5, <1>6, <1>7, <1>8, <1>9, <1>10, <1>11, <1>12,
     TransferSides

LEMMA DownloadNext ==
    ASSUME T!TransferInv, [T!Next]_tvars
    PROVE  T!DownloadInOrder'
<1>0. T!TransferTypeOK /\ T!DownloadInOrder
  BY DEF T!TransferInv
<1>t. /\ tdown \in T!DownloadState
      /\ tcache \in [index: T!Snapshot \cup {T!Torn}, archives: [T!Archives -> T!Files]]
      /\ tstored \in [T!Archives -> T!Files \ {"empty"}]
      /\ \A snap : T!ArchivesOf(snap) \subseteq T!Archives
  BY <1>0, TransferStart DEF T!TransferTypeOK
<1>1. CASE UNCHANGED <<tcache, tdown>>
  BY <1>0, <1>1 DEF T!DownloadInOrder, T!InCache
<1>2. CASE T!ReadIndex
  <2>1. tdown'.step = "index"
    BY <1>2 DEF T!ReadIndex, T!NoDownload
  <2> QED
    BY <2>1 DEF T!DownloadInOrder
<1>3. CASE T!CacheIndex
  <2>1. /\ tdown'.step = "archives" /\ tdown'.index = tdown.index
        /\ tdown'.todo = T!ArchivesOf(tdown.index)
    BY <1>t, <1>3 DEF T!CacheIndex, T!DownloadState
  <2> QED
    BY <2>1 DEF T!DownloadInOrder
<1>4. ASSUME NEW a \in T!Archives, T!KeepCached(a)
      PROVE  T!DownloadInOrder'
  <2>1. /\ tdown'.step = "archives" /\ tdown.step = "archives" /\ tdown'.index = tdown.index
        /\ tdown'.todo = tdown.todo \ {a} /\ T!InCache(a) /\ UNCHANGED tcache
    BY <1>t, <1>4 DEF T!KeepCached, T!DownloadState
  <2> QED
    BY <1>0, <2>1 DEF T!DownloadInOrder, T!InCache
<1>5. ASSUME NEW a \in T!Archives, T!FetchArchive(a)
      PROVE  T!DownloadInOrder'
  <2>1. /\ tdown.step = "archives" /\ a \in tdown.todo /\ tstored[a] # "absent"
        /\ tdown' = [tdown EXCEPT !.step = "write", !.at = a, !.data = tstored[a]]
        /\ tcache' = [tcache EXCEPT !.archives[a] = "empty"]
    BY <1>5 DEF T!FetchArchive
  <2>2. /\ tdown'.step = "write" /\ tdown'.index = tdown.index
        /\ tdown'.todo = tdown.todo /\ tdown'.at = a /\ tdown'.data = tstored[a]
    BY <1>t, <2>1 DEF T!DownloadState
  <2>3. \A b \in T!Archives \ {a} : tcache'.archives[b] = tcache.archives[b]
    BY <1>t, <2>1
  <2>4. tstored[a] \notin {"absent", "empty"}
    BY <1>t, <2>1
  <2> QED
    BY <1>0, <1>t, <2>1, <2>2, <2>3, <2>4 DEF T!DownloadInOrder, T!InCache
<1>6. CASE T!WriteArchive
  <2>1. /\ tdown.step = "write"
        /\ tdown' = [tdown EXCEPT !.step = "archives", !.todo = @ \ {tdown.at},
                                  !.at = Absent, !.data = "absent"]
        /\ tcache' = [tcache EXCEPT !.archives[tdown.at] = tdown.data]
    BY <1>6 DEF T!WriteArchive
  <2>2. tdown.at \in T!Archives /\ tdown.data \notin {"absent", "empty"}
    BY <1>0, <1>t, <2>1 DEF T!DownloadInOrder, T!DownloadState
  <2>3. /\ tdown'.step = "archives" /\ tdown'.index = tdown.index
        /\ tdown'.todo = tdown.todo \ {tdown.at}
    BY <1>t, <2>1 DEF T!DownloadState
  <2>4. \A b \in T!Archives : tcache'.archives[b] = IF b = tdown.at THEN tdown.data
                                                    ELSE tcache.archives[b]
    BY <1>t, <2>1, <2>2
  <2> QED
    BY <1>0, <1>t, <2>1, <2>2, <2>3, <2>4 DEF T!DownloadInOrder, T!InCache
<1>7. CASE T!Downloaded \/ T!DownloadFails
  <2>1. tdown' = T!NoDownload
    BY <1>7 DEF T!Downloaded, T!DownloadFails
  <2> QED
    BY <2>1 DEF T!DownloadInOrder, T!NoDownload
<1>8. ASSUME T!Stage PROVE UNCHANGED <<tcache, tdown>>
  BY <1>8 DEF T!Stage
<1> QED
  BY <1>0, <1>1, <1>2, <1>3, <1>4, <1>5, <1>6, <1>7, <1>8, TransferSides

\* The transfer's inductive invariant: what may become the index is stored, what
\* a device read was put, and what a download has done lies in its cache.
THEOREM TransferInvariance ==
    ASSUME T!OneWriterPerFile
    PROVE  T!Spec => []T!TransferInv
<1>1. T!TransferInv /\ [T!Next]_tvars => T!TransferInv'
  BY TransferTypeNext, UploadsNext, RemoteNext, PublishedNext, DownloadNext
  DEF T!TransferInv
<1>2. T!Spec => T!Init /\ [][T!Next]_tvars
  BY DEF T!Spec, T!vars, tvars
<1> QED
  BY <1>1, <1>2, TransferInit, PTL

\* remote.py:241-273, stage.py:75-136: for any writers, snapshots, deaths and late
\* requests the index refers to whole archives, what is staged was published,
\* and a download leaves nothing out.
THEOREM StagedIsPublishedEver ==
    ASSUME T!OneWriterPerFile
    PROVE  ServiceSpec => StagedIsPublished
<1>1. T!TransferInv => T!IndexRefersToWhole /\ T!StagedWasPublished
  BY DEF T!TransferInv, T!RemoteIsWhole, T!AllPublished, T!StagedWasPublished
<1>2. T!TransferInv => (tdown.step = "archives" /\ tdown.todo = {} /\ tdown' = T!NoDownload =>
         \A a \in T!ArchivesOf(tdown.index) : tcache.archives[a] \notin {"absent", "empty"})
  BY DEF T!TransferInv, T!DownloadInOrder, T!InCache
<1>3. ServiceSpec => T!Spec
  BY DEF ServiceSpec
<1> QED
  BY <1>1, <1>2, <1>3, TransferInvariance, PTL
  DEF StagedIsPublished, T!DownloadIsComplete, tvars, T!vars

-----------------------------------------------------------------------------
(* openclaw_release.py *)

LEMMA ReleaseInit == O!Init => O!ReleaseInv
<1> SUFFICES ASSUME O!Init PROVE O!ReleaseInv
  OBVIOUS
<1>1. O!ReleaseTypeOK
  <2>1. oretention \in [timer: BOOLEAN, running: BOOLEAN]
    <3>1. PICK on \in BOOLEAN : oretention = [timer |-> on, running |-> FALSE]
      BY Zenon DEF O!Init
    <3>2. [timer |-> on, running |-> FALSE] \in [timer: BOOLEAN, running: BOOLEAN]
      OBVIOUS
    <3> QED
      BY <3>1, <3>2
  <2>2. ounits \in [UnitFiles -> {"absent", "old"}]
    BY DEF O!Init
  <2> QED
    BY <2>1, <2>2 DEF O!Init, O!ReleaseTypeOK, O!Jobs
<1>2. O!BackupIsThere
  BY DEF O!Init, O!BackupIsThere, O!SavedBeforeSwitched
<1>3. O!ServicesWait /\ O!PartsInPlace
  BY DEF O!Init, O!ServicesWait, O!PartsInPlace
<1> QED
  BY <1>1, <1>2, <1>3 DEF O!ReleaseInv

LEMMA ReleaseTypeNext == O!ReleaseInv /\ [O!Next]_ovars => O!ReleaseTypeOK'
<1> SUFFICES ASSUME O!ReleaseInv, [O!Next]_ovars PROVE O!ReleaseTypeOK'
  OBVIOUS
<1> USE DEF O!ReleaseInv, O!ReleaseTypeOK, O!Step, O!Installed, O!Services, O!Jobs
<1>1. CASE O!Promote
  BY <1>1 DEF O!Promote, O!BackupIsThere
<1>2. CASE O!FindWindow
  BY <1>2 DEF O!FindWindow, O!BackupIsThere
<1>3. CASE O!Save
  <2>1. O!Saved \in [link: {"absent", "previous", "next"},
                      units: [UnitFiles -> {"absent", "old", "new"}], timer: BOOLEAN]
    BY DEF O!Saved
  <2> QED
    BY <1>3, <2>1 DEF O!Save
<1>4. CASE O!StopSync
  BY <1>4 DEF O!StopSync, O!BackupIsThere
<1>5. CASE O!StopPeerTimer
  BY <1>5 DEF O!StopPeerTimer, O!BackupIsThere
<1>6. CASE O!WaitForPeer
  BY <1>6 DEF O!WaitForPeer, O!BackupIsThere
<1>7. CASE O!SwitchLink
  BY <1>7 DEF O!SwitchLink, O!BackupIsThere
<1>8. CASE O!UnitsWritten
  BY <1>8 DEF O!UnitsWritten, O!BackupIsThere
<1>9. CASE O!StartSync
  BY <1>9 DEF O!StartSync, O!BackupIsThere
<1>10. CASE O!StartPeerTimer
  BY <1>10 DEF O!StartPeerTimer, O!BackupIsThere
<1>11. CASE O!StartRetention
  BY <1>11 DEF O!StartRetention, O!BackupIsThere
<1>12. CASE O!CheckActive
  BY <1>12 DEF O!CheckActive, O!BackupIsThere
<1>13. CASE O!Fails
  BY <1>13 DEF O!Fails, O!BackupIsThere
<1>14. CASE O!RollBackByHand
  BY <1>14 DEF O!RollBackByHand, O!BackupIsThere
<1>15. CASE O!StopRetention
  BY <1>15 DEF O!StopRetention, O!BackupIsThere, O!RetentionStopped
<1>16. CASE O!RollbackStopsSync
  BY <1>16 DEF O!RollbackStopsSync, O!BackupIsThere
<1>17. CASE O!UnitsRestored
  BY <1>17 DEF O!UnitsRestored, O!BackupIsThere
<1>18. CASE O!RestoreLink
  BY <1>18 DEF O!RestoreLink, O!BackupIsThere
<1>19. CASE O!RollbackStartsSync
  BY <1>19 DEF O!RollbackStartsSync, O!BackupIsThere
<1>20. CASE O!RestoreTimer
  BY <1>20 DEF O!RestoreTimer, O!BackupIsThere
<1>21. CASE O!RollbackStartsPeer
  BY <1>21 DEF O!RollbackStartsPeer, O!BackupIsThere
<1>22. CASE O!Dies
  BY <1>22 DEF O!Dies, O!BackupIsThere
<1>23. CASE O!PublisherStarts
  <2>1. opeer' \in [timer: BOOLEAN, running: BOOLEAN]
    BY <1>23 DEF O!PublisherStarts
  <2>2. ocounts' \in [releases: Nat, failures: Nat, ticks: Nat]
    BY <1>23 DEF O!PublisherStarts, O!Tick
  <2>3. UNCHANGED <<olink, ounits, osync, oretention, obackup, ojob>>
    BY <1>23 DEF O!PublisherStarts, O!Tick
  <2> QED
    BY <2>1, <2>2, <2>3
<1>24. CASE O!PublisherEnds
  <2>1. opeer' \in [timer: BOOLEAN, running: BOOLEAN]
    BY <1>24 DEF O!PublisherEnds
  <2> QED
    BY <1>24, <2>1 DEF O!PublisherEnds
<1>25. CASE O!RetentionStarts
  <2>1. oretention' \in [timer: BOOLEAN, running: BOOLEAN]
    BY <1>25 DEF O!RetentionStarts
  <2>2. ocounts' \in [releases: Nat, failures: Nat, ticks: Nat]
    BY <1>25 DEF O!RetentionStarts, O!Tick
  <2>3. UNCHANGED <<olink, ounits, osync, opeer, obackup, ojob>>
    BY <1>25 DEF O!RetentionStarts, O!Tick
  <2> QED
    BY <2>1, <2>2, <2>3
<1>26. CASE O!RetentionEnds
  <2>1. oretention' \in [timer: BOOLEAN, running: BOOLEAN]
    BY <1>26 DEF O!RetentionEnds
  <2> QED
    BY <1>26, <2>1 DEF O!RetentionEnds
<1>27. CASE O!CycleBegins
  BY <1>27 DEF O!CycleBegins, O!Tick, O!BackupIsThere
<1>28. CASE O!CycleEnds
  BY <1>28 DEF O!CycleEnds, O!BackupIsThere
<1>29. ASSUME NEW f \in UnitFiles, O!WriteUnit(f) PROVE O!ReleaseTypeOK'
  BY <1>29 DEF O!WriteUnit, O!BackupIsThere
<1>30. ASSUME NEW f \in UnitFiles, O!RestoreUnit(f) PROVE O!ReleaseTypeOK'
  <2>1. obackup # O!NoBackup
    BY <1>30 DEF O!RestoreUnit, O!BackupIsThere
  <2>2. obackup.units[f] \in {"absent", "old", "new"}
    BY <2>1
  <2> QED
    BY <1>30, <2>2 DEF O!RestoreUnit, O!RestoredUnit
<1>31. CASE UNCHANGED ovars
  BY <1>31 DEF ovars, O!BackupIsThere
<1> QED
  BY <1>1, <1>2, <1>3, <1>4, <1>5, <1>6, <1>7, <1>8, <1>9, <1>10, <1>11, <1>12, <1>13, <1>14, <1>15, <1>16, <1>17, <1>18, <1>19, <1>20, <1>21, <1>22, <1>23, <1>24, <1>25, <1>26, <1>27, <1>28, <1>29, <1>30, <1>31 DEF O!Next, O!Systemd

LEMMA BackupNext == O!ReleaseInv /\ [O!Next]_ovars => O!BackupIsThere'
<1> SUFFICES ASSUME O!ReleaseInv, [O!Next]_ovars PROVE O!BackupIsThere'
  OBVIOUS
<1> USE DEF O!ReleaseInv, O!BackupIsThere, O!SavedBeforeSwitched, O!Step, O!Installed, O!Services
<1>1. CASE O!Promote
  BY <1>1 DEF O!Promote, O!ReleaseTypeOK
<1>2. CASE O!FindWindow
  BY <1>2 DEF O!FindWindow, O!ReleaseTypeOK
<1>3. CASE O!Save
  <2>1. O!Saved # O!NoBackup
    BY DEF O!Saved, O!NoBackup, O!ReleaseTypeOK
  <2> QED
    BY <1>3, <2>1 DEF O!Save
<1>4. CASE O!StopSync
  BY <1>4 DEF O!StopSync, O!ReleaseTypeOK
<1>5. CASE O!StopPeerTimer
  BY <1>5 DEF O!StopPeerTimer, O!ReleaseTypeOK
<1>6. CASE O!WaitForPeer
  BY <1>6 DEF O!WaitForPeer, O!ReleaseTypeOK
<1>7. CASE O!SwitchLink
  BY <1>7 DEF O!SwitchLink, O!ReleaseTypeOK
<1>8. CASE O!UnitsWritten
  BY <1>8 DEF O!UnitsWritten, O!ReleaseTypeOK
<1>9. CASE O!StartSync
  BY <1>9 DEF O!StartSync, O!ReleaseTypeOK
<1>10. CASE O!StartPeerTimer
  BY <1>10 DEF O!StartPeerTimer, O!ReleaseTypeOK
<1>11. CASE O!StartRetention
  BY <1>11 DEF O!StartRetention, O!ReleaseTypeOK
<1>12. CASE O!CheckActive
  BY <1>12 DEF O!CheckActive, O!ReleaseTypeOK
<1>13. CASE O!Fails
  BY <1>13 DEF O!Fails, O!ReleaseTypeOK, O!BackedUp
<1>14. CASE O!RollBackByHand
  BY <1>14 DEF O!RollBackByHand, O!ReleaseTypeOK
<1>15. CASE O!StopRetention
  BY <1>15 DEF O!StopRetention, O!ReleaseTypeOK
<1>16. CASE O!RollbackStopsSync
  BY <1>16 DEF O!RollbackStopsSync, O!ReleaseTypeOK
<1>17. CASE O!UnitsRestored
  BY <1>17 DEF O!UnitsRestored, O!ReleaseTypeOK
<1>18. CASE O!RestoreLink
  BY <1>18 DEF O!RestoreLink, O!ReleaseTypeOK
<1>19. CASE O!RollbackStartsSync
  BY <1>19 DEF O!RollbackStartsSync, O!ReleaseTypeOK
<1>20. CASE O!RestoreTimer
  BY <1>20 DEF O!RestoreTimer, O!ReleaseTypeOK
<1>21. CASE O!RollbackStartsPeer
  BY <1>21 DEF O!RollbackStartsPeer, O!ReleaseTypeOK
<1>22. CASE O!Dies
  BY <1>22 DEF O!Dies, O!ReleaseTypeOK
<1>23. CASE O!PublisherStarts
  BY <1>23 DEF O!PublisherStarts, O!Tick, O!ReleaseTypeOK
<1>24. CASE O!PublisherEnds
  BY <1>24 DEF O!PublisherEnds, O!ReleaseTypeOK
<1>25. CASE O!RetentionStarts
  BY <1>25 DEF O!RetentionStarts, O!Tick, O!ReleaseTypeOK
<1>26. CASE O!RetentionEnds
  BY <1>26 DEF O!RetentionEnds, O!ReleaseTypeOK
<1>27. CASE O!CycleBegins
  BY <1>27 DEF O!CycleBegins, O!Tick, O!ReleaseTypeOK
<1>28. CASE O!CycleEnds
  BY <1>28 DEF O!CycleEnds, O!ReleaseTypeOK
<1>29. ASSUME NEW f \in UnitFiles, O!WriteUnit(f) PROVE O!BackupIsThere'
  BY <1>29 DEF O!WriteUnit, O!ReleaseTypeOK
<1>30. ASSUME NEW f \in UnitFiles, O!RestoreUnit(f) PROVE O!BackupIsThere'
  BY <1>30 DEF O!RestoreUnit, O!ReleaseTypeOK
<1>31. CASE UNCHANGED ovars
  BY <1>31 DEF ovars, O!ReleaseTypeOK
<1> QED
  BY <1>1, <1>2, <1>3, <1>4, <1>5, <1>6, <1>7, <1>8, <1>9, <1>10, <1>11, <1>12, <1>13, <1>14, <1>15, <1>16, <1>17, <1>18, <1>19, <1>20, <1>21, <1>22, <1>23, <1>24, <1>25, <1>26, <1>27, <1>28, <1>29, <1>30, <1>31 DEF O!Next, O!Systemd

LEMMA ServicesWaitNext == O!ReleaseInv /\ [O!Next]_ovars => O!ServicesWait'
<1> SUFFICES ASSUME O!ReleaseInv, [O!Next]_ovars PROVE O!ServicesWait'
  OBVIOUS
<1> USE DEF O!ReleaseInv, O!ServicesWait, O!Step, O!Installed, O!Services
<1>1. CASE O!Promote
  BY <1>1 DEF O!Promote, O!ReleaseTypeOK
<1>2. CASE O!FindWindow
  BY <1>2 DEF O!FindWindow, O!ReleaseTypeOK
<1>3. CASE O!Save
  BY <1>3 DEF O!Save, O!ReleaseTypeOK
<1>4. CASE O!StopSync
  BY <1>4 DEF O!StopSync, O!ReleaseTypeOK
<1>5. CASE O!StopPeerTimer
  BY <1>5 DEF O!StopPeerTimer, O!ReleaseTypeOK
<1>6. CASE O!WaitForPeer
  BY <1>6 DEF O!WaitForPeer
<1>7. CASE O!SwitchLink
  BY <1>7 DEF O!SwitchLink, O!ReleaseTypeOK
<1>8. CASE O!UnitsWritten
  BY <1>8 DEF O!UnitsWritten, O!ReleaseTypeOK
<1>9. CASE O!StartSync
  BY <1>9 DEF O!StartSync, O!ReleaseTypeOK
<1>10. CASE O!StartPeerTimer
  BY <1>10 DEF O!StartPeerTimer, O!ReleaseTypeOK
<1>11. CASE O!StartRetention
  BY <1>11 DEF O!StartRetention, O!ReleaseTypeOK
<1>12. CASE O!CheckActive
  BY <1>12 DEF O!CheckActive, O!ReleaseTypeOK
<1>13. CASE O!Fails
  BY <1>13 DEF O!Fails, O!ReleaseTypeOK
<1>14. CASE O!RollBackByHand
  BY <1>14 DEF O!RollBackByHand, O!ReleaseTypeOK
<1>15. CASE O!StopRetention
  BY <1>15 DEF O!StopRetention, O!ReleaseTypeOK
<1>16. CASE O!RollbackStopsSync
  BY <1>16 DEF O!RollbackStopsSync, O!ReleaseTypeOK
<1>17. CASE O!UnitsRestored
  BY <1>17 DEF O!UnitsRestored, O!ReleaseTypeOK
<1>18. CASE O!RestoreLink
  BY <1>18 DEF O!RestoreLink, O!ReleaseTypeOK
<1>19. CASE O!RollbackStartsSync
  BY <1>19 DEF O!RollbackStartsSync, O!ReleaseTypeOK
<1>20. CASE O!RestoreTimer
  BY <1>20 DEF O!RestoreTimer, O!ReleaseTypeOK
<1>21. CASE O!RollbackStartsPeer
  BY <1>21 DEF O!RollbackStartsPeer, O!ReleaseTypeOK
<1>22. CASE O!Dies
  BY <1>22 DEF O!Dies, O!ReleaseTypeOK
<1>23. CASE O!PublisherStarts
  BY <1>23 DEF O!PublisherStarts, O!Tick, O!ReleaseTypeOK
<1>24. CASE O!PublisherEnds
  BY <1>24 DEF O!PublisherEnds, O!ReleaseTypeOK
<1>25. CASE O!RetentionStarts
  BY <1>25 DEF O!RetentionStarts, O!Tick, O!ReleaseTypeOK, O!RetentionStopped
<1>26. CASE O!RetentionEnds
  BY <1>26 DEF O!RetentionEnds, O!ReleaseTypeOK, O!RetentionStopped
<1>27. CASE O!CycleBegins
  BY <1>27 DEF O!CycleBegins, O!Tick, O!ReleaseTypeOK
<1>28. CASE O!CycleEnds
  BY <1>28 DEF O!CycleEnds, O!ReleaseTypeOK
<1>29. ASSUME NEW f \in UnitFiles, O!WriteUnit(f) PROVE O!ServicesWait'
  BY <1>29 DEF O!WriteUnit, O!ReleaseTypeOK
<1>30. ASSUME NEW f \in UnitFiles, O!RestoreUnit(f) PROVE O!ServicesWait'
  BY <1>30 DEF O!RestoreUnit, O!ReleaseTypeOK
<1>31. CASE UNCHANGED ovars
  BY <1>31 DEF ovars, O!ReleaseTypeOK
<1> QED
  BY <1>1, <1>2, <1>3, <1>4, <1>5, <1>6, <1>7, <1>8, <1>9, <1>10, <1>11, <1>12, <1>13, <1>14, <1>15, <1>16, <1>17, <1>18, <1>19, <1>20, <1>21, <1>22, <1>23, <1>24, <1>25, <1>26, <1>27, <1>28, <1>29, <1>30, <1>31 DEF O!Next, O!Systemd

LEMMA PartsNext == O!ReleaseInv /\ [O!Next]_ovars => O!PartsInPlace'
<1> SUFFICES ASSUME O!ReleaseInv, [O!Next]_ovars PROVE O!PartsInPlace'
  OBVIOUS
<1> USE DEF O!ReleaseInv, O!PartsInPlace, O!Step, O!Installed, O!Services
<1>1. CASE O!Promote
  BY <1>1 DEF O!Promote, O!ReleaseTypeOK, O!AllWritten
<1>2. CASE O!FindWindow
  BY <1>2 DEF O!FindWindow, O!ReleaseTypeOK, O!AllWritten
<1>3. CASE O!Save
  BY <1>3 DEF O!Save, O!ReleaseTypeOK, O!AllWritten
<1>4. CASE O!StopSync
  BY <1>4 DEF O!StopSync, O!ReleaseTypeOK, O!AllWritten
<1>5. CASE O!StopPeerTimer
  BY <1>5 DEF O!StopPeerTimer, O!ReleaseTypeOK, O!AllWritten
<1>6. CASE O!WaitForPeer
  BY <1>6 DEF O!WaitForPeer, O!ReleaseTypeOK, O!AllWritten
<1>7. CASE O!SwitchLink
  BY <1>7 DEF O!SwitchLink, O!ReleaseTypeOK, O!AllWritten
<1>8. CASE O!UnitsWritten
  BY <1>8 DEF O!UnitsWritten, O!ReleaseTypeOK, O!AllWritten
<1>9. CASE O!StartSync
  BY <1>9 DEF O!StartSync, O!ReleaseTypeOK, O!AllWritten
<1>10. CASE O!StartPeerTimer
  BY <1>10 DEF O!StartPeerTimer, O!ReleaseTypeOK, O!AllWritten
<1>11. CASE O!StartRetention
  BY <1>11 DEF O!StartRetention, O!ReleaseTypeOK, O!AllWritten
<1>12. CASE O!CheckActive
  BY <1>12 DEF O!CheckActive, O!ReleaseTypeOK, O!AllWritten
<1>13. CASE O!Fails
  BY <1>13 DEF O!Fails, O!ReleaseTypeOK, O!AllWritten
<1>14. CASE O!RollBackByHand
  BY <1>14 DEF O!RollBackByHand, O!ReleaseTypeOK, O!AllWritten
<1>15. CASE O!StopRetention
  BY <1>15 DEF O!StopRetention, O!ReleaseTypeOK, O!AllWritten
<1>16. CASE O!RollbackStopsSync
  BY <1>16 DEF O!RollbackStopsSync, O!ReleaseTypeOK, O!AllWritten
<1>17. CASE O!UnitsRestored
  <2>1. obackup # O!NoBackup
    BY <1>17 DEF O!UnitsRestored, O!BackupIsThere
  <2>2. ounits = obackup.units
    BY <1>17, <2>1 DEF O!UnitsRestored, O!RestoredUnit, O!ReleaseTypeOK
  <2> QED
    BY <1>17, <2>2 DEF O!UnitsRestored
<1>18. CASE O!RestoreLink
  BY <1>18 DEF O!RestoreLink, O!ReleaseTypeOK, O!AllWritten
<1>19. CASE O!RollbackStartsSync
  BY <1>19 DEF O!RollbackStartsSync, O!ReleaseTypeOK, O!AllWritten
<1>20. CASE O!RestoreTimer
  BY <1>20 DEF O!RestoreTimer, O!ReleaseTypeOK, O!AllWritten
<1>21. CASE O!RollbackStartsPeer
  BY <1>21 DEF O!RollbackStartsPeer, O!ReleaseTypeOK, O!AllWritten
<1>22. CASE O!Dies
  BY <1>22 DEF O!Dies, O!ReleaseTypeOK, O!AllWritten
<1>23. CASE O!PublisherStarts
  BY <1>23 DEF O!PublisherStarts, O!Tick, O!ReleaseTypeOK, O!AllWritten
<1>24. CASE O!PublisherEnds
  BY <1>24 DEF O!PublisherEnds, O!ReleaseTypeOK, O!AllWritten
<1>25. CASE O!RetentionStarts
  BY <1>25 DEF O!RetentionStarts, O!Tick, O!ReleaseTypeOK, O!AllWritten
<1>26. CASE O!RetentionEnds
  BY <1>26 DEF O!RetentionEnds, O!ReleaseTypeOK, O!AllWritten
<1>27. CASE O!CycleBegins
  BY <1>27 DEF O!CycleBegins, O!Tick, O!ReleaseTypeOK, O!AllWritten
<1>28. CASE O!CycleEnds
  BY <1>28 DEF O!CycleEnds, O!ReleaseTypeOK, O!AllWritten
<1>29. ASSUME NEW f \in UnitFiles, O!WriteUnit(f) PROVE O!PartsInPlace'
  BY <1>29 DEF O!WriteUnit, O!ReleaseTypeOK, O!AllWritten
<1>30. ASSUME NEW f \in UnitFiles, O!RestoreUnit(f) PROVE O!PartsInPlace'
  BY <1>30 DEF O!RestoreUnit, O!ReleaseTypeOK, O!AllWritten
<1>31. CASE UNCHANGED ovars
  BY <1>31 DEF ovars, O!ReleaseTypeOK, O!AllWritten
<1> QED
  BY <1>1, <1>2, <1>3, <1>4, <1>5, <1>6, <1>7, <1>8, <1>9, <1>10, <1>11, <1>12, <1>13, <1>14, <1>15, <1>16, <1>17, <1>18, <1>19, <1>20, <1>21, <1>22, <1>23, <1>24, <1>25, <1>26, <1>27, <1>28, <1>29, <1>30, <1>31 DEF O!Next, O!Systemd

\* The release's inductive invariant: from the backup on there is something to
\* go back to, what is stopped waits, and what was put in place stays there.
THEOREM ReleaseInvariance == O!Spec => []O!ReleaseInv
<1>1. O!ReleaseInv /\ [O!Next]_ovars => O!ReleaseInv'
  BY ReleaseTypeNext, BackupNext, ServicesWaitNext, PartsNext DEF O!ReleaseInv
<1>2. O!Spec => O!Init /\ [][O!Next]_ovars
  BY DEF O!Spec, O!vars, ovars
<1> QED
  BY <1>1, <1>2, ReleaseInit, PTL

\* What is installed changes by four actions only.
LEMMA InstalledChanges ==
    ASSUME [O!Next]_ovars, O!Installed' # O!Installed
    PROVE  \/ O!SwitchLink \/ O!RestoreLink
           \/ \E f \in UnitFiles : O!WriteUnit(f) \/ O!RestoreUnit(f)
<1>1. O!Promote \/ O!FindWindow \/ O!Save \/ O!StopSync \/ O!StopPeerTimer \/ O!WaitForPeer
        => UNCHANGED O!Installed
  BY DEF O!Promote, O!FindWindow, O!Save, O!StopSync, O!StopPeerTimer, O!WaitForPeer
<1>2. O!UnitsWritten \/ O!StartSync \/ O!StartPeerTimer \/ O!StartRetention \/ O!CheckActive
        => UNCHANGED O!Installed
  BY DEF O!UnitsWritten, O!StartSync, O!StartPeerTimer, O!StartRetention, O!CheckActive
<1>3. O!Fails \/ O!RollBackByHand \/ O!StopRetention \/ O!RollbackStopsSync
        => UNCHANGED O!Installed
  BY DEF O!Fails, O!RollBackByHand, O!StopRetention, O!RollbackStopsSync
<1>4. O!UnitsRestored \/ O!RollbackStartsSync \/ O!RestoreTimer \/ O!RollbackStartsPeer
      \/ O!Dies => UNCHANGED O!Installed
  BY DEF O!UnitsRestored, O!RollbackStartsSync, O!RestoreTimer, O!RollbackStartsPeer, O!Dies
<1>5. O!Systemd => UNCHANGED O!Installed
  BY DEF O!Systemd, O!PublisherStarts, O!PublisherEnds, O!RetentionStarts, O!RetentionEnds,
         O!CycleBegins, O!CycleEnds, O!Tick
<1>6. UNCHANGED ovars => UNCHANGED O!Installed
  BY DEF ovars, O!Installed
<1> QED
  BY <1>1, <1>2, <1>3, <1>4, <1>5, <1>6 DEF O!Next

LEMMA SwitchesQuietly ==
    ASSUME O!ReleaseInv, [O!Next]_ovars, O!Installed' # O!Installed
    PROVE  /\ osync = "stopped"
           /\ ojob \in {"rbUnits", "rbLink"} => ~ oretention.running
<1>1. ojob \in {"link", "units", "rbUnits", "rbLink"}
  BY InstalledChanges DEF O!SwitchLink, O!RestoreLink, O!WriteUnit, O!RestoreUnit, O!Step
<1> QED
  BY <1>1 DEF O!ReleaseInv, O!ServicesWait, O!RetentionStopped

\* A job ends by its last step, or is given up and counted as a failure.
LEMMA ReleaseEnds ==
    ASSUME O!ReleaseInv, [O!Next]_ovars, ojob \in {"check", "rbPeer"}, ojob' = "idle",
           ocounts' = ocounts
    PROVE  O!CheckActive \/ O!RollbackStartsPeer
<1>1. O!Fails \/ O!Dies => ocounts' # ocounts
  <2>1. ocounts \in [releases: Nat, failures: Nat, ticks: Nat]
    BY DEF O!ReleaseInv, O!ReleaseTypeOK
  <2>2. O!Fails \/ O!Dies => ocounts'.failures = ocounts.failures + 1
    BY <2>1 DEF O!Fails, O!Dies
  <2>3. ocounts.failures # ocounts.failures + 1
    BY <2>1
  <2> QED
    BY <2>2, <2>3
<1>2. ~ UNCHANGED ovars
  BY DEF ovars
<1>3. ~ O!Systemd
  BY DEF O!Systemd, O!PublisherStarts, O!PublisherEnds, O!RetentionStarts, O!RetentionEnds,
         O!CycleBegins, O!CycleEnds, O!Tick
<1>4. ~ (\E f \in UnitFiles : O!WriteUnit(f) \/ O!RestoreUnit(f))
  BY DEF O!WriteUnit, O!RestoreUnit
<1>5. ~ (O!Promote \/ O!FindWindow \/ O!Save \/ O!StopSync \/ O!StopPeerTimer \/ O!WaitForPeer
         \/ O!SwitchLink \/ O!UnitsWritten)
  BY DEF O!Promote, O!FindWindow, O!Save, O!StopSync, O!StopPeerTimer, O!WaitForPeer,
         O!SwitchLink, O!UnitsWritten, O!Step
<1>6. ~ (O!StartSync \/ O!StartPeerTimer \/ O!StartRetention \/ O!RollBackByHand
         \/ O!StopRetention \/ O!RollbackStopsSync)
  BY DEF O!StartSync, O!StartPeerTimer, O!StartRetention, O!RollBackByHand, O!StopRetention,
         O!RollbackStopsSync, O!Step
<1>7. ~ (O!UnitsRestored \/ O!RestoreLink \/ O!RollbackStartsSync \/ O!RestoreTimer)
  BY DEF O!UnitsRestored, O!RestoreLink, O!RollbackStartsSync, O!RestoreTimer, O!Step
<1> QED
  BY <1>1, <1>2, <1>3, <1>4, <1>5, <1>6, <1>7 DEF O!Next

LEMMA RollsBackWhole ==
    ASSUME O!ReleaseInv, [O!Next]_ovars, ojob = "rbPeer", ojob' = "idle", ocounts' = ocounts
    PROVE  /\ olink = obackup.link /\ ounits = obackup.units
           /\ oretention.timer = obackup.timer
           /\ osync # "stopped" /\ opeer'.timer
<1>1. O!RollbackStartsPeer
  BY ReleaseEnds DEF O!CheckActive, O!Step
<1>2. opeer'.timer
  BY <1>1 DEF O!RollbackStartsPeer, O!ReleaseInv, O!ReleaseTypeOK
<1> QED
  BY <1>2 DEF O!ReleaseInv, O!PartsInPlace

LEMMA PromotesWhole ==
    ASSUME O!ReleaseInv, [O!Next]_ovars, ojob = "check", ojob' = "idle", ocounts' = ocounts
    PROVE  /\ olink = "next" /\ \A f \in UnitFiles : ounits[f] = "new"
           /\ osync # "stopped" /\ opeer.timer
BY DEF O!ReleaseInv, O!PartsInPlace, O!AllWritten

-----------------------------------------------------------------------------
(* daemon.py, sync-daemon-idle.py *)

LEMMA RestartInit == R!Init => R!RestartInv
BY RestartAssumption DEF R!Init, R!RestartInv, R!RestartTypeOK

LEMMA RestartNext == ASSUME R!Prompt, R!RestartInv, [R!Next]_dvars PROVE R!RestartInv'
<1> USE RestartAssumption DEF R!Prompt, R!RestartInv, R!RestartTypeOK
<1>1. CASE R!Launch
  BY <1>1 DEF R!Launch
<1>2. CASE R!Begin
  <2>1. dtold # Absent => dproc = "starting"
    BY <1>2 DEF R!Begin
  <2>2. /\ dstate' \in R!StateFile /\ dstate'.updated = dnow /\ dstate'.active
        /\ dstate'.status = "running"
    BY <1>2 DEF R!Begin, R!StateWritten, R!StateFile
  <2> QED
    BY <1>2, <2>1, <2>2 DEF R!Begin
<1>3. CASE R!End
  <2>1. /\ dstate' \in R!StateFile /\ dstate'.updated = dnow /\ ~ dstate'.active
        /\ dstate'.status = "running"
    BY <1>3 DEF R!End, R!StateWritten, R!StateFile
  <2>2. /\ dproc' = "sleep" /\ dwake' = dnow + CycleInterval
        /\ dwake' \in 0..(MaxNow + CycleInterval)
        /\ dfirst' = FALSE /\ UNCHANGED <<dnow, dtold>>
    BY <1>3 DEF R!End
  <2>3. dtold # Absent => dtold + Delay < dwake'
    BY <2>2
  <2>4. dstate' # Absent /\ dstate'.updated \in 0..dnow'
    BY <2>1, <2>2
  <2>5. dwake' = dstate'.updated + CycleInterval
    BY <2>1, <2>2
  <2> QED
    BY <2>1, <2>2, <2>3, <2>4, <2>5
<1>4. CASE R!EndBlocked
  <2>1. dstate' \in R!StateFile /\ dstate'.updated = dnow
    BY <1>4 DEF R!EndBlocked, R!StateWritten, R!StateFile
  <2>2. dproc' = "ending" /\ dfirst' = FALSE /\ UNCHANGED <<dnow, dwake, dtold>>
    BY <1>4 DEF R!EndBlocked
  <2>3. dfirst' \in BOOLEAN
    BY <2>2
  <2>4. dstate' # Absent /\ dstate'.updated \in 0..dnow'
    BY <2>1, <2>2
  <2> QED
    BY <2>1, <2>2, <2>3, <2>4
<1>10. CASE R!Complete
  <2>1. dstate' \in R!StateFile /\ dstate'.updated = dnow
    BY <1>10 DEF R!Complete, R!StateWritten, R!StateFile
  <2> QED
    BY <1>10, <2>1 DEF R!Complete
<1>5. CASE R!Die
  BY <1>5 DEF R!Die
<1>6. CASE R!Ask
  <2>1. dproc # "cycle"
    BY <1>6 DEF R!Ask, R!IdleAnswer
  <2>2. ASSUME dproc = "sleep" PROVE dnow + Margin <= dwake
    BY <1>6, <2>2 DEF R!Ask, R!IdleAnswer, R!BetweenCycles
  <2> QED
    BY <1>6, <2>1, <2>2 DEF R!Ask
<1>7. CASE R!Restart
  BY <1>7 DEF R!Restart
<1>8. CASE R!Tick
  BY <1>8 DEF R!Tick
<1>9. CASE UNCHANGED dvars
  BY <1>9 DEF dvars
<1> QED
  BY <1>1, <1>2, <1>3, <1>4, <1>5, <1>6, <1>7, <1>8, <1>9, <1>10 DEF R!Next

\* What the state file and an answer say of the process, as long as a release
\* that was told idle restarts before the margin, and an interval, are over.
THEOREM RestartInvariance == ASSUME R!Prompt PROVE R!Spec => []R!RestartInv
<1>1. R!Spec => R!Init /\ [][R!Next]_dvars
  BY DEF R!Spec, R!vars, dvars
<1> QED
  BY <1>1, RestartInit, RestartNext, PTL

-----------------------------------------------------------------------------
(* openclaw-sync-probe-py36.py *)

LEMMA ProbeInit == Q!Init => Q!ProbeInv
<1> SUFFICES ASSUME Q!Init PROVE Q!ProbeInv
  OBVIOUS
<1> USE ProbeAssumption DEF Q!Init, Q!Idle, Q!This, Q!Probes
<1>1. Q!ProbeTypeOK
  <2>1. qjob \in [step: Q!Steps, apply: BOOLEAN, want: Versions \cup {Absent},
                staged: Q!Contents \cup {Absent}, previous: BOOLEAN,
                copied: BOOLEAN, moved: BOOLEAN]
    BY DEF Q!Steps
  <2>2. qcounts \in [probes: 0..MaxProbes, edits: Nat, failures: Nat, deaths: Nat,
                   published: Nat]
    OBVIOUS
  <2> QED
    BY <2>1, <2>2 DEF Q!ProbeTypeOK
<1>2. Q!ProbeIsSound /\ Q!FoundIsThere
  BY DEF Q!ProbeIsSound, Q!FoundIsThere
<1>3. Q!BackupIsMoved
  BY DEF Q!BackupIsMoved, Q!RecordNamesBackup
<1> QED
  BY <1>1, <1>2, <1>3 DEF Q!ProbeInv

LEMMA ProbeTypeNext == Q!ProbeInv /\ [Q!Next]_qvars => Q!ProbeTypeOK'
<1> SUFFICES ASSUME Q!ProbeInv, [Q!Next]_qvars PROVE Q!ProbeTypeOK'
  OBVIOUS
<1> USE ProbeAssumption DEF Q!ProbeInv, Q!ProbeTypeOK, Q!Contents, Q!Steps, Q!Probes, Q!This
<1>1. ASSUME NEW apply \in ProbeModes, Q!Start(apply) PROVE Q!ProbeTypeOK'
  <2>1. /\ Q!Idle.step = "idle" /\ qjob' = [step |-> "fetch", apply |-> apply, want |-> qcentral,
                staged |-> Absent, previous |-> FALSE, copied |-> FALSE, moved |-> FALSE]
        /\ qcounts' = [qcounts EXCEPT !.probes = @ + 1] /\ qcounts.probes < MaxProbes
    BY <1>1 DEF Q!Start, Q!Idle
  <2>2. qcounts' \in [probes: 0..MaxProbes, edits: Nat, failures: Nat, deaths: Nat,
                      published: Nat]
    BY <2>1
  <2>3. qjob' \in [step: Q!Steps, apply: BOOLEAN, want: Versions \cup {Absent},
                staged: Versions \cup {Damaged} \cup {Absent}, previous: BOOLEAN,
                copied: BOOLEAN, moved: BOOLEAN]
    BY <2>1
  <2> QED
    BY <1>1, <2>2, <2>3 DEF Q!Start
<1>2. CASE Q!FetchArchive
  <2>1. PICK got \in {qjob.want, Damaged} :
           qjob' = [qjob EXCEPT !.step = "validate", !.staged = got]
    BY <1>2 DEF Q!FetchArchive
  <2>2. got \in Versions \cup {Absent, Damaged}
    OBVIOUS
  <2> QED
    BY <1>2, <2>1, <2>2 DEF Q!FetchArchive
<1>3. CASE Q!ValidateStaged
  BY <1>3 DEF Q!ValidateStaged, Q!Idle, Q!Valid, Q!ProbeIsSound
<1>4. CASE Q!Prepare
  BY <1>4 DEF Q!Prepare, Q!ProbeIsSound
<1>5. CASE Q!Copy
  BY <1>5 DEF Q!Copy, Q!ProbeIsSound
<1>6. CASE Q!CheckCopy
  BY <1>6 DEF Q!CheckCopy, Q!To, Q!Valid, Q!ProbeIsSound
<1>7. CASE Q!MoveExisting
  <2>1. qjob' \in [step: Q!Steps, apply: BOOLEAN, want: Versions \cup {Absent},
                staged: Versions \cup {Damaged} \cup {Absent}, previous: BOOLEAN,
                copied: BOOLEAN, moved: BOOLEAN]
    BY <1>7 DEF Q!MoveExisting
  <2>2. CASE qjob.previous
    BY <1>7, <2>1, <2>2 DEF Q!MoveExisting, Q!ProbeIsSound
  <2>3. CASE ~ qjob.previous
    BY <1>7, <2>1, <2>3 DEF Q!MoveExisting
  <2> QED
    BY <2>2, <2>3
<1>8. CASE Q!Rename
  BY <1>8 DEF Q!Rename, Q!To, Q!InTheWay, Q!ProbeIsSound
<1>9. CASE Q!ValidateFinal
  BY <1>9 DEF Q!ValidateFinal, Q!To, Q!Valid, Q!ProbeIsSound
<1>10. CASE Q!WriteRecord
  BY <1>10 DEF Q!WriteRecord, Q!Idle, Q!ProbeIsSound
<1>11. CASE Q!Fails
  BY <1>11 DEF Q!Fails, Q!GiveUp, Q!Restore, Q!InTry, Q!Idle, Q!ProbeIsSound
<1>12. CASE Q!Fault
  BY <1>12 DEF Q!Fault, Q!GiveUp, Q!Restore, Q!InTry, Q!Idle, Q!ProbeIsSound
<1>13. CASE Q!Die
  BY <1>13 DEF Q!Die, Q!Idle, Q!ProbeIsSound
<1>14. CASE Q!Edit
  BY <1>14 DEF Q!Edit, Q!ProbeIsSound
<1>15. CASE Q!Publish
  BY <1>15 DEF Q!Publish, Q!ProbeIsSound
<1>16. CASE UNCHANGED qvars
  BY <1>16 DEF qvars, Q!ProbeIsSound
<1> QED
  BY <1>1, <1>2, <1>3, <1>4, <1>5, <1>6, <1>7, <1>8, <1>9, <1>10, <1>11, <1>12, <1>13, <1>14, <1>15, <1>16 DEF Q!Next

LEMMA SoundNext == Q!ProbeInv /\ [Q!Next]_qvars => Q!ProbeIsSound'
<1> SUFFICES ASSUME Q!ProbeInv, [Q!Next]_qvars PROVE Q!ProbeIsSound'
  OBVIOUS
<1> USE ProbeAssumption DEF Q!ProbeInv, Q!ProbeTypeOK, Q!Contents, Q!Steps, Q!Probes, Q!This, Q!ProbeIsSound
<1>1. ASSUME NEW apply \in ProbeModes, Q!Start(apply) PROVE Q!ProbeIsSound'
  BY <1>1 DEF Q!Start, Q!Idle
<1>2. CASE Q!FetchArchive
  BY <1>2 DEF Q!FetchArchive
<1>3. CASE Q!ValidateStaged
  BY <1>3 DEF Q!ValidateStaged, Q!Idle, Q!Valid
<1>4. CASE Q!Prepare
  BY <1>4 DEF Q!Prepare
<1>5. CASE Q!Copy
  BY <1>5 DEF Q!Copy
<1>6. CASE Q!CheckCopy
  BY <1>6 DEF Q!CheckCopy, Q!To, Q!Valid
<1>7. CASE Q!MoveExisting
  BY <1>7 DEF Q!MoveExisting
<1>8. CASE Q!Rename
  BY <1>8 DEF Q!Rename, Q!To, Q!InTheWay
<1>9. CASE Q!ValidateFinal
  BY <1>9 DEF Q!ValidateFinal, Q!To, Q!Valid
<1>10. CASE Q!WriteRecord
  BY <1>10 DEF Q!WriteRecord, Q!Idle
<1>11. CASE Q!Fails
  BY <1>11 DEF Q!Fails, Q!GiveUp, Q!Restore, Q!InTry, Q!Idle
<1>12. CASE Q!Fault
  BY <1>12 DEF Q!Fault, Q!GiveUp, Q!Restore, Q!InTry, Q!Idle
<1>13. CASE Q!Die
  BY <1>13 DEF Q!Die, Q!Idle
<1>14. CASE Q!Edit
  BY <1>14 DEF Q!Edit
<1>15. CASE Q!Publish
  BY <1>15 DEF Q!Publish
<1>16. CASE UNCHANGED qvars
  BY <1>16 DEF qvars
<1> QED
  BY <1>1, <1>2, <1>3, <1>4, <1>5, <1>6, <1>7, <1>8, <1>9, <1>10, <1>11, <1>12, <1>13, <1>14, <1>15, <1>16 DEF Q!Next

LEMMA BackupMovedNext == Q!ProbeInv /\ [Q!Next]_qvars => Q!BackupIsMoved'
<1> SUFFICES ASSUME Q!ProbeInv, [Q!Next]_qvars PROVE Q!BackupIsMoved'
  OBVIOUS
<1> USE ProbeAssumption DEF Q!ProbeInv, Q!ProbeTypeOK, Q!Contents, Q!Steps, Q!Probes, Q!This, Q!BackupIsMoved, Q!RecordNamesBackup
<1>1. ASSUME NEW apply \in ProbeModes, Q!Start(apply) PROVE Q!BackupIsMoved'
  BY <1>1 DEF Q!Start, Q!Idle, Q!ProbeIsSound
<1>2. CASE Q!FetchArchive
  BY <1>2 DEF Q!FetchArchive, Q!ProbeIsSound
<1>3. CASE Q!ValidateStaged
  BY <1>3 DEF Q!ValidateStaged, Q!Idle, Q!Valid, Q!ProbeIsSound
<1>4. CASE Q!Prepare
  BY <1>4 DEF Q!Prepare, Q!ProbeIsSound
<1>5. CASE Q!Copy
  BY <1>5 DEF Q!Copy, Q!ProbeIsSound
<1>6. CASE Q!CheckCopy
  BY <1>6 DEF Q!CheckCopy, Q!To, Q!Valid, Q!ProbeIsSound
<1>7. CASE Q!MoveExisting
  BY <1>7 DEF Q!MoveExisting, Q!ProbeIsSound
<1>8. CASE Q!Rename
  BY <1>8 DEF Q!Rename, Q!To, Q!InTheWay, Q!ProbeIsSound
<1>9. CASE Q!ValidateFinal
  BY <1>9 DEF Q!ValidateFinal, Q!To, Q!Valid, Q!ProbeIsSound
<1>10. CASE Q!WriteRecord
  BY <1>10 DEF Q!WriteRecord, Q!Idle, Q!ProbeIsSound
<1>11. CASE Q!Fails
  BY <1>11 DEF Q!Fails, Q!GiveUp, Q!Restore, Q!InTry, Q!Idle, Q!ProbeIsSound
<1>12. CASE Q!Fault
  BY <1>12 DEF Q!Fault, Q!GiveUp, Q!Restore, Q!InTry, Q!Idle, Q!ProbeIsSound
<1>13. CASE Q!Die
  BY <1>13 DEF Q!Die, Q!Idle, Q!ProbeIsSound
<1>14. CASE Q!Edit
  BY <1>14 DEF Q!Edit, Q!ProbeIsSound
<1>15. CASE Q!Publish
  BY <1>15 DEF Q!Publish, Q!ProbeIsSound
<1>16. CASE UNCHANGED qvars
  BY <1>16 DEF qvars, Q!ProbeIsSound
<1> QED
  BY <1>1, <1>2, <1>3, <1>4, <1>5, <1>6, <1>7, <1>8, <1>9, <1>10, <1>11, <1>12, <1>13, <1>14, <1>15, <1>16 DEF Q!Next

LEMMA FoundNext == Q!ProbeInv /\ [Q!Next]_qvars => Q!FoundIsThere'
<1> SUFFICES ASSUME Q!ProbeInv, [Q!Next]_qvars PROVE Q!FoundIsThere'
  OBVIOUS
<1> USE ProbeAssumption DEF Q!ProbeInv, Q!ProbeTypeOK, Q!Contents, Q!Steps, Q!Probes, Q!This, Q!FoundIsThere
<1>1. ASSUME NEW apply \in ProbeModes, Q!Start(apply) PROVE Q!FoundIsThere'
  BY <1>1 DEF Q!Start, Q!Idle, Q!ProbeIsSound, Q!BackupIsMoved
<1>2. CASE Q!FetchArchive
  BY <1>2 DEF Q!FetchArchive, Q!ProbeIsSound, Q!BackupIsMoved
<1>3. CASE Q!ValidateStaged
  BY <1>3 DEF Q!ValidateStaged, Q!Idle, Q!Valid, Q!ProbeIsSound, Q!BackupIsMoved
<1>4. CASE Q!Prepare
  BY <1>4 DEF Q!Prepare, Q!ProbeIsSound, Q!BackupIsMoved
<1>5. CASE Q!Copy
  BY <1>5 DEF Q!Copy, Q!ProbeIsSound, Q!BackupIsMoved
<1>6. CASE Q!CheckCopy
  BY <1>6 DEF Q!CheckCopy, Q!To, Q!Valid, Q!ProbeIsSound, Q!BackupIsMoved
<1>7. CASE Q!MoveExisting
  BY <1>7 DEF Q!MoveExisting, Q!ProbeIsSound, Q!BackupIsMoved
<1>8. CASE Q!Rename
  BY <1>8 DEF Q!Rename, Q!To, Q!InTheWay, Q!ProbeIsSound, Q!BackupIsMoved
<1>9. CASE Q!ValidateFinal
  BY <1>9 DEF Q!ValidateFinal, Q!To, Q!Valid, Q!ProbeIsSound, Q!BackupIsMoved
<1>10. CASE Q!WriteRecord
  BY <1>10 DEF Q!WriteRecord, Q!Idle, Q!ProbeIsSound, Q!BackupIsMoved
<1>11. CASE Q!Fails
  BY <1>11 DEF Q!Fails, Q!GiveUp, Q!Restore, Q!InTry, Q!Idle, Q!ProbeIsSound, Q!BackupIsMoved
<1>12. CASE Q!Fault
  BY <1>12 DEF Q!Fault, Q!GiveUp, Q!Restore, Q!InTry, Q!Idle, Q!ProbeIsSound, Q!BackupIsMoved
<1>13. CASE Q!Die
  BY <1>13 DEF Q!Die, Q!Idle, Q!ProbeIsSound, Q!BackupIsMoved
<1>14. CASE Q!Edit
  BY <1>14 DEF Q!Edit, Q!ProbeIsSound, Q!BackupIsMoved
<1>15. CASE Q!Publish
  BY <1>15 DEF Q!Publish, Q!ProbeIsSound, Q!BackupIsMoved
<1>16. CASE UNCHANGED qvars
  BY <1>16 DEF qvars, Q!ProbeIsSound, Q!BackupIsMoved
<1> QED
  BY <1>1, <1>2, <1>3, <1>4, <1>5, <1>6, <1>7, <1>8, <1>9, <1>10, <1>11, <1>12, <1>13, <1>14, <1>15, <1>16 DEF Q!Next

\* The probe's inductive invariant: it puts in the live root what it checked, its
\* backup holds what it moved, and what it found is in one of the two.
THEOREM ProbeInvariance == Q!Spec => []Q!ProbeInv
<1>1. Q!ProbeInv /\ [Q!Next]_qvars => Q!ProbeInv'
  BY ProbeTypeNext, SoundNext, BackupMovedNext, FoundNext DEF Q!ProbeInv
<1>2. Q!Spec => Q!Init /\ [][Q!Next]_qvars
  BY DEF Q!Spec, Q!vars, qvars
<1> QED
  BY <1>1, <1>2, ProbeInit, PTL

\* The actions that change the live root, and what they do to the backups.
LEMMA ProbeKeeps ==
    ASSUME Q!ProbeInv, [Q!Next]_qvars, qtarget' # qtarget, ~ Q!Edited
    PROVE  /\ qtarget # Absent => \E p \in Q!Probes : qbackups'[p] = qtarget
           /\ qtarget' # Absent => qtarget' \in Versions
<1> USE DEF Q!ProbeInv, Q!ProbeTypeOK, Q!ProbeIsSound
<1>1. qtarget' # Absent => qtarget' \in Versions
  BY ProbeTypeNext
<1>2. CASE Q!MoveExisting
  BY <1>2 DEF Q!MoveExisting
<1>3. CASE Q!Rename
  BY <1>3 DEF Q!Rename, Q!InTheWay
<1>4. CASE Q!Fails \/ Q!Fault
  <2>1. qtarget' = IF Q!Restore THEN qbackups[Q!This] ELSE qtarget
    BY <1>4 DEF Q!Fails, Q!Fault, Q!GiveUp
  <2>2. qtarget = Absent
    BY <2>1 DEF Q!Restore
  <2> QED
    BY <1>1, <2>2
<1>5. ~ Q!Edit
  <2>1. Q!Edit => qcounts'.edits = qcounts.edits + 1
    BY DEF Q!Edit
  <2>2. qcounts.edits \in Nat
    OBVIOUS
  <2> QED
    BY <2>1, <2>2 DEF Q!Edited
<1>6. ~ (\E apply \in ProbeModes : Q!Start(apply))
  BY DEF Q!Start
<1>7. ~ (Q!FetchArchive \/ Q!ValidateStaged \/ Q!Prepare \/ Q!Copy \/ Q!CheckCopy)
  BY DEF Q!FetchArchive, Q!ValidateStaged, Q!Prepare, Q!Copy, Q!CheckCopy
<1>8. ~ (Q!ValidateFinal \/ Q!WriteRecord \/ Q!Die \/ Q!Publish \/ UNCHANGED qvars)
  BY DEF Q!ValidateFinal, Q!WriteRecord, Q!Die, Q!Publish, qvars
<1> QED
  BY <1>1, <1>2, <1>3, <1>4, <1>5, <1>6, <1>7, <1>8 DEF Q!Next

LEMMA FailurePuts ==
    ASSUME Q!ProbeInv, [Q!Next]_qvars, qjob # Q!Idle, qjob' = Q!Idle, qrecords' = qrecords,
           qcounts.edits = 0
    PROVE  \/ qtarget' = qbefore
           \/ /\ qbackups'[Q!This] = qbefore
              /\ qtarget' = qjob.want \/ qcounts'.deaths # qcounts.deaths
<1>0. qjob'.step = "idle" /\ qjob.step \in Q!Steps
  BY DEF Q!Idle, Q!ProbeInv, Q!ProbeTypeOK
<1>6. ~ (Q!FetchArchive \/ Q!Prepare \/ Q!Copy \/ Q!CheckCopy)
  <2>1. qjob = [qjob EXCEPT !.step = qjob.step] /\ "step" \in DOMAIN qjob
    BY DEF Q!ProbeInv, Q!ProbeTypeOK
  <2> QED
    BY <1>0, <2>1 DEF Q!FetchArchive, Q!Prepare, Q!Copy, Q!CheckCopy, Q!To
<1>7. ~ (Q!MoveExisting \/ Q!Rename \/ Q!ValidateFinal)
  <2>1. qjob = [qjob EXCEPT !.step = qjob.step] /\ "step" \in DOMAIN qjob
    BY DEF Q!ProbeInv, Q!ProbeTypeOK
  <2> QED
    BY <1>0, <2>1 DEF Q!MoveExisting, Q!Rename, Q!ValidateFinal, Q!To
<1> USE ProbeAssumption
    DEF Q!ProbeInv, Q!ProbeTypeOK, Q!ProbeIsSound, Q!FoundIsThere, Q!BackupIsMoved, Q!This
<1>1. CASE Q!ValidateStaged
  BY <1>1 DEF Q!ValidateStaged
<1>2. CASE Q!Fails \/ Q!Fault
  BY <1>2 DEF Q!Fails, Q!Fault, Q!GiveUp, Q!Restore, Q!InTry, Q!Impossible, Q!Steps
<1>3. CASE Q!Die
  BY <1>3 DEF Q!Die, Q!Steps
<1>4. CASE Q!WriteRecord
  BY <1>4 DEF Q!WriteRecord
<1>5. ~ (\E apply \in ProbeModes : Q!Start(apply))
  BY DEF Q!Start
<1>8. ~ (Q!Edit \/ Q!Publish \/ UNCHANGED qvars)
  BY DEF Q!Edit, Q!Publish, qvars
<1> QED
  BY <1>1, <1>2, <1>3, <1>4, <1>5, <1>6, <1>7, <1>8 DEF Q!Next

\* openclaw_release.py:44-141, daemon.py:43, openclaw-sync-probe-py36.py:173-190:
\* for any unit files, numbers of releases, failures and deaths a release saves
\* before it switches, switches with the sync service stopped and rolls back whole,
\* and a probe keeps and puts back what it replaced; for any interval and margin a
\* prompt restart interrupts no cycle that was running when it asked.
THEOREM ReleaseIsReversibleEver == ASSUME R!Prompt PROVE ServiceSpec => ReleaseIsReversible
<1>1. O!ReleaseInv => O!SavedBeforeSwitched
  BY DEF O!ReleaseInv, O!BackupIsThere
<1>2. O!ReleaseInv /\ [O!Next]_ovars =>
         [O!Installed' # O!Installed =>
            /\ osync = "stopped"
            /\ ojob \in {"rbUnits", "rbLink"} => ~ oretention.running]_ovars
  BY SwitchesQuietly
<1>3. O!ReleaseInv /\ [O!Next]_ovars =>
         [ojob = "rbPeer" /\ ojob' = "idle" /\ ocounts' = ocounts =>
            /\ olink = obackup.link /\ ounits = obackup.units
            /\ oretention.timer = obackup.timer
            /\ osync # "stopped" /\ opeer'.timer]_ovars
  BY RollsBackWhole
<1>4. O!ReleaseInv /\ [O!Next]_ovars =>
         [ojob = "check" /\ ojob' = "idle" /\ ocounts' = ocounts =>
            /\ olink = "next"
            /\ \A f \in UnitFiles : ounits[f] = "new"
            /\ osync # "stopped" /\ opeer.timer]_ovars
  BY PromotesWhole
<1>5. R!RestartInv =>
         [dtold # Absent /\ dtold' = Absent /\ dproc = "cycle" =>
            dfirst /\ dtold <= dstate.updated]_dvars
  BY DEF R!RestartInv
<1>6. Q!ProbeInv /\ [Q!Next]_qvars =>
         [qtarget' # qtarget /\ ~ Q!Edited =>
            /\ qtarget # Absent => \E p \in Q!Probes : qbackups'[p] = qtarget
            /\ qtarget' # Absent => qtarget' \in Versions]_qvars
  BY ProbeKeeps
<1>7. Q!ProbeInv /\ [Q!Next]_qvars =>
         [qjob # Q!Idle /\ qjob' = Q!Idle /\ qrecords' = qrecords /\ qcounts.edits = 0 =>
            \/ qtarget' = qbefore
            \/ /\ qbackups'[Q!This] = qbefore
               /\ qtarget' = qjob.want \/ qcounts'.deaths # qcounts.deaths]_qvars
  BY FailurePuts
<1>8. Q!ProbeInv => Q!RecordNamesBackup
  BY DEF Q!ProbeInv, Q!BackupIsMoved
<1>9. ServiceSpec => O!Spec /\ R!Spec /\ Q!Spec
  BY DEF ServiceSpec
<1>o. O!Spec => [][O!Next]_ovars
  BY DEF O!Spec, O!vars, ovars
<1>q. Q!Spec => [][Q!Next]_qvars
  BY DEF Q!Spec, Q!vars, qvars
<1>a. ServiceSpec => []O!SavedBeforeSwitched /\ O!SwitchedQuietly /\ O!RollbackIsComplete
                     /\ O!PromotedWhole
  BY <1>1, <1>2, <1>3, <1>4, <1>9, <1>o, ReleaseInvariance, PTL
  DEF O!SwitchedQuietly, O!RollbackIsComplete, O!PromotedWhole, O!vars, ovars
<1>b. ServiceSpec => R!RestartHitsNoCycle
  BY <1>5, <1>9, RestartInvariance, PTL DEF R!RestartHitsNoCycle, R!vars, dvars
<1>c. ServiceSpec => Q!ProbeKeepsContent /\ Q!FailurePutsBack /\ []Q!RecordNamesBackup
  BY <1>6, <1>7, <1>8, <1>9, <1>q, ProbeInvariance, PTL
  DEF Q!ProbeKeepsContent, Q!FailurePutsBack, Q!vars, qvars
<1> QED
  BY <1>a, <1>b, <1>c DEF ReleaseIsReversible

-----------------------------------------------------------------------------
(* conflicts.py, tombstones.py, report_retention.py *)

LEMMA RecordsAreTyped ==
    ASSUME M!MaterialTypeOK, NEW i \in M!Used
    PROVE  /\ i \in Slots /\ mrec[i] \in M!Record(mcounts.clock)
           /\ mrec[i].time \in Nat /\ mrec[i].time <= mcounts.clock
           /\ mrec[i].meta \in BOOLEAN /\ mrec[i].base \in BOOLEAN
           /\ mrec[i].material \in M!Parts
<1>1. mcounts.clock \in Nat
  BY DEF M!MaterialTypeOK, M!Counts
<1>2. i \in Slots /\ mrec[i] \in M!Record(mcounts.clock)
  BY DEF M!MaterialTypeOK, M!Used
<1> QED
  BY <1>1, <1>2 DEF M!Record

LEMMA RecordIsPresent ==
    ASSUME NEW clock \in Nat, NEW r \in M!Record(clock)
    PROVE  r # Absent /\ r \in M!Record(clock + 1)
<1>1. r \in M!Record(clock + 1)
  BY DEF M!Record
<1>2. r \in [skill: Reviewed, content: Versions, material: M!Parts,
             base: BOOLEAN, meta: BOOLEAN, time: Nat, old: BOOLEAN]
  BY DEF M!Record
<1> QED
  BY <1>1, <1>2, MaterialAssumption

LEMMA MaterialStart ==
    /\ M!Idle \in M!JobState /\ M!Idle.step = "idle" /\ M!Idle.victims = {}
    /\ M!NoIndex \in [known: BOOLEAN, of: SUBSET Slots]
    /\ M!NoIndex \in [known: BOOLEAN, of: SUBSET Reviewed]
    /\ ~ M!NoIndex.known /\ M!NoIndex.of = {}
<1>1. M!Idle \in M!JobState
  BY DEF M!Idle, M!JobState, M!Steps
<1>2. M!NoIndex \in [known: BOOLEAN, of: SUBSET Slots]
  BY DEF M!NoIndex
<1>3. M!NoIndex \in [known: BOOLEAN, of: SUBSET Reviewed]
  BY DEF M!NoIndex
<1> QED
  BY <1>1, <1>2, <1>3 DEF M!Idle, M!NoIndex

\* The oldest record of a deletion: there is one.
LEMMA OldestExists ==
    ASSUME NEW group \in SUBSET Slots, group # {},
           \A k \in group : mrec[k].time \in Nat
    PROVE  M!First(group) # {}
<1> DEFINE times == {mrec[k].time : k \in group}
<1>1. times \subseteq Nat /\ times # {}
  OBVIOUS
<1>2. PICK t \in times : \A u \in times : ~ (<<u, t>> \in OpToRel(<, Nat))
  BY <1>1, WFMin, NatLessThanWellFounded
<1>3. ASSUME NEW u \in times PROVE t <= u
  <2>1. u \in Nat /\ t \in Nat
    BY <1>1
  <2>2. <<u, t>> \in OpToRel(<, Nat) <=> u < t
    BY <2>1 DEF OpToRel
  <2>3. ~ (u < t)
    BY <1>2, <2>2
  <2> QED
    BY <2>1, <2>3
<1>4. PICK k \in group : mrec[k].time = t
  OBVIOUS
<1> QED
  BY <1>3, <1>4 DEF M!First

LEMMA MaterialInit == M!Init => M!MaterialInv
<1> SUFFICES ASSUME M!Init PROVE M!MaterialInv
  OBVIOUS
<1>0. M!Cardinality(Slots) = Cardinality(Slots)
  BY DEF M!Cardinality, Cardinality
<1>1. /\ mrec \in EarlierRecords /\ mindex = M!NoIndex /\ mlisted = M!NoIndex /\ mjob = M!Idle
      /\ mpackages = [s \in Reviewed |-> "none"]
      /\ mdeleted \in [Reviewed -> Versions \cup {Absent}] /\ mconflicted \in SUBSET Reviewed
      /\ mcounts = [builds |-> 0, changes |-> 0, crashes |-> 0, cut |-> FALSE,
                    clock |-> Cardinality(Slots)]
  BY <1>0 DEF M!Init
<1>2. Cardinality(Slots) \in Nat
  BY MaterialAssumption, FS_CardinalityType
<1>3. M!MaterialTypeOK
  <2>1. mcounts \in M!Counts /\ mcounts.clock = Cardinality(Slots)
    BY <1>1, <1>2 DEF M!Counts
  <2>2. mrec \in [Slots -> M!Record(mcounts.clock) \cup {Absent}]
    BY <1>1, <2>1, MaterialAssumption
  <2>3. mpackages \in [Reviewed -> M!Parts]
    BY <1>1 DEF M!Parts
  <2> QED
    BY <1>1, <2>1, <2>2, <2>3, MaterialStart DEF M!MaterialTypeOK
<1>4. \A i \in M!Complete : M!Whole(mrec[i])
  BY <1>1, MaterialAssumption DEF M!Complete, M!Used
<1>5. M!OldestIsWhole
  <2>1. ASSUME NEW i \in M!Complete
        PROVE  \E k \in M!First(M!Group(i)) : M!Whole(mrec[k]) /\ k \notin mjob.victims
    <3>1. M!Group(i) \subseteq Slots /\ i \in M!Group(i)
      BY <2>1 DEF M!Group, M!Complete, M!Used
    <3>2. \A k \in M!Group(i) : mrec[k].time \in Nat
      BY <1>3, RecordsAreTyped DEF M!Group, M!Complete
    <3>3. PICK k \in M!First(M!Group(i)) : TRUE
      BY <3>1, <3>2, OldestExists
    <3>4. k \in M!Complete
      BY <3>3 DEF M!First, M!Group
    <3> QED
      BY <1>1, <1>4, <3>3, <3>4, MaterialStart
  <2> QED
    BY <2>1 DEF M!OldestIsWhole
<1>6. M!JobInOrder
  BY <1>1, MaterialStart DEF M!JobInOrder
<1>7. M!MetadataIsLast /\ M!IndexedIsWhole
  BY <1>1, <1>4, MaterialStart DEF M!MetadataIsLast, M!IndexedIsWhole
<1>8. M!PackagesInOrder
  BY <1>1, MaterialStart DEF M!PackagesInOrder
<1> QED
  BY <1>3, <1>5, <1>6, <1>7, <1>8 DEF M!MaterialInv

LEMMA MaterialCounted ==
    ASSUME M!MaterialTypeOK,
           \E what \in {"builds", "changes", "crashes", "clock"} :
              mcounts' = [mcounts EXCEPT ![what] = @ + 1]
    PROVE  mcounts' \in M!Counts
<1>1. mcounts \in M!Counts
  BY DEF M!MaterialTypeOK
<1>2. ASSUME NEW what \in {"builds", "changes", "crashes", "clock"},
             mcounts' = [mcounts EXCEPT ![what] = @ + 1]
      PROVE  mcounts' \in M!Counts
  <2>1. CASE what = "builds"
    BY <1>1, <1>2, <2>1 DEF M!Counts
  <2>2. CASE what = "changes"
    BY <1>1, <1>2, <2>2 DEF M!Counts
  <2>3. CASE what = "crashes"
    BY <1>1, <1>2, <2>3 DEF M!Counts
  <2>4. CASE what = "clock"
    BY <1>1, <1>2, <2>4 DEF M!Counts
  <2> QED
    BY <1>2, <2>1, <2>2, <2>3, <2>4
<1> QED
  BY <1>2

\* A crash while records are removed is remembered.
LEMMA MaterialCrashes ==
    ASSUME M!MaterialTypeOK, M!Crash
    PROVE  /\ mcounts' \in M!Counts /\ mcounts'.clock = mcounts.clock
           /\ mcounts'.cut <=> mcounts.cut \/ mjob.step = "prune"
<1> DEFINE cut == mcounts.cut \/ mjob.step = "prune"
           crashes == mcounts.crashes + 1
<1>1. mcounts \in M!Counts
  BY DEF M!MaterialTypeOK
<1>2. mcounts' = [mcounts EXCEPT !.crashes = crashes, !.cut = cut]
  BY DEF M!Crash
<1>3. crashes \in Nat /\ cut \in BOOLEAN
  BY <1>1 DEF M!Counts
<1> HIDE DEF crashes, cut
<1>4. /\ mcounts' \in M!Counts /\ mcounts'.clock = mcounts.clock
      /\ mcounts'.cut = cut
  BY <1>1, <1>2, <1>3, Zenon DEF M!Counts
<1> QED
  BY <1>4 DEF cut

\* The jobs that build packages and read the state leave the records alone.
MaterialWaits ==
    /\ UNCHANGED <<mrec, mindex>>
    /\ mcounts'.clock = mcounts.clock /\ mcounts'.cut = mcounts.cut
    /\ mjob' \in M!JobState /\ mcounts' \in M!Counts
    /\ \/ UNCHANGED mjob
       \/ /\ mjob.step \notin {"prune", "tombstones", "material", "meta"}
          /\ mjob'.step \in {"reset", "packages", "package", "listing", "status"}
          /\ mjob'.victims = mjob.victims

LEMMA MaterialSides ==
    ASSUME M!MaterialInv, [M!Next]_mvars
    PROVE  \/ MaterialWaits
           \/ M!ReadStatus
           \/ \E s \in Reviewed, i \in Slots : M!MakeRecord(s, i)
           \/ M!WriteMaterial \/ M!PublishRecord \/ M!RecordFails
           \/ M!WriteIndex \/ M!BeginRetention \/ M!Pruned
           \/ \E i \in Slots, part \in {"material", "base", "meta"}, touched \in BOOLEAN :
                 M!RemovePart(i, part, touched)
           \/ \E i \in Slots : M!RemoveRecord(i)
           \/ M!Crash \/ M!HourPasses
<1>t. M!MaterialTypeOK /\ mjob \in M!JobState /\ mcounts \in M!Counts
  BY DEF M!MaterialInv, M!MaterialTypeOK
<1>o. /\ mjob.step # "prune" => mjob.victims = {}
      /\ mjob.step \in {"packages", "package", "listing"} =>
            mjob.entries \subseteq Reviewed /\ mjob.todo \subseteq mjob.entries
  BY DEF M!MaterialInv, M!JobInOrder, M!PackagesInOrder
<1>1. ASSUME M!BeginCycle \/ M!BuildTombstones PROVE MaterialWaits
  <2>1. /\ mjob = M!Idle /\ mcounts' = [mcounts EXCEPT !.builds = @ + 1]
        /\ mjob' = [M!Idle EXCEPT !.step = "reset"] \/ mjob' = [M!Idle EXCEPT !.step = "status"]
        /\ UNCHANGED <<mrec, mindex>>
    BY <1>1 DEF M!BeginCycle, M!BuildTombstones, M!Tombs
  <2>2. mcounts' \in M!Counts
    BY <1>t, <2>1, MaterialCounted
  <2>3. /\ mjob' \in M!JobState /\ mjob'.victims = mjob.victims
        /\ mjob'.step \in {"reset", "status"}
    BY <2>1, MaterialStart DEF M!JobState, M!Steps
  <2>4. mcounts'.clock = mcounts.clock /\ mcounts'.cut = mcounts.cut
    BY <1>t, <2>1 DEF M!Counts
  <2> QED
    BY <2>1, <2>2, <2>3, <2>4, MaterialStart DEF MaterialWaits
<1>2. ASSUME M!Reset PROVE MaterialWaits
  <2>1. /\ mjob.step = "reset" /\ UNCHANGED <<mrec, mindex, mcounts>>
        /\ mjob' = [mjob EXCEPT !.todo = mconflicted, !.entries = mconflicted,
                        !.step = IF mconflicted = {} THEN "status" ELSE "packages"]
    BY <1>2 DEF M!Reset, M!Tombs
  <2>2. mconflicted \subseteq Reviewed
    BY <1>t DEF M!MaterialTypeOK
  <2>3. /\ mjob' \in M!JobState /\ mjob'.victims = mjob.victims
        /\ mjob'.step \in {"packages", "status"}
    BY <1>t, <2>1, <2>2 DEF M!JobState, M!Steps
  <2> QED
    BY <1>t, <2>1, <2>3 DEF MaterialWaits
<1>3. ASSUME NEW s \in Reviewed, M!BeginPackage(s) \/ M!PackageWritten(s) PROVE MaterialWaits
  <2>1. /\ mjob.step \in {"packages", "package"} /\ UNCHANGED <<mrec, mindex, mcounts>>
        /\ \/ mjob' = [mjob EXCEPT !.step = "package", !.todo = @ \ {s}]
           \/ mjob' = [mjob EXCEPT !.step = IF mjob.todo = {} THEN "listing" ELSE "packages"]
    BY <1>3 DEF M!BeginPackage, M!PackageWritten, M!Tombs
  <2>2. /\ mjob' \in M!JobState /\ mjob'.victims = mjob.victims
        /\ mjob'.step \in {"packages", "package", "listing"}
    BY <1>t, <2>1 DEF M!JobState, M!Steps
  <2> QED
    BY <1>t, <2>1, <2>2 DEF MaterialWaits
<1>4. ASSUME M!WriteConflictIndex PROVE MaterialWaits
  <2>1. /\ mjob.step = "listing" /\ UNCHANGED <<mrec, mindex, mcounts>>
        /\ mjob' = [mjob EXCEPT !.step = "status"]
    BY <1>4 DEF M!WriteConflictIndex, M!Tombs
  <2>2. /\ mjob' \in M!JobState /\ mjob'.victims = mjob.victims /\ mjob'.step = "status"
    BY <1>t, <2>1 DEF M!JobState, M!Steps
  <2> QED
    BY <1>t, <2>1, <2>2 DEF MaterialWaits
<1>5. ASSUME NEW d, NEW c, M!Changes(d, c) PROVE MaterialWaits
  <2>1. UNCHANGED <<mrec, mindex, mjob>> /\ mcounts' = [mcounts EXCEPT !.changes = @ + 1]
    BY <1>5 DEF M!Changes, M!Tombs
  <2>2. mcounts' \in M!Counts
    BY <1>t, <2>1, MaterialCounted
  <2>3. mcounts'.clock = mcounts.clock /\ mcounts'.cut = mcounts.cut
    BY <1>t, <2>1 DEF M!Counts
  <2> QED
    BY <1>t, <2>1, <2>2, <2>3 DEF MaterialWaits
<1>6. ASSUME UNCHANGED mvars PROVE MaterialWaits
  BY <1>t, <1>6 DEF mvars, MaterialWaits
<1> QED
  BY <1>1, <1>2, <1>3, <1>4, <1>5, <1>6 DEF M!Next

\* What each step does to the record it works on.
LEMMA RecordMade ==
    ASSUME M!MaterialInv, NEW s \in Reviewed, NEW i \in Slots, M!MakeRecord(s, i)
    PROVE  /\ mcounts' \in M!Counts /\ mcounts'.clock = mcounts.clock + 1
           /\ mcounts'.cut = mcounts.cut
           /\ mjob' \in M!JobState /\ mjob'.step = "material" /\ mjob'.at = i
           /\ mjob'.entries = mjob.entries /\ mjob'.victims = mjob.victims
           /\ mrec[i] = Absent /\ mrec'[i] \in M!Record(mcounts'.clock)
           /\ mjob'.todo = mjob.todo \ {s} /\ mjob'.seen = mjob.seen
           /\ ~ mrec'[i].meta /\ mrec'[i].time = mcounts'.clock
           /\ mrec' = [k \in Slots |-> mrec'[k]]
           /\ \A k \in Slots \ {i} : mrec'[k] = mrec[k]
<1>1. /\ mjob \in M!JobState /\ mcounts \in M!Counts /\ M!MaterialTypeOK
      /\ mrec \in [Slots -> M!Record(mcounts.clock) \cup {Absent}]
  BY DEF M!MaterialInv, M!MaterialTypeOK
<1>2. /\ mcounts' = [mcounts EXCEPT !["clock"] = @ + 1] /\ s \in mjob.todo
      /\ mrec[i] = Absent /\ mrec' = [mrec EXCEPT ![i] = M!NewRecord(s)]
      /\ mjob' = [mjob EXCEPT !.step = "material", !.todo = @ \ {s}, !.at = i]
      /\ mjob.seen[s] # Absent
  <2>1. mjob.seen[s] # Absent
    BY DEF M!MakeRecord, M!MaterialInv, M!JobInOrder
  <2> QED
    BY <2>1 DEF M!MakeRecord
<1>3. mcounts' \in M!Counts
  BY <1>1, <1>2, MaterialCounted
<1>4. mcounts'.clock = mcounts.clock + 1 /\ mcounts'.cut = mcounts.cut
  BY <1>1, <1>2 DEF M!Counts
<1>5. /\ mjob' \in M!JobState /\ mjob'.step = "material" /\ mjob'.at = i
      /\ mjob'.entries = mjob.entries /\ mjob'.victims = mjob.victims
      /\ mjob'.todo = mjob.todo \ {s} /\ mjob'.seen = mjob.seen
  BY <1>1, <1>2 DEF M!JobState, M!Steps
<1>6. mjob.seen[s] \in Versions
  BY <1>1, <1>2 DEF M!JobState
<1>7. M!NewRecord(s) \in M!Record(mcounts'.clock)
  <2>1. mcounts.clock + 1 \in 1..mcounts'.clock
    BY <1>1, <1>4 DEF M!Counts
  <2> QED
    BY <1>6, <2>1 DEF M!NewRecord, M!MetaAtOnce, M!Record, M!Parts
<1>8. /\ mrec'[i] = M!NewRecord(s) /\ \A k \in Slots \ {i} : mrec'[k] = mrec[k]
      /\ mrec' = [k \in Slots |-> mrec'[k]]
  BY <1>1, <1>2
<1>9. ~ M!NewRecord(s).meta /\ M!NewRecord(s).time = mcounts'.clock
  BY <1>4 DEF M!NewRecord, M!MetaAtOnce
<1> QED
  BY <1>2, <1>3, <1>4, <1>5, <1>7, <1>8, <1>9

\* The record in the making.
LEMMA RecordAtHand ==
    ASSUME M!MaterialInv, mjob.step \in {"material", "meta"}
    PROVE  /\ mjob.at \in M!Used \ mindex.of /\ mjob.at \in Slots /\ mjob.at \notin M!Complete
           /\ ~ mrec[mjob.at].meta /\ mrec[mjob.at].time = mcounts.clock
           /\ mrec[mjob.at] \in M!Record(mcounts.clock)
<1>1. /\ mjob.at \in M!Used \ mindex.of
      /\ ~ mrec[mjob.at].meta /\ mrec[mjob.at].time = mcounts.clock
  BY DEF M!MaterialInv, M!JobInOrder
<1> QED
  BY <1>1, RecordsAreTyped DEF M!Complete, M!MaterialInv

LEMMA MaterialWritten ==
    ASSUME M!MaterialInv, M!WriteMaterial
    PROVE  /\ mjob' \in M!JobState /\ mjob'.step = "meta" /\ mjob'.at = mjob.at
           /\ mjob'.entries = mjob.entries /\ mjob'.victims = mjob.victims
           /\ mjob'.todo = mjob.todo /\ mjob'.seen = mjob.seen
           /\ mrec'[mjob.at] \in M!Record(mcounts.clock)
           /\ ~ mrec'[mjob.at].meta /\ mrec'[mjob.at].time = mrec[mjob.at].time
           /\ mrec'[mjob.at].base /\ mrec'[mjob.at].material = "whole"
           /\ mrec' = [k \in Slots |-> mrec'[k]]
           /\ \A k \in Slots \ {mjob.at} : mrec'[k] = mrec[k]
<1>1. /\ mjob \in M!JobState /\ mcounts \in M!Counts
      /\ mrec \in [Slots -> M!Record(mcounts.clock) \cup {Absent}]
  BY DEF M!MaterialInv, M!MaterialTypeOK
<1>2. PICK i \in Slots : i = mjob.at /\ ~ mrec[i].meta /\ mrec[i] \in M!Record(mcounts.clock)
  BY RecordAtHand DEF M!WriteMaterial
<1>3. /\ mrec' = [mrec EXCEPT ![i] = [@ EXCEPT !.material = "whole", !.base = TRUE]]
      /\ mjob' = [mjob EXCEPT !.step = "meta"]
  BY <1>2 DEF M!WriteMaterial
<1>4. /\ mrec'[i] = [mrec[i] EXCEPT !.material = "whole", !.base = TRUE]
      /\ \A k \in Slots \ {i} : mrec'[k] = mrec[k]
  BY <1>1, <1>3
<1>7. mrec' = [k \in Slots |-> mrec'[k]]
  BY <1>1, <1>3
<1>5. /\ mrec'[i] \in M!Record(mcounts.clock) /\ mrec'[i].meta = mrec[i].meta
      /\ mrec'[i].time = mrec[i].time /\ mrec'[i].base /\ mrec'[i].material = "whole"
  BY <1>2, <1>4, Zenon DEF M!Record, M!Parts
<1>6. /\ mjob' \in M!JobState /\ mjob'.step = "meta" /\ mjob'.at = mjob.at
      /\ mjob'.entries = mjob.entries /\ mjob'.victims = mjob.victims
      /\ mjob'.todo = mjob.todo /\ mjob'.seen = mjob.seen
  BY <1>1, <1>3 DEF M!JobState, M!Steps
<1> QED
  BY <1>2, <1>4, <1>5, <1>6, <1>7, Zenon

LEMMA RecordPublished ==
    ASSUME M!MaterialInv, M!PublishRecord
    PROVE  /\ mjob' \in M!JobState /\ mjob'.step = "tombstones"
           /\ mjob'.entries = mjob.entries \cup {mjob.at} /\ mjob'.victims = mjob.victims
           /\ mjob'.todo = mjob.todo /\ mjob'.seen = mjob.seen
           /\ mrec'[mjob.at] \in M!Record(mcounts.clock)
           /\ mrec'[mjob.at].meta /\ mrec'[mjob.at].time = mcounts.clock
           /\ mrec'[mjob.at].base /\ mrec'[mjob.at].material = "whole"
           /\ mrec'[mjob.at].skill = mrec[mjob.at].skill
           /\ mrec'[mjob.at].content = mrec[mjob.at].content
           /\ mrec' = [k \in Slots |-> mrec'[k]]
           /\ \A k \in Slots \ {mjob.at} : mrec'[k] = mrec[k]
<1>1. /\ mjob \in M!JobState /\ mcounts \in M!Counts
      /\ mrec \in [Slots -> M!Record(mcounts.clock) \cup {Absent}]
  BY DEF M!MaterialInv, M!MaterialTypeOK
<1>2. PICK i \in Slots : /\ i = mjob.at /\ mrec[i] \in M!Record(mcounts.clock)
                         /\ mrec[i].base /\ mrec[i].material = "whole"
                         /\ mrec[i].time = mcounts.clock
  BY RecordAtHand DEF M!PublishRecord, M!MaterialInv, M!JobInOrder
<1>3. /\ mrec' = [mrec EXCEPT ![i] = [@ EXCEPT !.meta = TRUE]]
      /\ mjob' = [mjob EXCEPT !.step = "tombstones", !.entries = @ \cup {i}, !.at = 0]
  BY <1>2 DEF M!PublishRecord
<1>4. /\ mrec'[i] = [mrec[i] EXCEPT !.meta = TRUE]
      /\ \A k \in Slots \ {i} : mrec'[k] = mrec[k]
  BY <1>1, <1>3
<1>7. mrec' = [k \in Slots |-> mrec'[k]]
  BY <1>1, <1>3
<1>5. /\ mrec'[i] \in M!Record(mcounts.clock) /\ mrec'[i].meta
      /\ mrec'[i].time = mrec[i].time /\ mrec'[i].base = mrec[i].base
      /\ mrec'[i].material = mrec[i].material
      /\ mrec'[i].skill = mrec[i].skill /\ mrec'[i].content = mrec[i].content
  BY <1>2, <1>4, Zenon DEF M!Record
<1>6. /\ mjob' \in M!JobState /\ mjob'.step = "tombstones"
      /\ mjob'.entries = mjob.entries \cup {i} /\ mjob'.victims = mjob.victims
      /\ mjob'.todo = mjob.todo /\ mjob'.seen = mjob.seen
  BY <1>1, <1>3 DEF M!JobState, M!Steps
<1> QED
  BY <1>2, <1>4, <1>5, <1>6, <1>7, Zenon

\* A removal touches its victim only, and never makes it look older.
LEMMA PartRemoved ==
    ASSUME M!MaterialInv, NEW i \in Slots, NEW part \in {"material", "base", "meta"},
           NEW touched \in BOOLEAN, M!RemovePart(i, part, touched)
    PROVE  /\ mcounts' \in M!Counts /\ mcounts'.cut = mcounts.cut
           /\ mcounts.clock <= mcounts'.clock
           /\ mrec[i] \in M!Record(mcounts.clock) /\ mrec'[i] \in M!Record(mcounts'.clock)
           /\ mrec[i].time <= mrec'[i].time
           /\ mrec'[i].meta => mrec[i].meta
           /\ mrec'[i].skill = mrec[i].skill /\ mrec'[i].content = mrec[i].content
           /\ mrec' = [k \in Slots |-> mrec'[k]]
           /\ \A k \in Slots \ {i} : mrec'[k] = mrec[k]
<1>1. /\ M!MaterialTypeOK /\ mcounts \in M!Counts
      /\ mrec \in [Slots -> M!Record(mcounts.clock) \cup {Absent}]
      /\ mjob.victims \subseteq M!Used
  BY DEF M!MaterialInv, M!MaterialTypeOK
<1>2. /\ i \in M!Used /\ mrec[i] \in M!Record(mcounts.clock)
      /\ mrec[i].time \in Nat /\ mrec[i].time <= mcounts.clock
  BY <1>1, RecordsAreTyped DEF M!RemovePart
<1>3. /\ mcounts' \in M!Counts /\ mcounts'.cut = mcounts.cut
      /\ mcounts'.clock = IF touched THEN mcounts.clock + 1 ELSE mcounts.clock
  <2>1. CASE touched
    <3>1. mcounts' = [mcounts EXCEPT !["clock"] = @ + 1]
      BY <2>1 DEF M!RemovePart
    <3> QED
      BY <1>1, <2>1, <3>1, MaterialCounted DEF M!Counts
  <2>2. CASE ~ touched
    <3>1. mcounts' = [mcounts EXCEPT !.clock = @]
      BY <2>2 DEF M!RemovePart
    <3> QED
      BY <1>1, <2>2, <3>1 DEF M!Counts
  <2> QED
    BY <2>1, <2>2
<1> DEFINE now == mcounts'.clock
<1>4. now \in Nat /\ mcounts.clock <= now /\ mrec[i] \in M!Record(now)
  BY <1>1, <1>2, <1>3, RecordIsPresent DEF M!Counts
<1>5. mrec[i].time <= now /\ (touched => now \in 1..now)
  BY <1>1, <1>2, <1>3 DEF M!Counts
<1> DEFINE Edited == /\ mrec'[i] \in M!Record(now)
                     /\ mrec'[i].time \in {mrec[i].time, now}
                     /\ mrec'[i].meta => mrec[i].meta
                     /\ mrec'[i].skill = mrec[i].skill /\ mrec'[i].content = mrec[i].content
                     /\ mrec' = [k \in Slots |-> mrec'[k]]
                     /\ \A k \in Slots \ {i} : mrec'[k] = mrec[k]
<1> HIDE DEF now
<1>6. ASSUME part = "material" PROVE Edited
  <2> DEFINE left == IF mrec[i].material = "whole" THEN "torn" ELSE "none"
             time == IF touched THEN now ELSE mrec[i].time
             old == IF touched THEN FALSE ELSE mrec[i].old
  <2>1. mrec' = [mrec EXCEPT ![i] = [@ EXCEPT !.material = left, !.time = time, !.old = old]]
    BY <1>3, <1>6 DEF M!RemovePart, now
  <2>2. /\ left \in M!Parts /\ time \in {mrec[i].time, now} /\ time \in 1..now
        /\ old \in BOOLEAN
    BY <1>4, <1>5 DEF M!Parts, M!Record
  <2> HIDE DEF left, time, old
  <2>3. /\ mrec'[i] = [mrec[i] EXCEPT !.material = left, !.time = time, !.old = old]
        /\ \A k \in Slots \ {i} : mrec'[k] = mrec[k]
        /\ mrec' = [k \in Slots |-> mrec'[k]]
    BY <1>1, <2>1
  <2> QED
    BY <1>4, <2>2, <2>3, Zenon DEF M!Record
<1>7. ASSUME part = "base" PROVE Edited
  <2> DEFINE no == FALSE
  <2>1. touched /\ mrec' = [mrec EXCEPT ![i] = [@ EXCEPT !.base = no, !.old = no, !.time = now]]
    BY <1>3, <1>7 DEF M!RemovePart, now
  <2>2. /\ mrec'[i] = [mrec[i] EXCEPT !.base = no, !.old = no, !.time = now]
        /\ \A k \in Slots \ {i} : mrec'[k] = mrec[k]
        /\ mrec' = [k \in Slots |-> mrec'[k]]
    BY <1>1, <2>1
  <2>3. no \in BOOLEAN /\ ~ no
    OBVIOUS
  <2>4. now \in 1..now
    BY <1>5, <2>1
  <2> HIDE DEF no
  <2> QED
    BY <1>4, <2>2, <2>3, <2>4, Zenon DEF M!Record
<1>8. ASSUME part = "meta" PROVE Edited
  <2> DEFINE no == FALSE
  <2>1. touched /\ mrec' = [mrec EXCEPT ![i] = [@ EXCEPT !.meta = no, !.old = no, !.time = now]]
    BY <1>3, <1>8 DEF M!RemovePart, now
  <2>2. /\ mrec'[i] = [mrec[i] EXCEPT !.meta = no, !.old = no, !.time = now]
        /\ \A k \in Slots \ {i} : mrec'[k] = mrec[k]
        /\ mrec' = [k \in Slots |-> mrec'[k]]
    BY <1>1, <2>1
  <2>3. no \in BOOLEAN /\ ~ no
    OBVIOUS
  <2>4. now \in 1..now
    BY <1>5, <2>1
  <2> HIDE DEF no
  <2> QED
    BY <1>4, <2>2, <2>3, <2>4, Zenon DEF M!Record
<1>9. Edited
  BY <1>6, <1>7, <1>8
<1>10. mrec[i].time <= mrec'[i].time
  BY <1>2, <1>5, <1>9
<1> QED
  BY <1>2, <1>3, <1>4, <1>9, <1>10 DEF now

\* No step but the publication of a record makes one complete or older, and what
\* is not being removed keeps its parts.
RecordsStay ==
    /\ \A k \in M!Complete' :
          /\ k \in M!Complete /\ mrec[k].time <= mrec'[k].time
          /\ mrec'[k].skill = mrec[k].skill /\ mrec'[k].content = mrec[k].content
    /\ \A k \in M!Complete \ mjob.victims :
          /\ k \in M!Complete' /\ mrec'[k].time = mrec[k].time
          /\ M!Whole(mrec[k]) => M!Whole(mrec'[k])

\* The records' sides of a step: one record changes, or none.
LEMMA OneRecordChanges ==
    ASSUME M!MaterialInv, NEW i \in Slots, M!MaterialTypeOK',
           \A k \in Slots \ {i} : mrec'[k] = mrec[k],
           \/ i \notin M!Complete /\ i \notin M!Complete'
           \/ /\ i \in mjob.victims
              /\ i \in M!Complete' =>
                    /\ i \in M!Complete /\ mrec[i].time <= mrec'[i].time
                    /\ mrec'[i].skill = mrec[i].skill /\ mrec'[i].content = mrec[i].content
    PROVE  RecordsStay
<1>1. M!MaterialTypeOK
  BY DEF M!MaterialInv
<1>2. \A k \in Slots \ {i} : k \in M!Complete' <=> k \in M!Complete
  BY DEF M!Complete, M!Used
<1>3. M!Complete \subseteq Slots /\ M!Complete' \subseteq Slots
  BY DEF M!Complete, M!Used
<1>4. \A k \in M!Complete : mrec[k].time \in Nat
  BY <1>1, RecordsAreTyped DEF M!Complete
<1>5. ASSUME NEW k \in M!Complete'
      PROVE  /\ k \in M!Complete /\ mrec[k].time <= mrec'[k].time
             /\ mrec'[k].skill = mrec[k].skill /\ mrec'[k].content = mrec[k].content
  <2>1. CASE k = i
    BY <2>1, <1>5
  <2>2. CASE k # i
    BY <1>2, <1>3, <1>4, <1>5, <2>2
  <2> QED
    BY <2>1, <2>2
<1>6. ASSUME NEW k \in M!Complete \ mjob.victims
      PROVE  /\ k \in M!Complete' /\ mrec'[k].time = mrec[k].time
             /\ M!Whole(mrec[k]) => M!Whole(mrec'[k])
  <2>1. k # i
    OBVIOUS
  <2>2. k \in Slots \ {i}
    BY <1>3, <2>1
  <2> QED
    BY <1>2, <2>2
<1> QED
  BY <1>5, <1>6 DEF RecordsStay

LEMMA PacksTypeNext ==
    ASSUME M!MaterialInv, [M!Next]_mvars
    PROVE  /\ mdeleted' \in [Reviewed -> Versions \cup {Absent}] /\ mconflicted' \subseteq Reviewed
           /\ mlisted' \in [known: BOOLEAN, of: SUBSET Reviewed]
           /\ mpackages' \in [Reviewed -> M!Parts]
<1>1. /\ mdeleted \in [Reviewed -> Versions \cup {Absent}] /\ mconflicted \subseteq Reviewed
      /\ mlisted \in [known: BOOLEAN, of: SUBSET Reviewed]
      /\ mpackages \in [Reviewed -> M!Parts]
  BY DEF M!MaterialInv, M!MaterialTypeOK
<1> DEFINE Same == UNCHANGED <<mdeleted, mconflicted, mlisted, mpackages>>
<1>2. CASE Same
  BY <1>1, <1>2
<1>3. CASE M!Reset
  BY <1>1, <1>3, MaterialStart DEF M!Reset, M!AfterReset, M!World, M!Parts
<1>4. ASSUME NEW s \in Reviewed, M!BeginPackage(s) \/ M!PackageWritten(s)
      PROVE  mpackages' \in [Reviewed -> M!Parts] /\ UNCHANGED <<mdeleted, mconflicted, mlisted>>
  BY <1>1, <1>4 DEF M!BeginPackage, M!PackageWritten, M!World, M!Parts
<1>5. CASE M!WriteConflictIndex
  <2>1. mjob.entries \subseteq Reviewed
    BY <1>5 DEF M!WriteConflictIndex, M!MaterialInv, M!PackagesInOrder
  <2>2. M!Indexed(mjob.entries) \in [known: BOOLEAN, of: SUBSET Reviewed]
    BY <2>1, Zenon DEF M!Indexed
  <2> QED
    BY <1>1, <1>5, <2>2 DEF M!WriteConflictIndex, M!World
<1>6. ASSUME NEW s \in Reviewed, NEW v \in Versions \cup {Absent},
             M!Changes([mdeleted EXCEPT ![s] = v], mconflicted)
      PROVE  mdeleted' \in [Reviewed -> Versions \cup {Absent}]
             /\ UNCHANGED <<mconflicted, mlisted, mpackages>>
  BY <1>1, <1>6 DEF M!Changes, M!Packs
<1>7. ASSUME NEW s \in Reviewed,
             M!Changes(mdeleted, mconflicted \cup {s}) \/ M!Changes(mdeleted, mconflicted \ {s})
      PROVE  mconflicted' \subseteq Reviewed /\ UNCHANGED <<mdeleted, mlisted, mpackages>>
  BY <1>1, <1>7 DEF M!Changes, M!Packs
<1>8. M!BeginCycle \/ M!BuildTombstones \/ M!ReadStatus \/ M!WriteMaterial \/ M!PublishRecord
        => Same
  BY DEF M!BeginCycle, M!BuildTombstones, M!ReadStatus, M!WriteMaterial, M!PublishRecord,
         M!World, M!Packs
<1>9. M!RecordFails \/ M!WriteIndex \/ M!BeginRetention \/ M!Pruned \/ M!Crash \/ M!HourPasses
        => Same
  BY DEF M!RecordFails, M!WriteIndex, M!BeginRetention, M!Pruned, M!Crash, M!HourPasses,
         M!World, M!Packs
<1>10. (\E s \in Reviewed, i \in Slots : M!MakeRecord(s, i)) \/ (\E i \in Slots : M!RemoveRecord(i))
        => Same
  BY DEF M!MakeRecord, M!RemoveRecord, M!World, M!Packs
<1>11. (\E i \in Slots, part \in {"material", "base", "meta"}, touched \in BOOLEAN :
           M!RemovePart(i, part, touched)) => Same
  BY DEF M!RemovePart, M!World, M!Packs
<1>12. UNCHANGED mvars => Same
  BY DEF mvars
<1> QED
  BY <1>1, <1>2, <1>3, <1>4, <1>5, <1>6, <1>7, <1>8, <1>9, <1>10, <1>11, <1>12 DEF M!Next

LEMMA OneRecordTyped ==
    ASSUME M!MaterialTypeOK, NEW i \in Slots,
           mcounts' \in M!Counts, mcounts.clock <= mcounts'.clock,
           mrec' = [k \in Slots |-> mrec'[k]],
           \A k \in Slots \ {i} : mrec'[k] = mrec[k],
           mrec'[i] \in M!Record(mcounts'.clock) \cup {Absent}
    PROVE  /\ mrec' \in [Slots -> M!Record(mcounts'.clock) \cup {Absent}]
           /\ M!Used \ {i} \subseteq M!Used'
           /\ mrec'[i] \in M!Record(mcounts'.clock) => i \in M!Used'
<1>1. /\ mcounts.clock \in Nat /\ mcounts'.clock \in Nat
      /\ mrec \in [Slots -> M!Record(mcounts.clock) \cup {Absent}]
  BY DEF M!MaterialTypeOK, M!Counts
<1>2. M!Record(mcounts.clock) \subseteq M!Record(mcounts'.clock)
  BY <1>1 DEF M!Record
<1>3. \A k \in Slots : mrec'[k] \in M!Record(mcounts'.clock) \cup {Absent}
  BY <1>1, <1>2
<1>4. mrec'[i] \in M!Record(mcounts'.clock) => mrec'[i] # Absent
  BY <1>1, RecordIsPresent
<1> QED
  BY <1>3, <1>4 DEF M!Used

\* What the removal is given, and what is left of its work.
LEMMA RemovalStarts ==
    ASSUME M!MaterialTypeOK, NEW refs \in SUBSET Slots
    PROVE  /\ M!Victims(refs) \subseteq M!Complete /\ M!Complete \subseteq M!Used
           /\ M!Used \subseteq Slots
           /\ M!Victims(refs) \cap refs = {}
           /\ [M!Idle EXCEPT !.step = "prune", !.victims = M!Victims(refs)] \in M!JobState
<1>1. /\ M!Victims(refs) \subseteq M!Complete /\ M!Complete \subseteq M!Used
      /\ M!Used \subseteq Slots /\ M!Victims(refs) \cap refs = {}
  BY DEF M!Victims, M!Complete, M!Used, M!Referred
<1>2. M!Victims(refs) \in SUBSET Slots
  BY <1>1
<1>3. [M!Idle EXCEPT !.step = "prune", !.victims = M!Victims(refs)] \in M!JobState
  BY <1>2 DEF M!Idle, M!JobState, M!Steps
<1> QED
  BY <1>1, <1>3

LEMMA RecordGone ==
    ASSUME M!MaterialInv, NEW i \in Slots,
           mrec' = [mrec EXCEPT ![i] = Absent]
    PROVE  /\ mrec'[i] = Absent /\ mrec' = [k \in Slots |-> mrec'[k]]
           /\ \A k \in Slots \ {i} : mrec'[k] = mrec[k]
           /\ i \notin M!Complete'
<1>1. mrec \in [Slots -> M!Record(mcounts.clock) \cup {Absent}]
  BY DEF M!MaterialInv, M!MaterialTypeOK
<1> QED
  BY <1>1 DEF M!Complete, M!Used

\* Everything gets older.
LEMMA RecordsAge ==
    ASSUME M!MaterialInv, M!HourPasses
    PROVE  /\ mrec' \in [Slots -> M!Record(mcounts.clock) \cup {Absent}]
           /\ M!Used' = M!Used
           /\ \A k \in M!Used : /\ mrec'[k].time = mrec[k].time /\ mrec'[k].meta = mrec[k].meta
                                /\ mrec'[k].base = mrec[k].base
                                /\ mrec'[k].material = mrec[k].material
                                /\ mrec'[k].skill = mrec[k].skill
                                /\ mrec'[k].content = mrec[k].content
<1> DEFINE yes == TRUE
           aged == [i \in Slots |-> IF i \in M!Used THEN [mrec[i] EXCEPT !.old = yes] ELSE Absent]
<1>0. mcounts.clock \in Nat /\ M!MaterialTypeOK
  BY DEF M!MaterialInv, M!MaterialTypeOK, M!Counts
<1>1. mrec' = aged /\ yes \in BOOLEAN
  BY DEF M!HourPasses
<1> HIDE DEF yes
<1>2. ASSUME NEW k \in M!Used
      PROVE  /\ k \in Slots /\ mrec'[k] \in M!Record(mcounts.clock) /\ mrec'[k] # Absent
             /\ mrec'[k].time = mrec[k].time /\ mrec'[k].meta = mrec[k].meta
             /\ mrec'[k].base = mrec[k].base /\ mrec'[k].material = mrec[k].material
             /\ mrec'[k].skill = mrec[k].skill /\ mrec'[k].content = mrec[k].content
  <2>1. k \in Slots /\ mrec[k] \in M!Record(mcounts.clock)
    BY <1>0, RecordsAreTyped
  <2>2. mrec'[k] = [mrec[k] EXCEPT !.old = yes]
    BY <1>1, <2>1
  <2>3. /\ mrec'[k] \in M!Record(mcounts.clock)
        /\ mrec'[k].time = mrec[k].time /\ mrec'[k].meta = mrec[k].meta
        /\ mrec'[k].base = mrec[k].base /\ mrec'[k].material = mrec[k].material
        /\ mrec'[k].skill = mrec[k].skill /\ mrec'[k].content = mrec[k].content
    BY <1>1, <2>1, <2>2, Zenon DEF M!Record
  <2> QED
    BY <1>0, <2>1, <2>3, RecordIsPresent
<1>3. \A k \in Slots \ M!Used : mrec'[k] = Absent
  BY <1>1
<1>4. mrec' \in [Slots -> M!Record(mcounts.clock) \cup {Absent}]
  BY <1>1, <1>2, <1>3
<1>5. M!Used' = M!Used
  BY <1>2, <1>3 DEF M!Used
<1> QED
  BY <1>2, <1>4, <1>5

LEMMA MaterialTypeNext ==
    ASSUME M!MaterialInv, [M!Next]_mvars
    PROVE  M!MaterialTypeOK'
<1> DEFINE Typed == /\ mrec' \in [Slots -> M!Record(mcounts'.clock) \cup {Absent}]
                    /\ mindex' \in [known: BOOLEAN, of: SUBSET Slots]
                    /\ mjob' \in M!JobState /\ mcounts' \in M!Counts
                    /\ mjob'.victims \subseteq M!Used'
<1>1. /\ M!MaterialTypeOK
      /\ mrec \in [Slots -> M!Record(mcounts.clock) \cup {Absent}]
      /\ mindex \in [known: BOOLEAN, of: SUBSET Slots]
      /\ mjob \in M!JobState /\ mcounts \in M!Counts /\ mcounts.clock \in Nat
      /\ mjob.victims \subseteq M!Used
  BY DEF M!MaterialInv, M!MaterialTypeOK, M!Counts
<1>2. UNCHANGED mrec => M!Used' = M!Used
  BY DEF M!Used
<1>3. CASE MaterialWaits
  <2>1. mjob'.victims = mjob.victims
    BY <1>3 DEF MaterialWaits
  <2>2. Typed
    BY <1>1, <1>2, <1>3, <2>1 DEF MaterialWaits
  <2> QED
    BY <2>2, PacksTypeNext DEF M!MaterialTypeOK
<1>4. CASE M!ReadStatus
  <2> DEFINE gone == {s \in Reviewed : mdeleted[s] # Absent}
             known == {s \in gone : M!Reusable(s, mdeleted[s]) # {}}
             found == UNION {M!Latest(M!Reusable(s, mdeleted[s])) : s \in known}
  <2>1. /\ UNCHANGED <<mrec, mindex, mcounts>>
        /\ mjob' = [M!Idle EXCEPT !.step = "tombstones", !.seen = mdeleted,
                       !.todo = gone \ known, !.entries = found]
    BY <1>4 DEF M!ReadStatus, M!Tombs
  <2>2. found \subseteq Slots
    BY DEF M!Latest, M!Reusable, M!Complete, M!Used
  <2>3. mdeleted \in [Reviewed -> Versions \cup {Absent}] /\ gone \ known \subseteq Reviewed
    BY <1>1 DEF M!MaterialTypeOK
  <2> HIDE DEF gone, known, found
  <2>4. mjob' \in M!JobState /\ mjob'.victims = {}
    BY <2>1, <2>2, <2>3 DEF M!Idle, M!JobState, M!Steps
  <2>5. Typed
    BY <1>1, <2>1, <2>4
  <2> QED
    BY <2>5, PacksTypeNext DEF M!MaterialTypeOK
<1>5. ASSUME NEW s \in Reviewed, NEW i \in Slots, M!MakeRecord(s, i) PROVE Typed
  <2>1. /\ mcounts' \in M!Counts /\ mcounts'.clock = mcounts.clock + 1
        /\ mjob' \in M!JobState /\ mjob'.victims = mjob.victims
        /\ mrec[i] = Absent /\ mrec'[i] \in M!Record(mcounts'.clock)
    BY <1>5, RecordMade
  <2>2. mrec' = [k \in Slots |-> mrec'[k]] /\ \A k \in Slots \ {i} : mrec'[k] = mrec[k]
    BY <1>5, RecordMade
  <2>3. i \notin M!Used /\ mcounts.clock <= mcounts'.clock
    BY <1>1, <2>1 DEF M!Used
  <2>4. /\ mrec' \in [Slots -> M!Record(mcounts'.clock) \cup {Absent}]
        /\ M!Used \ {i} \subseteq M!Used'
    BY <1>1, <2>1, <2>2, <2>3, OneRecordTyped
  <2>5. UNCHANGED mindex
    BY <1>5 DEF M!MakeRecord
  <2> QED
    BY <1>1, <2>1, <2>3, <2>4, <2>5
<1>6. ASSUME M!WriteMaterial \/ M!PublishRecord PROVE Typed
  <2>1. PICK i \in Slots : i = mjob.at
    BY <1>6, RecordAtHand DEF M!WriteMaterial, M!PublishRecord
  <2>2. /\ mjob' \in M!JobState /\ mjob'.victims = mjob.victims
        /\ mrec'[i] \in M!Record(mcounts.clock)
    BY <1>6, <2>1, MaterialWritten, RecordPublished
  <2>3. mrec' = [k \in Slots |-> mrec'[k]] /\ \A k \in Slots \ {i} : mrec'[k] = mrec[k]
    BY <1>6, <2>1, MaterialWritten, RecordPublished
  <2>4. UNCHANGED <<mindex, mcounts>>
    BY <1>6 DEF M!WriteMaterial, M!PublishRecord
  <2>5. mcounts.clock <= mcounts'.clock /\ mcounts' \in M!Counts
    BY <1>1, <2>4
  <2>6. /\ mrec' \in [Slots -> M!Record(mcounts'.clock) \cup {Absent}]
        /\ M!Used \ {i} \subseteq M!Used' /\ i \in M!Used'
    BY <1>1, <2>2, <2>3, <2>4, <2>5, OneRecordTyped
  <2> QED
    BY <1>1, <2>2, <2>4, <2>5, <2>6
<1>7. ASSUME M!RecordFails PROVE Typed
  <2>1. PICK i \in Slots : i = mjob.at
    BY <1>7, RecordAtHand DEF M!RecordFails
  <2>2. /\ mcounts' = [mcounts EXCEPT !["crashes"] = @ + 1]
        /\ mrec' = [mrec EXCEPT ![i] = Absent] /\ mjob' = M!Idle /\ UNCHANGED mindex
    BY <1>7, <2>1 DEF M!RecordFails
  <2>3. mcounts' \in M!Counts /\ mcounts'.clock = mcounts.clock
    BY <1>1, <2>2, MaterialCounted DEF M!Counts
  <2>4. mcounts.clock <= mcounts'.clock
    BY <1>1, <2>3
  <2>5. /\ mrec'[i] = Absent /\ mrec' = [k \in Slots |-> mrec'[k]]
        /\ \A k \in Slots \ {i} : mrec'[k] = mrec[k]
    BY <2>2, RecordGone
  <2>6. mrec' \in [Slots -> M!Record(mcounts'.clock) \cup {Absent}]
    BY <1>1, <2>3, <2>4, <2>5, OneRecordTyped
  <2> QED
    BY <1>1, <2>2, <2>3, <2>6, MaterialStart
<1>8. ASSUME M!WriteIndex PROVE Typed
  <2>1. /\ mindex' = M!Indexed(mjob.entries) /\ UNCHANGED <<mrec, mcounts>>
        /\ mjob' = [M!Idle EXCEPT !.step = "prune", !.victims = M!Victims(mjob.entries)]
        /\ mjob.step = "tombstones"
    BY <1>8 DEF M!WriteIndex
  <2>2. mjob.entries \in SUBSET Slots
    BY <2>1 DEF M!MaterialInv, M!JobInOrder, M!Complete, M!Used
  <2>3. mjob' \in M!JobState /\ M!Victims(mjob.entries) \subseteq M!Used
    BY <1>1, <2>1, <2>2, RemovalStarts
  <2>4. mjob'.victims = M!Victims(mjob.entries)
    BY <2>1 DEF M!Idle
  <2>5. mindex' \in [known: BOOLEAN, of: SUBSET Slots]
    BY <2>1, <2>2, Zenon DEF M!Indexed
  <2> QED
    BY <1>1, <1>2, <2>1, <2>3, <2>4, <2>5
<1>9. ASSUME M!BeginRetention PROVE Typed
  <2>1. /\ UNCHANGED <<mrec, mcounts, mindex>>
        /\ mjob' = [M!Idle EXCEPT !.step = "prune", !.victims = M!Victims(mindex.of)]
    BY <1>9 DEF M!BeginRetention, M!Tombs
  <2>2. mindex.of \in SUBSET Slots
    BY <1>1
  <2>3. mjob' \in M!JobState /\ M!Victims(mindex.of) \subseteq M!Used
    BY <1>1, <2>1, <2>2, RemovalStarts
  <2>4. mjob'.victims = M!Victims(mindex.of)
    BY <2>1 DEF M!Idle
  <2> QED
    BY <1>1, <1>2, <2>1, <2>3, <2>4
<1>10. ASSUME M!Pruned PROVE Typed
  BY <1>1, <1>2, <1>10, MaterialStart DEF M!Pruned, M!Tombs
<1>11. ASSUME NEW i \in Slots, NEW part \in {"material", "base", "meta"},
              NEW touched \in BOOLEAN, M!RemovePart(i, part, touched)
       PROVE  Typed
  <2>1. /\ mcounts' \in M!Counts /\ mcounts.clock <= mcounts'.clock
        /\ mrec'[i] \in M!Record(mcounts'.clock)
    BY <1>11, PartRemoved
  <2>2. mrec' = [k \in Slots |-> mrec'[k]] /\ \A k \in Slots \ {i} : mrec'[k] = mrec[k]
    BY <1>11, PartRemoved
  <2>3. /\ mrec' \in [Slots -> M!Record(mcounts'.clock) \cup {Absent}]
        /\ M!Used \ {i} \subseteq M!Used' /\ i \in M!Used'
    BY <1>1, <2>1, <2>2, OneRecordTyped
  <2>4. UNCHANGED <<mindex, mjob>>
    BY <1>11 DEF M!RemovePart
  <2> QED
    BY <1>1, <2>1, <2>3, <2>4
<1>12. ASSUME NEW i \in Slots, M!RemoveRecord(i) PROVE Typed
  <2>1. /\ mrec' = [mrec EXCEPT ![i] = Absent] /\ UNCHANGED <<mindex, mcounts>>
        /\ mjob' = [mjob EXCEPT !.victims = @ \ {i}]
    BY <1>12 DEF M!RemoveRecord
  <2>2. mcounts' \in M!Counts /\ mcounts.clock <= mcounts'.clock
    BY <1>1, <2>1
  <2>3. /\ mrec'[i] = Absent /\ mrec' = [k \in Slots |-> mrec'[k]]
        /\ \A k \in Slots \ {i} : mrec'[k] = mrec[k]
    BY <2>1, RecordGone
  <2>4. /\ mrec' \in [Slots -> M!Record(mcounts'.clock) \cup {Absent}]
        /\ M!Used \ {i} \subseteq M!Used'
    BY <1>1, <2>2, <2>3, OneRecordTyped
  <2>5. mjob' \in M!JobState /\ mjob'.victims = mjob.victims \ {i}
    BY <1>1, <2>1 DEF M!JobState
  <2> QED
    BY <1>1, <2>1, <2>2, <2>4, <2>5
<1>13. ASSUME M!Crash PROVE Typed
  <2>1. mjob' = M!Idle /\ UNCHANGED <<mrec, mindex>>
    BY <1>13 DEF M!Crash, M!Tombs
  <2> QED
    BY <1>1, <1>13, <2>1, MaterialCrashes, MaterialStart
<1>14. ASSUME M!HourPasses PROVE Typed
  <2>1. UNCHANGED <<mindex, mjob, mcounts>>
    BY <1>14 DEF M!HourPasses
  <2>2. mrec' \in [Slots -> M!Record(mcounts.clock) \cup {Absent}] /\ M!Used' = M!Used
    BY <1>14, RecordsAge
  <2> QED
    BY <1>1, <2>1, <2>2
<1> HIDE DEF Typed
<1>15. CASE Typed
  BY <1>15, PacksTypeNext DEF Typed, M!MaterialTypeOK
<1> QED
  BY <1>3, <1>4, <1>5, <1>6, <1>7, <1>8, <1>9, <1>10, <1>11, <1>12, <1>13, <1>14, <1>15,
     MaterialSides

LEMMA SameRecordsStay ==
    ASSUME M!MaterialTypeOK, UNCHANGED mrec
    PROVE  RecordsStay
<1>1. M!Complete' = M!Complete
  BY DEF M!Complete, M!Used
<1>2. \A k \in M!Complete : mrec[k].time <= mrec[k].time
  BY RecordsAreTyped DEF M!Complete
<1>3. \A k \in M!Complete' :
          /\ k \in M!Complete /\ mrec[k].time <= mrec'[k].time
          /\ mrec'[k].skill = mrec[k].skill /\ mrec'[k].content = mrec[k].content
  BY <1>1, <1>2
<1>4. \A k \in M!Complete \ mjob.victims :
          /\ k \in M!Complete' /\ mrec'[k].time = mrec[k].time
          /\ M!Whole(mrec[k]) => M!Whole(mrec'[k])
  BY <1>1
<1> QED
  BY <1>3, <1>4 DEF RecordsStay

LEMMA StepsStay ==
    ASSUME M!MaterialInv, [M!Next]_mvars
    PROVE  M!PublishRecord \/ RecordsStay
<1>1. /\ M!MaterialTypeOK /\ M!MaterialTypeOK'
      /\ mrec \in [Slots -> M!Record(mcounts.clock) \cup {Absent}]
  BY MaterialTypeNext DEF M!MaterialInv, M!MaterialTypeOK
<1>2. MaterialWaits \/ M!ReadStatus \/ M!WriteIndex \/ M!BeginRetention \/ M!Pruned \/ M!Crash
        => UNCHANGED mrec
  BY DEF MaterialWaits, M!ReadStatus, M!WriteIndex, M!BeginRetention, M!Pruned, M!Crash, M!Tombs
<1>3. ASSUME NEW s \in Reviewed, NEW i \in Slots, M!MakeRecord(s, i) PROVE RecordsStay
  <2>1. mrec[i] = Absent /\ ~ mrec'[i].meta /\ \A k \in Slots \ {i} : mrec'[k] = mrec[k]
    BY <1>3, RecordMade
  <2>2. i \notin M!Complete /\ i \notin M!Complete'
    BY <2>1 DEF M!Complete, M!Used
  <2> QED
    BY <1>1, <2>1, <2>2, OneRecordChanges
<1>4. ASSUME M!WriteMaterial PROVE RecordsStay
  <2>1. PICK i \in Slots : i = mjob.at /\ i \notin M!Complete
    BY <1>4, RecordAtHand DEF M!WriteMaterial
  <2>2. ~ mrec'[i].meta /\ \A k \in Slots \ {i} : mrec'[k] = mrec[k]
    BY <1>4, <2>1, MaterialWritten
  <2>3. i \notin M!Complete'
    BY <2>2 DEF M!Complete
  <2> QED
    BY <1>1, <2>1, <2>2, <2>3, OneRecordChanges
<1>5. ASSUME M!RecordFails PROVE RecordsStay
  <2>1. PICK i \in Slots : i = mjob.at /\ i \notin M!Complete
    BY <1>5, RecordAtHand DEF M!RecordFails
  <2>2. mrec' = [mrec EXCEPT ![i] = Absent]
    BY <1>5, <2>1 DEF M!RecordFails
  <2>3. i \notin M!Complete' /\ \A k \in Slots \ {i} : mrec'[k] = mrec[k]
    BY <2>2, RecordGone
  <2> QED
    BY <1>1, <2>1, <2>3, OneRecordChanges
<1>6. ASSUME NEW i \in Slots, NEW part \in {"material", "base", "meta"},
             NEW touched \in BOOLEAN, M!RemovePart(i, part, touched)
      PROVE  RecordsStay
  <2>1. i \in mjob.victims /\ i \in M!Used
    BY <1>1, <1>6 DEF M!RemovePart, M!MaterialTypeOK
  <2>2. /\ mrec[i].time <= mrec'[i].time
        /\ mrec'[i].skill = mrec[i].skill /\ mrec'[i].content = mrec[i].content
    BY <1>6, PartRemoved
  <2>3. \A k \in Slots \ {i} : mrec'[k] = mrec[k]
    BY <1>6, PartRemoved
  <2>4. i \in M!Complete' => i \in M!Complete
    <3>1. mrec'[i].meta => mrec[i].meta
      BY <1>6, PartRemoved
    <3> QED
      BY <2>1, <3>1 DEF M!Complete
  <2> QED
    BY <1>1, <2>1, <2>2, <2>3, <2>4, OneRecordChanges
<1>7. ASSUME NEW i \in Slots, M!RemoveRecord(i) PROVE RecordsStay
  <2>1. i \in mjob.victims /\ mrec' = [mrec EXCEPT ![i] = Absent]
    BY <1>7 DEF M!RemoveRecord
  <2>2. i \notin M!Complete' /\ \A k \in Slots \ {i} : mrec'[k] = mrec[k]
    BY <2>1, RecordGone
  <2> QED
    BY <1>1, <2>1, <2>2, OneRecordChanges
<1>8. ASSUME M!HourPasses PROVE RecordsStay
  <2>1. /\ M!Used' = M!Used
        /\ \A k \in M!Used : /\ mrec'[k].time = mrec[k].time /\ mrec'[k].meta = mrec[k].meta
                             /\ mrec'[k].base = mrec[k].base
                             /\ mrec'[k].material = mrec[k].material
                             /\ mrec'[k].skill = mrec[k].skill
                             /\ mrec'[k].content = mrec[k].content
    BY <1>8, RecordsAge
  <2>2. M!Complete' = M!Complete /\ M!Complete \subseteq M!Used
    BY <2>1 DEF M!Complete
  <2>3. \A k \in M!Used : mrec[k].time \in Nat /\ mrec'[k] # Absent
    BY <1>1, <2>1, RecordsAreTyped DEF M!Used
  <2>4. \A k \in M!Complete : M!Whole(mrec[k]) => M!Whole(mrec'[k])
    BY <2>1, <2>2, <2>3 DEF M!Whole
  <2>5. \A k \in M!Complete : mrec[k].time <= mrec[k].time
    BY <2>2, <2>3
  <2> QED
    BY <2>1, <2>2, <2>4, <2>5 DEF RecordsStay
<1> QED
  BY <1>1, <1>2, <1>3, <1>4, <1>5, <1>6, <1>7, <1>8, MaterialSides, SameRecordsStay

\* What is taken away was not protected, and what began to go is gone, is still to go
\* or is known to have been cut short.
LEMMA VictimsNext ==
    ASSUME M!MaterialInv, [M!Next]_mvars
    PROVE  /\ mcounts.cut => mcounts'.cut
           /\ \A k \in mjob.victims : k \in mjob'.victims \/ k \notin M!Complete' \/ mcounts'.cut
           /\ \A k \in M!Complete \ mjob.victims : k \in M!First(M!Group(k)) => k \notin mjob'.victims
           /\ mjob'.step # "prune" => mjob'.victims = {}
           /\ mjob'.step = "prune" => mjob'.victims \cap mindex'.of = {}
<1> DEFINE Cut == mcounts.cut => mcounts'.cut
           Gone == \A k \in mjob.victims :
                      k \in mjob'.victims \/ k \notin M!Complete' \/ mcounts'.cut
           Kept == \A k \in M!Complete \ mjob.victims :
                      k \in M!First(M!Group(k)) => k \notin mjob'.victims
           Quiet == mjob'.step # "prune" => mjob'.victims = {}
           Apart == mjob'.step = "prune" => mjob'.victims \cap mindex'.of = {}
           Fine == Cut /\ Gone /\ Kept /\ Quiet /\ Apart
<1>1. /\ M!MaterialTypeOK /\ mjob \in M!JobState /\ mcounts \in M!Counts
      /\ mjob.step # "prune" => mjob.victims = {}
      /\ mjob.step = "prune" => mjob.victims \cap mindex.of = {}
  BY DEF M!MaterialInv, M!MaterialTypeOK, M!JobInOrder
<1>2. ASSUME UNCHANGED <<mindex, mjob>>, mcounts'.cut = mcounts.cut PROVE Fine
  BY <1>1, <1>2
<1>3. ASSUME mjob.victims = {}, mjob'.victims = {}, mcounts'.cut = mcounts.cut PROVE Fine
  BY <1>3
<1>4. ASSUME MaterialWaits PROVE Fine
  <2>1. CASE UNCHANGED mjob
    BY <1>2, <1>4, <2>1 DEF MaterialWaits
  <2>2. CASE mjob.step # "prune" /\ mjob'.victims = mjob.victims
    BY <1>1, <1>3, <1>4, <2>2 DEF MaterialWaits
  <2> QED
    BY <1>4, <2>1, <2>2 DEF MaterialWaits
<1>5. ASSUME M!ReadStatus PROVE Fine
  <2>1. mjob.step = "status" /\ mjob'.victims = {} /\ UNCHANGED mcounts
    BY <1>5 DEF M!ReadStatus, M!Idle
  <2> QED
    BY <1>1, <1>3, <2>1
<1>6. ASSUME NEW s \in Reviewed, NEW i \in Slots, M!MakeRecord(s, i) PROVE Fine
  <2>1. mjob.step = "tombstones"
    BY <1>6 DEF M!MakeRecord
  <2>2. mjob'.victims = mjob.victims /\ mcounts'.cut = mcounts.cut
    BY <1>6, RecordMade
  <2> QED
    BY <1>1, <1>3, <2>1, <2>2
<1>7. ASSUME M!WriteMaterial \/ M!PublishRecord PROVE Fine
  <2>1. mjob.step \in {"material", "meta"} /\ UNCHANGED mcounts
    BY <1>7 DEF M!WriteMaterial, M!PublishRecord
  <2>2. mjob'.victims = mjob.victims
    BY <1>7, MaterialWritten, RecordPublished
  <2> QED
    BY <1>1, <1>3, <2>1, <2>2
<1>8. ASSUME M!RecordFails PROVE Fine
  <2>1. /\ mjob.step \in {"material", "meta"} /\ mjob' = M!Idle
        /\ mcounts' = [mcounts EXCEPT !.crashes = @ + 1]
    BY <1>8 DEF M!RecordFails
  <2>2. mcounts'.cut = mcounts.cut
    BY <1>1, <2>1 DEF M!Counts
  <2> QED
    BY <1>1, <1>3, <2>1, <2>2, MaterialStart
<1>9. ASSUME NEW refs \in SUBSET Slots, mjob.step # "prune",
             mjob' = [M!Idle EXCEPT !.step = "prune", !.victims = M!Victims(refs)],
             UNCHANGED mcounts, mindex'.of = refs
      PROVE  Fine
  <2>1. mjob'.victims = M!Victims(refs)
    BY <1>9 DEF M!Idle
  <2>2. mjob'.step = "prune" /\ M!Victims(refs) \cap refs = {}
    BY <1>1, <1>9, RemovalStarts DEF M!Idle
  <2>3. \A k \in M!Victims(refs) : k \notin M!First(M!Group(k))
    BY DEF M!Victims, M!Protected
  <2> QED
    BY <1>1, <1>9, <2>1, <2>2, <2>3
<1>10. ASSUME M!WriteIndex PROVE Fine
  <2>1. /\ mjob.step = "tombstones" /\ UNCHANGED mcounts /\ mindex' = M!Indexed(mjob.entries)
        /\ mjob' = [M!Idle EXCEPT !.step = "prune", !.victims = M!Victims(mjob.entries)]
    BY <1>10 DEF M!WriteIndex
  <2>2. mindex'.of = mjob.entries /\ mjob.entries \in SUBSET Slots
    BY <2>1 DEF M!Indexed, M!MaterialInv, M!JobInOrder, M!Complete, M!Used
  <2> QED
    BY <1>9, <2>1, <2>2
<1>11. ASSUME M!BeginRetention PROVE Fine
  <2>1. /\ mjob.step = "idle" /\ UNCHANGED <<mcounts, mindex>>
        /\ mjob' = [M!Idle EXCEPT !.step = "prune", !.victims = M!Victims(mindex.of)]
    BY <1>11, MaterialStart DEF M!BeginRetention, M!Tombs
  <2>2. mindex'.of = mindex.of /\ mindex.of \in SUBSET Slots
    BY <1>1, <2>1 DEF M!MaterialTypeOK
  <2> QED
    BY <1>9, <2>1, <2>2
<1>12. ASSUME M!Pruned PROVE Fine
  <2>1. mjob.victims = {} /\ mjob' = M!Idle /\ UNCHANGED mcounts
    BY <1>12 DEF M!Pruned
  <2> QED
    BY <1>3, <2>1, MaterialStart
<1>13. ASSUME NEW i \in Slots, NEW part \in {"material", "base", "meta"},
              NEW touched \in BOOLEAN, M!RemovePart(i, part, touched)
       PROVE  Fine
  <2>1. UNCHANGED <<mindex, mjob>>
    BY <1>13 DEF M!RemovePart
  <2>2. mcounts'.cut = mcounts.cut
    BY <1>13, PartRemoved
  <2> QED
    BY <1>2, <2>1, <2>2
<1>14. ASSUME NEW i \in Slots, M!RemoveRecord(i) PROVE Fine
  <2>1. /\ mjob.step = "prune" /\ UNCHANGED <<mindex, mcounts>>
        /\ mjob' = [mjob EXCEPT !.victims = @ \ {i}]
        /\ mrec' = [mrec EXCEPT ![i] = Absent]
    BY <1>14 DEF M!RemoveRecord
  <2>2. mjob'.step = "prune" /\ mjob'.victims = mjob.victims \ {i}
    BY <1>1, <2>1 DEF M!JobState
  <2>3. i \notin M!Complete'
    BY <2>1, RecordGone
  <2> QED
    BY <1>1, <2>1, <2>2, <2>3
<1>15. ASSUME M!Crash PROVE Fine
  <2>1. mjob' = M!Idle
    BY <1>15 DEF M!Crash
  <2>2. mcounts'.cut <=> mcounts.cut \/ mjob.step = "prune"
    BY <1>1, <1>15, MaterialCrashes
  <2> QED
    BY <1>1, <2>1, <2>2, MaterialStart
<1>16. ASSUME M!HourPasses PROVE Fine
  BY <1>2, <1>16 DEF M!HourPasses
<1>17. Fine
  <2> HIDE DEF Fine
  <2> QED
    BY <1>4, <1>5, <1>6, <1>7, <1>8, <1>10, <1>11, <1>12, <1>13, <1>14, <1>15, <1>16,
       MaterialSides
<1> QED
  BY <1>17

\* Publishing a record changes that record only; it is the youngest, and whole.
LEMMA PublishedYoungest ==
    ASSUME M!MaterialInv, M!PublishRecord
    PROVE  /\ mjob.at \in Slots \ M!Complete /\ mjob.at \notin mindex.of
           /\ M!Complete' = M!Complete \cup {mjob.at}
           /\ M!Whole(mrec'[mjob.at])
           /\ \A k \in M!Complete : /\ mrec'[k] = mrec[k]
                                    /\ mrec[k].time <= mrec'[mjob.at].time
           /\ mjob.victims = {} /\ mjob'.victims = {}
           /\ UNCHANGED <<mindex, mcounts>>
<1>1. PICK i \in Slots : i = mjob.at /\ i \notin M!Complete /\ i \notin mindex.of
  BY RecordAtHand DEF M!PublishRecord
<1>2. /\ mrec'[i].meta /\ mrec'[i].time = mcounts.clock
      /\ mrec'[i].base /\ mrec'[i].material = "whole"
      /\ mrec'[i] \in M!Record(mcounts.clock)
  BY <1>1, RecordPublished
<1>3. \A k \in Slots \ {i} : mrec'[k] = mrec[k]
  BY <1>1, RecordPublished
<1>4. M!MaterialTypeOK /\ mcounts.clock \in Nat /\ mjob.victims = {} /\ mjob'.victims = {}
  BY RecordPublished DEF M!MaterialInv, M!MaterialTypeOK, M!Counts, M!JobInOrder, M!PublishRecord
<1>5. mrec'[i] # Absent
  BY <1>2, <1>4, RecordIsPresent
<1>6. M!Complete' = M!Complete \cup {i}
  BY <1>1, <1>2, <1>3, <1>5 DEF M!Complete, M!Used
<1>7. M!Whole(mrec'[i])
  BY <1>2, <1>5 DEF M!Whole
<1>8. ASSUME NEW k \in M!Complete
      PROVE  mrec'[k] = mrec[k] /\ mrec[k].time <= mrec'[i].time
  <2>1. k \in Slots \ {i} /\ mrec[k].time <= mcounts.clock
    BY <1>1, <1>4, RecordsAreTyped DEF M!Complete
  <2> QED
    BY <1>2, <1>3, <2>1
<1> QED
  BY <1>1, <1>4, <1>6, <1>7, <1>8 DEF M!PublishRecord

LEMMA MetadataNext ==
    ASSUME M!MaterialInv, [M!Next]_mvars
    PROVE  M!MetadataIsLast'
<1>1. \A i \in M!Complete : ~ M!Whole(mrec[i]) => mcounts.cut \/ i \in mjob.victims
  BY DEF M!MaterialInv, M!MetadataIsLast
<1>2. CASE RecordsStay
  <2>1. ASSUME NEW i \in M!Complete', ~ M!Whole(mrec'[i])
        PROVE  mcounts'.cut \/ i \in mjob'.victims
    BY <1>1, <1>2, <2>1, VictimsNext DEF RecordsStay
  <2> QED
    BY <2>1 DEF M!MetadataIsLast
<1>3. CASE M!PublishRecord
  <2>1. /\ M!Complete' = M!Complete \cup {mjob.at} /\ M!Whole(mrec'[mjob.at])
        /\ \A k \in M!Complete : mrec'[k] = mrec[k]
        /\ mjob.victims = {} /\ UNCHANGED mcounts
    BY <1>3, PublishedYoungest
  <2>2. ASSUME NEW i \in M!Complete', ~ M!Whole(mrec'[i]) PROVE mcounts'.cut
    BY <1>1, <2>1, <2>2
  <2> QED
    BY <2>2 DEF M!MetadataIsLast
<1> QED
  BY <1>2, <1>3, StepsStay

LEMMA IndexedNext ==
    ASSUME M!MaterialInv, [M!Next]_mvars
    PROVE  M!IndexedIsWhole'
<1>1. /\ \A i \in mindex.of : i \in M!Complete /\ (M!Whole(mrec[i]) \/ mcounts.cut)
      /\ mjob.step # "prune" => mjob.victims = {}
      /\ mjob.step = "prune" => mjob.victims \cap mindex.of = {}
  BY DEF M!MaterialInv, M!IndexedIsWhole, M!JobInOrder
<1>2. ASSUME M!WriteIndex PROVE M!IndexedIsWhole'
  <2>1. mjob.step = "tombstones" /\ mindex' = M!Indexed(mjob.entries) /\ UNCHANGED <<mrec, mcounts>>
    BY <1>2 DEF M!WriteIndex
  <2>2. \A i \in mjob.entries : i \in M!Complete /\ (M!Whole(mrec[i]) \/ mcounts.cut)
    BY <2>1 DEF M!MaterialInv, M!JobInOrder
  <2>3. mindex'.of = mjob.entries /\ M!Complete' = M!Complete
    BY <2>1 DEF M!Indexed, M!Complete, M!Used
  <2> QED
    BY <2>1, <2>2, <2>3 DEF M!IndexedIsWhole
<1>3. M!WriteIndex \/ UNCHANGED mindex
  BY MaterialSides DEF MaterialWaits, M!ReadStatus, M!MakeRecord, M!WriteMaterial, M!PublishRecord,
     M!RecordFails, M!BeginRetention, M!Pruned, M!RemovePart, M!RemoveRecord, M!Crash,
     M!HourPasses, M!Tombs
<1>4. ASSUME UNCHANGED mindex, RecordsStay PROVE M!IndexedIsWhole'
  <2>1. \A i \in mindex.of : i \notin mjob.victims
    BY <1>1
  <2>2. ASSUME NEW i \in mindex.of
        PROVE  i \in M!Complete' /\ (M!Whole(mrec'[i]) \/ mcounts'.cut)
    BY <1>1, <1>4, <2>1, VictimsNext DEF RecordsStay
  <2> QED
    BY <1>4, <2>2 DEF M!IndexedIsWhole
<1>5. ASSUME M!PublishRecord PROVE M!IndexedIsWhole'
  <2>1. /\ M!Complete' = M!Complete \cup {mjob.at}
        /\ \A k \in M!Complete : mrec'[k] = mrec[k]
        /\ UNCHANGED <<mindex, mcounts>>
    BY <1>5, PublishedYoungest
  <2> QED
    BY <1>1, <2>1 DEF M!IndexedIsWhole
<1> QED
  BY <1>2, <1>3, <1>4, <1>5, StepsStay

LEMMA OldestNext ==
    ASSUME M!MaterialInv, [M!Next]_mvars
    PROVE  M!OldestIsWhole'
<1>1. /\ \A i \in M!Complete : \E k \in M!First(M!Group(i)) :
            M!Whole(mrec[k]) /\ k \notin mjob.victims
      /\ M!MaterialTypeOK /\ M!MaterialTypeOK'
  BY MaterialTypeNext DEF M!MaterialInv, M!OldestIsWhole
<1>2. M!Complete \subseteq Slots /\ \A k \in M!Complete : mrec[k].time \in Nat
  BY <1>1, RecordsAreTyped DEF M!Complete
<1>3. M!Complete' \subseteq Slots /\ \A k \in M!Complete' : mrec'[k].time \in Nat
  <2>1. ASSUME M!MaterialTypeOK'
        PROVE  \A k \in M!Complete' : k \in M!Used' /\ mrec'[k].time \in Nat
    <3>1. mcounts'.clock \in Nat /\ \A k \in M!Complete' : mrec'[k] \in M!Record(mcounts'.clock)
      BY <2>1 DEF M!MaterialTypeOK, M!Counts, M!Complete, M!Used
    <3> QED
      BY <3>1 DEF M!Record, M!Complete
  <2> QED
    BY <1>1, <2>1 DEF M!Used
<1>4. ASSUME RecordsStay, NEW i \in M!Complete'
      PROVE  \E k \in M!First(M!Group(i))' : M!Whole(mrec'[k]) /\ k \notin mjob'.victims
  <2>1. i \in M!Complete
    BY <1>4 DEF RecordsStay
  <2>2. PICK k \in M!First(M!Group(i)) : M!Whole(mrec[k]) /\ k \notin mjob.victims
    BY <1>1, <2>1
  <2>3. k \in M!Complete /\ M!Signature(k) = M!Signature(i)
        /\ \A j \in M!Group(i) : mrec[k].time <= mrec[j].time
    BY <2>2 DEF M!First, M!Group
  <2>4. k \in M!Complete' /\ mrec'[k].time = mrec[k].time /\ M!Whole(mrec'[k])
    BY <1>4, <2>2, <2>3 DEF RecordsStay
  <2>5. k \notin mjob'.victims
    <3>1. M!Group(k) = M!Group(i)
      BY <2>3 DEF M!Group
    <3> QED
      BY <2>2, <2>3, <3>1, VictimsNext
  <2>6. ASSUME NEW j \in M!Complete' PROVE j \in M!Complete /\ M!Signature(j)' = M!Signature(j)
    BY <1>4, <2>6 DEF RecordsStay, M!Signature
  <2>7. k \in M!Group(i)'
    BY <1>4, <2>3, <2>4, <2>6 DEF M!Group
  <2>8. ASSUME NEW j \in M!Group(i)' PROVE mrec'[k].time <= mrec'[j].time
    <3>1. j \in M!Complete' /\ M!Signature(j)' = M!Signature(i)'
      BY <2>8 DEF M!Group
    <3>2. j \in M!Group(i)
      BY <1>4, <2>6, <3>1 DEF M!Group
    <3>3. mrec[j].time <= mrec'[j].time /\ mrec[k].time <= mrec[j].time
      BY <1>4, <2>3, <3>1, <3>2 DEF RecordsStay
    <3>4. mrec[j].time \in Nat /\ mrec'[j].time \in Nat /\ mrec[k].time \in Nat
      BY <1>2, <1>3, <2>3, <2>6, <3>1
    <3> QED
      BY <2>4, <3>3, <3>4
  <2>9. k \in M!First(M!Group(i))'
    BY <2>7, <2>8 DEF M!First
  <2> QED
    BY <2>4, <2>5, <2>9
<1>5. ASSUME M!PublishRecord, NEW i \in M!Complete'
      PROVE  \E k \in M!First(M!Group(i))' : M!Whole(mrec'[k]) /\ k \notin mjob'.victims
  <2>1. PICK at \in Slots : at = mjob.at /\ at \notin M!Complete
    BY <1>5, PublishedYoungest
  <2>2. /\ M!Complete' = M!Complete \cup {at} /\ M!Whole(mrec'[at])
        /\ \A k \in M!Complete : mrec'[k] = mrec[k] /\ mrec[k].time <= mrec'[at].time
        /\ mjob'.victims = {}
    BY <1>5, <2>1, PublishedYoungest
  <2>3. ASSUME NEW j \in M!Complete PROVE M!Signature(j)' = M!Signature(j)
    BY <2>2 DEF M!Signature
  <2>4. CASE \E j \in M!Complete : M!Signature(j)' = M!Signature(i)'
    <3>1. PICK j \in M!Complete : M!Signature(j)' = M!Signature(i)'
      BY <2>4
    <3>2. PICK k \in M!First(M!Group(j)) : M!Whole(mrec[k])
      BY <1>1
    <3>3. k \in M!Complete /\ M!Signature(k) = M!Signature(j)
          /\ \A x \in M!Group(j) : mrec[k].time <= mrec[x].time
      BY <3>2 DEF M!First, M!Group
    <3>4. k \in M!Group(i)' /\ M!Whole(mrec'[k]) /\ mrec'[k] = mrec[k]
      BY <2>2, <2>3, <3>1, <3>2, <3>3 DEF M!Group
    <3>5. ASSUME NEW x \in M!Group(i)' PROVE mrec'[k].time <= mrec'[x].time
      <4>1. x \in M!Complete' /\ M!Signature(x)' = M!Signature(i)'
        BY <3>5 DEF M!Group
      <4>2. CASE x = at
        BY <2>2, <3>3, <3>4, <4>2
      <4>3. CASE x \in M!Complete
        <5>1. x \in M!Group(j)
          BY <2>3, <3>1, <4>1, <4>3 DEF M!Group
        <5> QED
          BY <2>2, <3>3, <3>4, <4>3, <5>1
      <4> QED
        BY <2>2, <4>1, <4>2, <4>3
    <3>6. k \in M!First(M!Group(i))'
      BY <3>4, <3>5 DEF M!First
    <3> QED
      BY <2>2, <3>4, <3>6
  <2>5. CASE ~ \E j \in M!Complete : M!Signature(j)' = M!Signature(i)'
    <3>1. i = at
      BY <1>5, <2>2, <2>5
    <3>2. \A x \in M!Group(i)' : x = at
      BY <2>2, <2>5 DEF M!Group
    <3>3. at \in M!Group(i)' /\ mrec'[at].time <= mrec'[at].time
      BY <1>3, <1>5, <2>2, <3>1 DEF M!Group
    <3>4. at \in M!First(M!Group(i))'
      BY <3>2, <3>3 DEF M!First
    <3> QED
      BY <2>2, <3>4
  <2> QED
    BY <2>4, <2>5
<1>6. \A i \in M!Complete' :
         \E k \in M!First(M!Group(i))' : M!Whole(mrec'[k]) /\ k \notin mjob'.victims
  BY <1>4, <1>5, StepsStay
<1> QED
  BY <1>6 DEF M!OldestIsWhole

\* What a build is to list stays complete and whole.
LEMMA EntriesStay ==
    ASSUME M!MaterialInv, [M!Next]_mvars, RecordsStay,
           mjob.step \in {"tombstones", "material", "meta"}
    PROVE  \A i \in mjob.entries : i \in M!Complete' /\ (M!Whole(mrec'[i]) \/ mcounts'.cut)
<1>1. /\ \A i \in mjob.entries : i \in M!Complete /\ (M!Whole(mrec[i]) \/ mcounts.cut)
      /\ mjob.victims = {}
  BY DEF M!MaterialInv, M!JobInOrder
<1> QED
  BY <1>1, VictimsNext DEF RecordsStay

\* The parts of JobInOrder but what the removal leaves alone.
ListedInOrder ==
    mjob.step \in {"tombstones", "material", "meta"} =>
        /\ \A s \in mjob.todo : mjob.seen[s] # Absent
        /\ \A i \in mjob.entries : i \in M!Complete /\ (M!Whole(mrec[i]) \/ mcounts.cut)
AtHandInOrder ==
    /\ mjob.step \in {"material", "meta"} =>
          /\ mjob.at \in M!Used \ mindex.of
          /\ ~ mrec[mjob.at].meta /\ mrec[mjob.at].time = mcounts.clock
    /\ mjob.step = "meta" => mrec[mjob.at].base /\ mrec[mjob.at].material = "whole"

LEMMA ListedNext ==
    ASSUME M!MaterialInv, [M!Next]_mvars
    PROVE  ListedInOrder' /\ AtHandInOrder'
<1>1. /\ M!MaterialTypeOK /\ mjob \in M!JobState /\ mcounts \in M!Counts
      /\ mjob.step # "prune" => mjob.victims = {}
      /\ ListedInOrder /\ AtHandInOrder
      /\ M!MaterialTypeOK' /\ mcounts'.clock \in Nat
  BY MaterialTypeNext DEF M!MaterialInv, M!MaterialTypeOK, M!JobInOrder, ListedInOrder,
     AtHandInOrder, M!Counts
<1>2. ASSUME mjob'.step \notin {"tombstones", "material", "meta"}
      PROVE  ListedInOrder' /\ AtHandInOrder'
  BY <1>2 DEF ListedInOrder, AtHandInOrder
<1>3. CASE MaterialWaits
  <2>1. CASE UNCHANGED mjob
    <3>1. M!Complete' = M!Complete /\ M!Used' = M!Used
      BY <1>3 DEF MaterialWaits, M!Complete, M!Used
    <3>2. UNCHANGED <<mrec, mindex, mjob>> /\ mcounts'.clock = mcounts.clock /\ mcounts'.cut = mcounts.cut
      BY <1>3, <2>1 DEF MaterialWaits
    <3> QED
      BY <1>1, <3>1, <3>2 DEF ListedInOrder, AtHandInOrder
  <2>2. CASE mjob'.step \in {"reset", "packages", "package", "listing", "status"}
    BY <1>2, <2>2
  <2> QED
    BY <1>3, <2>1, <2>2 DEF MaterialWaits
<1>4. CASE M!ReadStatus
  <2> DEFINE gone == {s \in Reviewed : mdeleted[s] # Absent}
             known == {s \in gone : M!Reusable(s, mdeleted[s]) # {}}
             found == UNION {M!Latest(M!Reusable(s, mdeleted[s])) : s \in known}
  <2>1. /\ UNCHANGED <<mrec, mcounts>> /\ mjob.step = "status"
        /\ mjob' = [M!Idle EXCEPT !.step = "tombstones", !.seen = mdeleted,
                       !.todo = gone \ known, !.entries = found]
    BY <1>4 DEF M!ReadStatus, M!Tombs
  <2>2. found \subseteq M!Complete
    BY DEF M!Latest, M!Reusable
  <2>3. \A s \in gone \ known : mdeleted[s] # Absent
    OBVIOUS
  <2> HIDE DEF gone, known, found
  <2>4. /\ mjob'.step = "tombstones" /\ mjob'.seen = mdeleted
        /\ mjob'.todo = gone \ known /\ mjob'.entries = found
    BY <2>1 DEF M!Idle
  <2>5. \A i \in M!Complete : M!Whole(mrec[i]) \/ mcounts.cut
    BY <1>1, <2>1 DEF M!MaterialInv, M!MetadataIsLast
  <2>6. M!Complete' = M!Complete
    BY <2>1 DEF M!Complete, M!Used
  <2>7. \A s \in mjob'.todo : mjob'.seen[s] # Absent
    BY <2>3, <2>4
  <2>8. \A i \in mjob'.entries : i \in M!Complete' /\ (M!Whole(mrec'[i]) \/ mcounts'.cut)
    BY <2>1, <2>2, <2>4, <2>5, <2>6
  <2> QED
    BY <2>4, <2>7, <2>8 DEF ListedInOrder, AtHandInOrder
<1>5. ASSUME NEW s \in Reviewed, NEW i \in Slots, M!MakeRecord(s, i)
      PROVE  ListedInOrder' /\ AtHandInOrder'
  <2>1. mjob.step = "tombstones" /\ UNCHANGED mindex
    BY <1>5 DEF M!MakeRecord
  <2>2. /\ mjob'.step = "material" /\ mjob'.at = i /\ mjob'.entries = mjob.entries
        /\ mjob'.todo = mjob.todo \ {s} /\ mjob'.seen = mjob.seen
        /\ mrec[i] = Absent /\ mrec'[i] \in M!Record(mcounts'.clock)
        /\ ~ mrec'[i].meta /\ mrec'[i].time = mcounts'.clock
    BY <1>5, RecordMade
  <2>3. RecordsStay
    BY <1>5, <2>1, StepsStay DEF M!PublishRecord
  <2>4. \A k \in mjob.entries : k \in M!Complete' /\ (M!Whole(mrec'[k]) \/ mcounts'.cut)
    BY <2>1, <2>3, EntriesStay
  <2>5. i \in M!Used' \ mindex'.of
    <3>1. i \notin M!Complete
      BY <2>2 DEF M!Complete, M!Used
    <3>2. i \notin mindex.of
      BY <3>1 DEF M!MaterialInv, M!IndexedIsWhole
    <3> QED
      BY <1>1, <2>1, <2>2, <3>2, RecordIsPresent DEF M!Used
  <2> QED
    BY <1>1, <2>1, <2>2, <2>4, <2>5 DEF ListedInOrder, AtHandInOrder
<1>6. CASE M!WriteMaterial
  <2>1. mjob.step = "material" /\ UNCHANGED <<mindex, mcounts>>
    BY <1>6 DEF M!WriteMaterial
  <2>2. PICK i \in Slots : /\ i = mjob.at /\ i \notin mindex.of
                           /\ mrec[i].time = mcounts.clock
    BY <2>1, RecordAtHand
  <2>3. /\ mjob'.step = "meta" /\ mjob'.at = i /\ mjob'.entries = mjob.entries
        /\ mjob'.todo = mjob.todo /\ mjob'.seen = mjob.seen
        /\ mrec'[i] \in M!Record(mcounts.clock)
        /\ ~ mrec'[i].meta /\ mrec'[i].time = mrec[i].time
        /\ mrec'[i].base /\ mrec'[i].material = "whole"
    BY <1>6, <2>2, MaterialWritten
  <2>4. RecordsStay
    BY <1>6, <2>1, StepsStay DEF M!PublishRecord
  <2>5. \A k \in mjob.entries : k \in M!Complete' /\ (M!Whole(mrec'[k]) \/ mcounts'.cut)
    BY <2>1, <2>4, EntriesStay
  <2>6. i \in M!Used' \ mindex'.of
    BY <1>1, <2>1, <2>2, <2>3, RecordIsPresent DEF M!Used
  <2> QED
    BY <1>1, <2>1, <2>2, <2>3, <2>5, <2>6 DEF ListedInOrder, AtHandInOrder
<1>7. CASE M!PublishRecord
  <2>1. PICK i \in Slots : i = mjob.at
    BY <1>7, PublishedYoungest
  <2>2. /\ M!Complete' = M!Complete \cup {i} /\ M!Whole(mrec'[i])
        /\ \A k \in M!Complete : mrec'[k] = mrec[k]
        /\ UNCHANGED mcounts
    BY <1>7, <2>1, PublishedYoungest
  <2>3. /\ mjob.step = "meta" /\ mjob'.step = "tombstones"
        /\ mjob'.entries = mjob.entries \cup {i}
        /\ mjob'.todo = mjob.todo /\ mjob'.seen = mjob.seen
    BY <1>7, <2>1, RecordPublished DEF M!PublishRecord
  <2> QED
    BY <1>1, <2>2, <2>3 DEF ListedInOrder, AtHandInOrder
<1>8. M!RecordFails \/ M!Crash \/ M!Pruned => mjob' = M!Idle
  BY DEF M!RecordFails, M!Crash, M!Pruned
<1>9. M!WriteIndex \/ M!BeginRetention => mjob'.step = "prune"
  BY DEF M!WriteIndex, M!BeginRetention, M!Idle
<1>10. (\E i \in Slots, part \in {"material", "base", "meta"}, touched \in BOOLEAN :
           M!RemovePart(i, part, touched)) => mjob'.step = "prune"
  BY DEF M!RemovePart
<1>11. ASSUME NEW i \in Slots, M!RemoveRecord(i) PROVE mjob'.step = "prune"
  BY <1>1, <1>11 DEF M!RemoveRecord, M!JobState
<1>12. M!HourPasses => mjob' = M!Idle
  BY DEF M!HourPasses
<1> QED
  BY <1>2, <1>3, <1>4, <1>5, <1>6, <1>7, <1>8, <1>9, <1>10, <1>11, <1>12, MaterialSides,
     MaterialStart

\* The conflict packages and their index.
LEMMA PackagesNext ==
    ASSUME M!MaterialInv, [M!Next]_mvars
    PROVE  M!PackagesInOrder'
<1>1. /\ M!PackagesInOrder /\ M!MaterialTypeOK /\ mjob \in M!JobState
      /\ mpackages \in [Reviewed -> M!Parts]
  BY DEF M!MaterialInv, M!MaterialTypeOK
<1> DEFINE Else == {"idle", "reset", "status", "tombstones", "material", "meta", "index", "prune"}
<1>2. ASSUME UNCHANGED <<mpackages, mlisted>>, UNCHANGED mjob \/ mjob'.step \in Else
      PROVE  M!PackagesInOrder'
  BY <1>1, <1>2 DEF M!PackagesInOrder
<1>3. CASE M!BeginCycle \/ M!BuildTombstones \/ M!ReadStatus
  BY <1>2, <1>3 DEF M!BeginCycle, M!BuildTombstones, M!ReadStatus, M!Packs, M!Idle
<1>4. CASE M!Reset
  <2>1. /\ mpackages' = [s \in Reviewed |-> "none"] /\ ~ mlisted'.known
        /\ mjob'.todo = mconflicted /\ mjob'.entries = mconflicted
        /\ mjob'.step \in {"status", "packages"}
        /\ mconflicted \subseteq Reviewed
    BY <1>1, <1>4, MaterialStart DEF M!Reset, M!AfterReset, M!JobState, M!MaterialTypeOK
  <2> QED
    BY <2>1 DEF M!PackagesInOrder
<1>5. ASSUME NEW s \in Reviewed, M!BeginPackage(s) PROVE M!PackagesInOrder'
  <2>1. /\ mjob.step = "packages" /\ s \in mjob.todo /\ UNCHANGED mlisted
        /\ mpackages' = [mpackages EXCEPT ![s] = "torn"]
        /\ mjob'.step = "package" /\ mjob'.todo = mjob.todo \ {s} /\ mjob'.entries = mjob.entries
    BY <1>1, <1>5 DEF M!BeginPackage, M!JobState
  <2>2. /\ ~ mlisted.known /\ mjob.entries \subseteq Reviewed /\ mjob.todo \subseteq mjob.entries
        /\ \A x \in Reviewed :
              mpackages[x] = IF x \in mjob.entries \ mjob.todo THEN "whole" ELSE "none"
    BY <1>1, <2>1 DEF M!PackagesInOrder
  <2>3. s \in mjob'.entries \ mjob'.todo /\ mpackages'[s] = "torn"
    BY <1>1, <2>1, <2>2
  <2>4. \A x \in Reviewed \ {s} :
           mpackages'[x] = IF x \in mjob'.entries \ mjob'.todo THEN "whole" ELSE "none"
    BY <1>1, <2>1, <2>2
  <2> QED
    BY <2>1, <2>2, <2>3, <2>4 DEF M!PackagesInOrder
<1>6. ASSUME NEW s \in Reviewed, M!PackageWritten(s) PROVE M!PackagesInOrder'
  <2>1. /\ mjob.step = "package" /\ mpackages[s] = "torn" /\ UNCHANGED mlisted
        /\ mpackages' = [mpackages EXCEPT ![s] = "whole"]
        /\ mjob'.step = IF mjob.todo = {} THEN "listing" ELSE "packages"
        /\ mjob'.todo = mjob.todo /\ mjob'.entries = mjob.entries
    BY <1>1, <1>6 DEF M!PackageWritten, M!JobState
  <2>2. ~ mlisted.known /\ mjob.entries \subseteq Reviewed /\ mjob.todo \subseteq mjob.entries
    BY <1>1, <2>1 DEF M!PackagesInOrder
  <2>3. PICK x \in mjob.entries \ mjob.todo :
           /\ mpackages[x] = "torn"
           /\ \A y \in Reviewed \ {x} :
                 mpackages[y] = IF y \in mjob.entries \ mjob.todo THEN "whole" ELSE "none"
    BY <1>1, <2>1 DEF M!PackagesInOrder
  <2>4. x = s
    BY <2>1, <2>3
  <2>5. \A y \in Reviewed :
           mpackages'[y] = IF y \in mjob.entries \ mjob.todo THEN "whole" ELSE "none"
    BY <1>1, <2>1, <2>3, <2>4
  <2> QED
    BY <2>1, <2>2, <2>5 DEF M!PackagesInOrder
<1>7. CASE M!WriteConflictIndex
  <2>1. /\ mjob.step = "listing" /\ UNCHANGED mpackages
        /\ mlisted'.of = mjob.entries /\ mjob'.step = "status"
    BY <1>1, <1>7 DEF M!WriteConflictIndex, M!JobState, M!Indexed
  <2> QED
    BY <1>1, <2>1 DEF M!PackagesInOrder
<1>8. ASSUME NEW s \in Reviewed, NEW i \in Slots, M!MakeRecord(s, i) PROVE M!PackagesInOrder'
  <2>1. mjob'.step = "material" /\ UNCHANGED <<mpackages, mlisted>>
    BY <1>8, RecordMade DEF M!MakeRecord, M!Packs
  <2> QED
    BY <1>2, <2>1
<1>9. CASE M!WriteMaterial \/ M!PublishRecord
  <2>1. mjob'.step \in {"meta", "tombstones"} /\ UNCHANGED <<mpackages, mlisted>>
    BY <1>9, MaterialWritten, RecordPublished DEF M!WriteMaterial, M!PublishRecord, M!Packs
  <2> QED
    BY <1>2, <2>1
<1>10. CASE M!RecordFails \/ M!Crash \/ M!Pruned \/ M!HourPasses
  <2>1. mjob'.step = "idle" /\ UNCHANGED <<mpackages, mlisted>>
    BY <1>10, MaterialStart DEF M!RecordFails, M!Crash, M!Pruned, M!HourPasses, M!Packs
  <2> QED
    BY <1>2, <2>1
<1>11. CASE M!WriteIndex \/ M!BeginRetention
  <2>1. mjob'.step = "prune" /\ UNCHANGED <<mpackages, mlisted>>
    BY <1>11 DEF M!WriteIndex, M!BeginRetention, M!Packs, M!Idle
  <2> QED
    BY <1>2, <2>1
<1>12. ASSUME NEW i \in Slots, NEW part, NEW touched, M!RemovePart(i, part, touched)
       PROVE  M!PackagesInOrder'
  BY <1>2, <1>12 DEF M!RemovePart, M!Packs
<1>13. ASSUME NEW i \in Slots, M!RemoveRecord(i) PROVE M!PackagesInOrder'
  <2>1. mjob'.step = "prune" /\ UNCHANGED <<mpackages, mlisted>>
    BY <1>1, <1>13 DEF M!RemoveRecord, M!Packs, M!JobState
  <2> QED
    BY <1>2, <2>1
<1>14. ASSUME NEW d, NEW c, M!Changes(d, c) PROVE M!PackagesInOrder'
  BY <1>2, <1>14 DEF M!Changes, M!Packs
<1>15. CASE UNCHANGED mvars
  BY <1>2, <1>15 DEF mvars
<1> QED
  BY <1>3, <1>4, <1>5, <1>6, <1>7, <1>8, <1>9, <1>10, <1>11, <1>12, <1>13, <1>14, <1>15
     DEF M!Next

\* What a cycle leaves for review, in order at every step: finished records are whole
\* unless a removal was cut short, what the index lists stays, the oldest record of
\* a deletion is whole and never removed, and the conflict index is written last.
THEOREM MaterialInvariance == ServiceSpec => []M!MaterialInv
<1>1. M!MaterialInv /\ [M!Next]_mvars => M!MaterialInv'
  <2> SUFFICES ASSUME M!MaterialInv, [M!Next]_mvars PROVE M!MaterialInv'
    OBVIOUS
  <2>1. M!JobInOrder'
    BY ListedNext, VictimsNext DEF ListedInOrder, AtHandInOrder, M!JobInOrder
  <2> QED
    BY <2>1, MaterialTypeNext, MetadataNext, IndexedNext, OldestNext, PackagesNext
       DEF M!MaterialInv
<1>2. M!Spec => M!Init /\ [][M!Next]_mvars
  BY DEF M!Spec, M!vars, mvars
<1> QED
  BY <1>1, <1>2, MaterialInit, PTL DEF ServiceSpec

\* Pruning leaves of every deletion a record that is whole.
LEMMA PruningKeepsOne ==
    ASSUME M!MaterialInv, [M!Next]_mvars
    PROVE  \A i \in M!Used : M!Whole(mrec[i]) /\ mjob.step = "prune" =>
              \E k \in M!Used : /\ M!Whole(mrec'[k])
                                /\ mrec'[k].skill = mrec[i].skill
                                /\ mrec'[k].content = mrec[i].content
<1> SUFFICES ASSUME NEW i \in M!Used, M!Whole(mrec[i]), mjob.step = "prune"
             PROVE  \E k \in M!Used : /\ M!Whole(mrec'[k])
                                      /\ mrec'[k].skill = mrec[i].skill
                                      /\ mrec'[k].content = mrec[i].content
  OBVIOUS
<1>1. RecordsStay
  BY StepsStay DEF M!PublishRecord
<1>2. i \in M!Complete
  BY DEF M!Whole, M!Complete
<1>3. PICK k \in M!First(M!Group(i)) : M!Whole(mrec[k]) /\ k \notin mjob.victims
  BY <1>2 DEF M!MaterialInv, M!OldestIsWhole
<1>4. k \in M!Complete /\ M!Signature(k) = M!Signature(i)
  BY <1>3 DEF M!First, M!Group
<1>5. /\ k \in M!Complete' /\ M!Whole(mrec'[k])
      /\ mrec'[k].skill = mrec[k].skill /\ mrec'[k].content = mrec[k].content
  BY <1>1, <1>3, <1>4 DEF RecordsStay
<1>6. k \in M!Used /\ mrec[k].skill = mrec[i].skill /\ mrec[k].content = mrec[i].content
  BY <1>4 DEF M!Complete, M!Signature
<1> QED
  BY <1>5, <1>6

\* What a cycle leaves for review is kept: the metadata of a record marks it finished,
\* every listed deletion has its record, the conflict index lists whole packages of one
\* reading, and removal never takes the last whole record of a deletion, after any
\* number of builds, retention runs, failures and crashes.
THEOREM MaterialIsKeptEver == ServiceSpec => MaterialIsKept
<1>1. M!MaterialInv => M!MetadataIsLast /\ M!IndexedIsWhole
  BY DEF M!MaterialInv
<1>2. M!MaterialInv => M!PackagesAreCurrent
  BY DEF M!MaterialInv, M!MaterialTypeOK, M!PackagesInOrder, M!PackagesAreCurrent
<1>3. M!MaterialInv /\ [M!Next]_mvars =>
        [\A i \in M!Used : M!Whole(mrec[i]) /\ mjob.step = "prune" =>
            \E k \in M!Used : /\ M!Whole(mrec'[k])
                              /\ mrec'[k].skill = mrec[i].skill
                              /\ mrec'[k].content = mrec[i].content]_mvars
  BY PruningKeepsOne
<1>4. M!OneWholeStays <=>
        [][\A i \in M!Used : M!Whole(mrec[i]) /\ mjob.step = "prune" =>
            \E k \in M!Used : /\ M!Whole(mrec'[k])
                              /\ mrec'[k].skill = mrec[i].skill
                              /\ mrec'[k].content = mrec[i].content]_mvars
  BY DEF M!OneWholeStays, M!vars, mvars
<1>5. M!Spec => [][M!Next]_mvars
  BY DEF M!Spec, M!vars, mvars
<1> QED
  BY <1>1, <1>2, <1>3, <1>4, <1>5, MaterialInvariance, PTL DEF ServiceSpec, MaterialIsKept

-----------------------------------------------------------------------------
(* The review console *)

\* A skill whose status blocks nothing is at a version of the base or of central.
LEMMA UnblockedIsKnown ==
    ASSUME NEW b, NEW l, NEW c,
           C!Classify(b, l, c, FALSE) \notin
              {"push", "local_new", "conflict", "local_deleted", "remote_deleted"}
    PROVE  l \in {Absent, b, c}
BY DEF C!Classify, C!ClassifyWithoutBase, C!ClassifyWithBase

LEMMA ReportIsTyped ==
    ASSUME C!ConsoleTypeOK, NEW remote \in C!Hashes
    PROVE  /\ C!Plan(remote) \in [Skills -> C!Item] /\ C!KindsOf(remote) \in C!Queue
           /\ \A s \in Skills : C!Plan(remote)[s].local = csource[s]
           /\ \A s \in Skills : C!KindsOf(remote)[s] = "none" =>
                 csource[s] \in {Absent, cbase[s], remote[s]}
<1>1. \A s \in Skills : /\ cbase[s] \in C!Content /\ csource[s] \in C!Content
                        /\ remote[s] \in C!Content
  BY DEF C!ConsoleTypeOK, C!Hashes
<1>2. \A s \in Skills : C!ItemOf(s, csource, remote) \in C!Item
  BY <1>1 DEF C!ItemOf, C!Item, C!Kinds
<1>3. \A s \in Skills : /\ C!ItemOf(s, csource, remote).local = csource[s]
                        /\ C!ItemOf(s, csource, remote).kind \in C!Kinds
  BY DEF C!ItemOf, C!Kinds
<1>4. ASSUME NEW s \in Skills, C!ItemOf(s, csource, remote).kind = "none"
      PROVE  csource[s] \in {Absent, cbase[s], remote[s]}
  <2>1. C!Classify(cbase[s], csource[s], remote[s], FALSE) \notin
              {"push", "local_new", "conflict", "local_deleted", "remote_deleted"}
    BY <1>4 DEF C!ItemOf
  <2> QED
    BY <2>1, UnblockedIsKnown
<1>5. \A s \in Skills : C!Plan(remote)[s] = C!ItemOf(s, csource, remote)
  BY DEF C!Plan
<1>6. \A s \in Skills : C!KindsOf(remote)[s] = C!ItemOf(s, csource, remote).kind
  BY <1>5 DEF C!KindsOf
<1>7. C!Plan(remote) \in [Skills -> C!Item]
  BY <1>2 DEF C!Plan
<1>8. C!KindsOf(remote) \in C!Queue
  BY <1>3, <1>5 DEF C!KindsOf, C!Queue
<1> QED
  BY <1>3, <1>4, <1>5, <1>6, <1>7, <1>8

LEMMA ConsoleStart ==
    /\ C!NoJob \in C!Job /\ C!NoJob.step = "idle" /\ ~ C!NoJob.orphan
    /\ C!Nobody \in C!Hashes
    /\ \A shown \in C!Queue, said \in {"nothing", "failed", "unchanged", "pending", "done"} :
          /\ C!NoFlow(shown, said) \in C!Tab /\ C!NoFlow(shown, said).step = "idle"
          /\ C!NoFlow(shown, said).said = said
<1>1. C!Nobody \in C!Hashes
  BY DEF C!Nobody, C!Hashes, C!Content
<1>2. 0 \in 0..Attempts
  BY ConsoleAssumption
<1>3. ASSUME NEW shown \in C!Queue,
             NEW said \in {"nothing", "failed", "unchanged", "pending", "done"}
      PROVE  /\ C!NoFlow(shown, said) \in C!Tab /\ C!NoFlow(shown, said).step = "idle"
             /\ C!NoFlow(shown, said).said = said
  BY <1>1, <1>2 DEF C!NoFlow, C!Tab, C!Flows
<1>4. C!NoJob \in C!Job
  BY <1>1 DEF C!NoJob, C!Job, C!Flows
<1>5. C!NoJob.step = "idle" /\ ~ C!NoJob.orphan
  BY DEF C!NoJob
<1> QED
  BY <1>1, <1>3, <1>4, <1>5

Requested(flow, ids, dry) ==
    [C!NoJob EXCEPT !.step = C!FirstStep(flow), !.flow = flow, !.dry = dry, !.ids = ids]

LEMMA RequestIsTyped ==
    ASSUME NEW flow \in C!Flows, NEW ids \in SUBSET Skills, NEW dry \in BOOLEAN
    PROVE  /\ Requested(flow, ids, dry) \in C!Job
           /\ Requested(flow, ids, dry).step \in {"stage", "report"}
           /\ Requested(flow, ids, dry).flow = flow
           /\ Requested(flow, ids, dry).dry = dry
           /\ Requested(flow, ids, dry).ids = ids
           /\ Requested(flow, ids, dry).orphan = C!NoJob.orphan
<1> DEFINE made == Requested(flow, ids, dry)
<1> DEFINE first == C!FirstStep(flow)
<1>1. first \in {"stage", "report"} /\ C!NoJob \in C!Job
  BY ConsoleStart DEF C!FirstStep
<1>2. first \in {"idle", "report", "filter", "check", "verify", "merge", "put",
                 "record", "stage", "apply", "tell"}
  BY <1>1
<1>3. made = [C!NoJob EXCEPT !.step = first, !.flow = flow, !.dry = dry, !.ids = ids]
  BY Zenon DEF Requested
<1> HIDE DEF first
<1>4. made \in C!Job
  BY <1>1, <1>2, <1>3, Zenon DEF C!Job
<1>5. /\ made.step = first /\ made.flow = flow /\ made.ids = ids
      /\ made.orphan = C!NoJob.orphan
  BY <1>1, <1>3, Zenon DEF C!Job
<1>6. made.dry = dry
  BY <1>3, Zenon DEF C!NoJob
<1> QED
  BY <1>1, <1>4, <1>5, <1>6, Zenon

\* What changes on the device is held against the scripts at work there.
LEMMA ScriptsAreMoved ==
    ASSUME NEW jobs \in [Tabs -> C!Job], C!Moved(jobs)
    PROVE  /\ cjob' \in [Tabs -> C!Job]
           /\ \A u \in Tabs :
                 /\ cjob'[u].step = jobs[u].step /\ cjob'[u].flow = jobs[u].flow
                 /\ cjob'[u].dry = jobs[u].dry /\ cjob'[u].ids = jobs[u].ids
                 /\ cjob'[u].hash = jobs[u].hash /\ cjob'[u].orphan = jobs[u].orphan
                 /\ jobs[u].step = "idle" => cjob'[u] = jobs[u]
                 /\ jobs[u].late \subseteq cjob'[u].late
                 /\ jobs[u].step # "idle" =>
                       \A s \in Skills \ cjob'[u].late : csource'[s] = csource[s]
<1> DEFINE moved == {s \in Skills : csource'[s] # csource[s]}
<1>1. cjob' = [t \in Tabs |-> IF jobs[t].step = "idle" THEN jobs[t]
                ELSE [jobs[t] EXCEPT !.late = @ \cup moved]]
  BY DEF C!Moved
<1>2. moved \subseteq Skills /\ \A s \in Skills \ moved : csource'[s] = csource[s]
  OBVIOUS
<1> HIDE DEF moved
<1>3. ASSUME NEW u \in Tabs, jobs[u].step # "idle"
      PROVE  /\ cjob'[u] \in C!Job
             /\ cjob'[u].step = jobs[u].step /\ cjob'[u].flow = jobs[u].flow
             /\ cjob'[u].dry = jobs[u].dry /\ cjob'[u].ids = jobs[u].ids
             /\ cjob'[u].hash = jobs[u].hash /\ cjob'[u].orphan = jobs[u].orphan
             /\ cjob'[u].late = jobs[u].late \cup moved
  <2>1. jobs[u] \in C!Job
    OBVIOUS
  <2>2. cjob'[u] = [jobs[u] EXCEPT !.late = @ \cup moved]
    BY <1>1, <1>3
  <2>3. jobs[u].late \cup moved \in SUBSET Skills
    BY <1>2, <2>1 DEF C!Job
  <2> QED
    BY <2>1, <2>2, <2>3, Zenon DEF C!Job
<1>4. ASSUME NEW u \in Tabs, jobs[u].step = "idle"
      PROVE  cjob'[u] \in C!Job /\ cjob'[u] = jobs[u]
  BY <1>1, <1>4
<1>5. cjob' \in [Tabs -> C!Job]
  BY <1>1, <1>3, <1>4
<1> QED
  BY <1>2, <1>3, <1>4, <1>5

\* What holds of one tab and of its script.
TabOK(t) ==
    /\ cjob[t].step = "idle" =>
          cjob[t] = C!NoJob /\ ctab[t].step \notin {"checking", "writing"}
    /\ cjob[t].step # "idle" /\ ~ cjob[t].orphan =>
          /\ ctab[t].step = IF cjob[t].dry THEN "checking" ELSE "writing"
          /\ cjob[t].flow = ctab[t].flow
    /\ cjob[t].orphan => ctab[t].step = "idle"
    /\ cjob[t].dry => cjob[t].step \in {"idle", "report", "filter", "check", "stage"}
    /\ ctab[t].said = "done" => ctab[t].step = "idle"
    /\ cjob[t].step = "filter" =>
          \A s \in Skills \ cjob[t].late : cfile[s].local = csource[s]
    /\ cjob[t].flow = "save" /\ ~ cjob[t].dry /\ ~ cjob[t].orphan =>
          \A s \in cjob[t].ids \ cjob[t].late :
              /\ cjob[t].step \in {"check", "verify", "merge"} => csource[s] = ctab[t].preview[s]
              /\ cjob[t].step = "put" => cjob[t].hash[s] = ctab[t].preview[s]
    /\ cjob[t].step = "record" => \A s \in Skills : cjob[t].hash[s] \in cknown[s]
    /\ ctab[t].said = "done" /\ ~ ctab[t].lost => ctab[t].ids \subseteq ctab[t].safe

\* What holds of the world: the histories keep what central held.
WorldOK ==
    /\ {csource, cbase, ccache, ccentral} \subseteq C!Hashes
    /\ cfile \in [Skills -> C!Item] /\ cpeer \in C!Queue
    /\ cknown \in [Skills -> SUBSET C!Content] /\ ctold \subseteq Skills
    /\ ccounts \in [flows: Nat, edits: Nat, pushes: Nat, failures: Nat]
    /\ \A s \in Skills : {Absent, cbase[s], ccentral[s]} \subseteq cknown[s]
    /\ \A s \in Skills : cpeer[s] = "none" => s \in ctold

TabsTyped == ctab \in [Tabs -> C!Tab] /\ cjob \in [Tabs -> C!Job]

LEMMA ConsoleParts ==
    C!ConsoleInv <=> WorldOK /\ TabsTyped /\ \A t \in Tabs : TabOK(t)
<1>1. C!ConsoleInv => WorldOK /\ TabsTyped
  BY DEF C!ConsoleInv, C!ConsoleTypeOK, C!KnownIsKept, WorldOK, TabsTyped
<1>2. C!ConsoleInv => \A t \in Tabs : TabOK(t)
  BY DEF C!ConsoleInv, C!ConsoleTypeOK, C!TabsWait, C!AsReported, C!KnownIsKept,
     C!DoneMeansShared, TabOK
<1>3. WorldOK /\ TabsTyped /\ (\A t \in Tabs : TabOK(t)) => C!ConsoleTypeOK /\ C!KnownIsKept
  BY DEF C!ConsoleTypeOK, C!KnownIsKept, WorldOK, TabsTyped, TabOK
<1>4. (\A t \in Tabs : TabOK(t)) => C!TabsWait /\ C!AsReported /\ C!DoneMeansShared
  BY DEF C!TabsWait, C!AsReported, C!DoneMeansShared, TabOK
<1> QED
  BY <1>1, <1>2, <1>3, <1>4 DEF C!ConsoleInv

\* A script that is not the one at work: only what changed on the device is noted.
ScriptStays(u) ==
    /\ cjob'[u].step = cjob[u].step /\ cjob'[u].flow = cjob[u].flow
    /\ cjob'[u].dry = cjob[u].dry /\ cjob'[u].ids = cjob[u].ids
    /\ cjob'[u].hash = cjob[u].hash /\ cjob'[u].orphan = cjob[u].orphan
    /\ cjob[u].step = "idle" => cjob'[u] = cjob[u]
    /\ cjob[u].late \subseteq cjob'[u].late
    /\ cjob[u].step # "idle" => \A s \in Skills \ cjob'[u].late : csource'[s] = csource[s]

ReportStays ==
    /\ cfile' = cfile \/ \A s \in Skills : cfile'[s].local = csource[s]
    /\ \A s \in Skills : cknown[s] \subseteq cknown'[s]

LEMMA OthersAreLeft ==
    ASSUME NEW u \in Tabs, TabOK(u), TabsTyped, ctab'[u] = ctab[u], ScriptStays(u), ReportStays
    PROVE  TabOK(u)'
<1>1. cjob[u] \in C!Job
  BY DEF TabsTyped
<1>2. cjob[u].ids \subseteq Skills
  BY <1>1 DEF C!Job
<1>3. /\ cjob'[u].step = "idle" =>
            cjob'[u] = C!NoJob /\ ctab'[u].step \notin {"checking", "writing"}
      /\ cjob'[u].step # "idle" /\ ~ cjob'[u].orphan =>
            /\ ctab'[u].step = IF cjob'[u].dry THEN "checking" ELSE "writing"
            /\ cjob'[u].flow = ctab'[u].flow
      /\ cjob'[u].orphan => ctab'[u].step = "idle"
      /\ cjob'[u].dry => cjob'[u].step \in {"idle", "report", "filter", "check", "stage"}
      /\ ctab'[u].said = "done" => ctab'[u].step = "idle"
  BY DEF TabOK, ScriptStays
<1>4. cjob'[u].step = "filter" =>
         \A s \in Skills \ cjob'[u].late : cfile'[s].local = csource'[s]
  BY DEF TabOK, ScriptStays, ReportStays
<1>5. cjob'[u].flow = "save" /\ ~ cjob'[u].dry /\ ~ cjob'[u].orphan =>
          \A s \in cjob'[u].ids \ cjob'[u].late :
              /\ cjob'[u].step \in {"check", "verify", "merge"} => csource'[s] = ctab'[u].preview[s]
              /\ cjob'[u].step = "put" => cjob'[u].hash[s] = ctab'[u].preview[s]
  BY <1>2 DEF TabOK, ScriptStays
<1>6. cjob'[u].step = "record" => \A s \in Skills : cjob'[u].hash[s] \in cknown'[s]
  BY DEF TabOK, ScriptStays, ReportStays
<1>7. ctab'[u].said = "done" /\ ~ ctab'[u].lost => ctab'[u].ids \subseteq ctab'[u].safe
  BY DEF TabOK
<1> QED
  BY <1>3, <1>4, <1>5, <1>6, <1>7 DEF TabOK

LEMMA ScriptUnmoved ==
    ASSUME NEW u \in Tabs, cjob'[u] = cjob[u], UNCHANGED csource
    PROVE  ScriptStays(u)
BY DEF ScriptStays

\* The other tabs and their scripts.
Alone(t) == \A u \in Tabs \ {t} : ctab'[u] = ctab[u] /\ cjob'[u] = cjob[u]

\* A script ends, and answers if somebody waits for it.
LEMMA ScriptEnds ==
    ASSUME TabsTyped, NEW t \in Tabs, TabOK(t), NEW X \in C!Tab,
           X.step \in {"idle", "confirming", "asking"}, X.said # "done",
           C!Answered(t, [ctab EXCEPT ![t] = X])
    PROVE  TabsTyped' /\ Alone(t) /\ TabOK(t)'
<1>1. /\ ctab \in [Tabs -> C!Tab] /\ cjob \in [Tabs -> C!Job]
      /\ cjob' = [cjob EXCEPT ![t] = C!NoJob]
      /\ ctab' = IF cjob[t].orphan THEN ctab ELSE [ctab EXCEPT ![t] = X]
  BY DEF TabsTyped, C!Answered
<1>2. /\ TabsTyped' /\ Alone(t) /\ cjob'[t] = C!NoJob
      /\ ctab'[t] = X \/ (ctab'[t] = ctab[t] /\ cjob[t].orphan)
  BY <1>1, ConsoleStart DEF TabsTyped, Alone
<1>3. /\ C!NoJob.step = "idle" /\ ~ C!NoJob.orphan
  BY ConsoleStart
<1>4. CASE ctab'[t] = X
  BY <1>2, <1>3, <1>4 DEF TabOK
<1>5. CASE ctab'[t] = ctab[t] /\ cjob[t].orphan
  BY <1>2, <1>3, <1>5 DEF TabOK
<1> QED
  BY <1>2, <1>4, <1>5

\* A script goes on to its next step.
LEMMA ScriptGoes ==
    ASSUME TabsTyped, NEW t \in Tabs, TabOK(t), NEW Y \in C!Job, cjob[t].step # "idle",
           Y.step # "idle", Y.flow = cjob[t].flow, Y.dry = cjob[t].dry,
           Y.orphan = cjob[t].orphan,
           \/ Y.step \in {"filter", "check"} \/ ~ cjob[t].dry
           \/ cjob[t].step \in {"verify", "merge", "put", "record", "apply"},
           cjob' = [cjob EXCEPT ![t] = Y], UNCHANGED <<ctab, csource>>,
           Y.step = "filter" => \A s \in Skills : cfile'[s].local = csource[s],
           (Y.flow = "save" /\ ~ Y.dry /\ ~ Y.orphan) =>
              \A s \in Y.ids \ Y.late :
                 /\ Y.step \in {"check", "verify", "merge"} => csource[s] = ctab[t].preview[s]
                 /\ Y.step = "put" => Y.hash[s] = ctab[t].preview[s],
           Y.step = "record" => \A s \in Skills : Y.hash[s] \in cknown'[s]
    PROVE  TabsTyped' /\ Alone(t) /\ TabOK(t)'
<1>1. TabsTyped' /\ Alone(t) /\ cjob'[t] = Y /\ ctab' = ctab
  BY DEF TabsTyped, Alone
<1>2. /\ Y.step # "idle" /\ ~ Y.orphan =>
            /\ ctab[t].step = IF Y.dry THEN "checking" ELSE "writing"
            /\ Y.flow = ctab[t].flow
      /\ Y.orphan => ctab[t].step = "idle"
      /\ Y.dry => Y.step \in {"idle", "report", "filter", "check", "stage"}
      /\ ctab[t].said = "done" => ctab[t].step = "idle"
      /\ ctab[t].said = "done" /\ ~ ctab[t].lost => ctab[t].ids \subseteq ctab[t].safe
  BY DEF TabOK
<1>3. Y.step = "filter" => \A s \in Skills \ Y.late : cfile'[s].local = csource'[s]
  OBVIOUS
<1>4. Y.flow = "save" /\ ~ Y.dry /\ ~ Y.orphan =>
          \A s \in Y.ids \ Y.late :
             /\ Y.step \in {"check", "verify", "merge"} => csource'[s] = ctab[t].preview[s]
             /\ Y.step = "put" => Y.hash[s] = ctab[t].preview[s]
  OBVIOUS
<1> QED
  BY <1>1, <1>2, <1>3, <1>4 DEF TabOK

\* The operator or the page does something while no script is waited for.
LEMMA TabGoes ==
    ASSUME TabsTyped, NEW t \in Tabs, TabOK(t), NEW X \in C!Tab,
           ctab[t].step \in {"idle", "confirming", "asking", "reading"},
           ctab' = [ctab EXCEPT ![t] = X], UNCHANGED <<cjob, csource, cfile, cknown>>,
           X.step \notin {"checking", "writing"},
           ctab[t].step = "idle" => X.step = "idle",
           X.said = "done" => X.step = "idle",
           (X.said = "done" /\ ~ X.lost) => X.ids \subseteq X.safe
    PROVE  TabsTyped' /\ Alone(t) /\ TabOK(t)'
<1>1. TabsTyped' /\ Alone(t) /\ ctab'[t] = X /\ cjob' = cjob
  BY DEF TabsTyped, Alone
<1>2. cjob[t].step = "idle" \/ cjob[t].orphan
  <2>1. cjob[t].dry \in BOOLEAN
    BY DEF TabsTyped, C!Job
  <2> QED
    BY <2>1 DEF TabOK
<1>3. CASE cjob[t].step = "idle"
  <2>1. cjob[t] = C!NoJob /\ C!NoJob.step = "idle" /\ ~ C!NoJob.orphan
    BY <1>3, ConsoleStart DEF TabOK
  <2> QED
    BY <1>1, <2>1 DEF TabOK
<1>4. CASE cjob[t].step # "idle" /\ cjob[t].orphan
  <2>1. X.step = "idle"
    BY <1>4 DEF TabOK
  <2> QED
    BY <1>1, <1>4, <2>1 DEF TabOK
<1> QED
  BY <1>2, <1>3, <1>4

\* A tab has a script started.
LEMMA ScriptStarts ==
    ASSUME NEW t \in Tabs, NEW dry \in BOOLEAN, NEW flow \in C!Flows, NEW ids \in SUBSET Skills,
           C!Request(t, flow, ids, dry)
    PROVE  \E Y \in C!Job :
              /\ cjob' = [cjob EXCEPT ![t] = Y] /\ Y.step \in {"stage", "report"}
              /\ Y.flow = flow /\ Y.dry = dry /\ ~ Y.orphan
<1> DEFINE Y == Requested(flow, ids, dry)
<1>1. cjob' = [cjob EXCEPT ![t] = Y]
  BY Zenon DEF C!Request, Requested
<1>2. Y \in C!Job /\ Y.step \in {"stage", "report"} /\ Y.flow = flow
  BY RequestIsTyped
<1>3. Y.dry = dry
  BY RequestIsTyped
<1>4. ~ Y.orphan
  BY RequestIsTyped, ConsoleStart
<1> HIDE DEF Y
<1> QED
  BY <1>1, <1>2, <1>3, <1>4, Zenon

LEMMA TabRequests ==
    ASSUME TabsTyped, NEW t \in Tabs, NEW X \in C!Tab, NEW Y \in C!Job,
           ctab' = [ctab EXCEPT ![t] = X], cjob' = [cjob EXCEPT ![t] = Y],
           Y.step \in {"stage", "report"}, ~ Y.orphan,
           X.step = IF Y.dry THEN "checking" ELSE "writing", X.flow = Y.flow, X.said # "done"
    PROVE  TabsTyped' /\ Alone(t) /\ TabOK(t)'
<1>1. TabsTyped' /\ Alone(t) /\ cjob'[t] = Y /\ ctab'[t] = X
  BY DEF TabsTyped, Alone
<1> QED
  BY <1>1 DEF TabOK

\* The steps of the world leave tabs and scripts as they are.
LEMMA WorldGoes ==
    ASSUME C!ConsoleInv,
           \/ \E s \in Skills, v \in ConsoleVersions : C!Edit(s, v) \/ C!OthersPush(s, v)
           \/ C!DaemonCycle
    PROVE  TabsTyped' /\ \A t \in Tabs : TabOK(t)'
<1>1. WorldOK /\ TabsTyped /\ (\A t \in Tabs : TabOK(t)) /\ C!ConsoleTypeOK
  BY ConsoleParts DEF C!ConsoleInv
<1>2. ctab' = ctab /\ (C!Moved(cjob) \/ (cjob' = cjob /\ csource' = csource))
  BY DEF C!Edit, C!OthersPush, C!DaemonCycle
<1>3. ReportStays
  <2>1. \A s \in Skills, v \in ConsoleVersions : C!Edit(s, v) => ReportStays
    BY DEF C!Edit, ReportStays
  <2>2. \A s \in Skills, v \in ConsoleVersions : C!OthersPush(s, v) => ReportStays
    BY DEF C!OthersPush, C!Known, ReportStays
  <2>3. C!DaemonCycle => ReportStays
    <3>1. ccentral \in C!Hashes
      BY <1>1 DEF WorldOK
    <3> QED
      BY <1>1, <3>1, ReportIsTyped DEF C!DaemonCycle, ReportStays
  <2> QED
    BY <2>1, <2>2, <2>3
<1>4. cjob' \in [Tabs -> C!Job] /\ \A u \in Tabs : ScriptStays(u)
  <2>1. CASE C!Moved(cjob)
    BY <1>1, <2>1, ScriptsAreMoved DEF TabsTyped, ScriptStays
  <2>2. CASE cjob' = cjob /\ csource' = csource
    BY <1>1, <2>2, ScriptUnmoved DEF TabsTyped
  <2> QED
    BY <1>2, <2>1, <2>2
<1>5. ASSUME NEW t \in Tabs PROVE TabOK(t)'
  BY <1>1, <1>2, <1>3, <1>4, OthersAreLeft
<1> QED
  BY <1>1, <1>2, <1>4, <1>5 DEF TabsTyped

\* What the operator and the page do.
PageActs(t) ==
    \/ C!Look(t) \/ C!Cancel(t) \/ C!Confirm(t) \/ C!AskAgain(t) \/ C!ReadAgain(t)
    \/ \E flow \in C!Flows : \E ids \in C!Choices(t, flow) : C!Check(t, flow, ids)

LEMMA TabIsTyped ==
    ASSUME TabsTyped, NEW t \in Tabs
    PROVE  /\ ctab[t] \in C!Tab /\ cjob[t] \in C!Job
           /\ ctab[t].shown \in C!Queue /\ ctab[t].flow \in C!Flows /\ ctab[t].ids \subseteq Skills
           /\ ctab[t].preview \in C!Hashes /\ ctab[t].attempt \in 0..Attempts
           /\ ctab[t].lost \in BOOLEAN /\ ctab[t].safe \subseteq Skills
           /\ cjob[t].flow \in C!Flows /\ cjob[t].dry \in BOOLEAN /\ cjob[t].orphan \in BOOLEAN
           /\ cjob[t].ids \subseteq Skills /\ cjob[t].late \subseteq Skills
           /\ cjob[t].hash \in C!Hashes
<1>1. ctab[t] \in C!Tab /\ cjob[t] \in C!Job
  BY DEF TabsTyped
<1> QED
  BY <1>1 DEF C!Tab, C!Job

\* What the page shows after a look.
LEMMA LookedTyped ==
    ASSUME C!ConsoleInv, NEW t \in Tabs, NEW shown \in C!Queue, NEW lost \in BOOLEAN,
           shown = cpeer \/ lost, C!Looked(t, shown, lost)
    PROVE  \E X \in C!Tab :
              /\ ctab' = [ctab EXCEPT ![t] = X]
              /\ X.step \in {"idle", "asking"}
              /\ X.said = "done" => X.step = "idle" \/ ctab[t].said = "done"
              /\ X.said = "done" /\ ~ X.lost => X.ids \subseteq X.safe \/ ctab[t].said = "done"
<1>1. /\ TabsTyped /\ WorldOK
      /\ ctab[t] \in C!Tab /\ ctab[t].attempt \in 0..Attempts /\ ctab[t].lost \in BOOLEAN
      /\ ctold \subseteq Skills
  BY ConsoleParts, TabIsTyped DEF WorldOK
<1> DEFINE missed == ctab[t].lost \/ lost
           here == [ctab[t] EXCEPT !.shown = shown, !.lost = missed, !.safe = ctold]
           done == \A s \in here.ids : shown[s] = "none"
           next == here.attempt + 1
           X == IF done THEN [here EXCEPT !.step = "idle", !.said = "done"]
                ELSE IF here.attempt = Attempts
                     THEN [here EXCEPT !.step = "idle", !.said = "pending"]
                ELSE [here EXCEPT !.step = "asking", !.attempt = next]
<1>2. ctab' = [ctab EXCEPT ![t] = X]
  BY DEF C!Looked
<1>3. missed \in BOOLEAN /\ (~ missed => ~ lost)
  OBVIOUS
<1> HIDE DEF missed
<1>4. /\ here \in C!Tab /\ here.lost = missed /\ here.safe = ctold
      /\ here.ids = ctab[t].ids /\ here.attempt = ctab[t].attempt /\ here.said = ctab[t].said
  BY <1>1, <1>3, Zenon DEF C!Tab
<1> HIDE DEF here
<1>5. CASE done
  <2>1. /\ X \in C!Tab /\ X.step = "idle" /\ X.said = "done" /\ X.lost = here.lost
        /\ X.ids = here.ids /\ X.safe = here.safe
    BY <1>4, <1>5, Zenon DEF C!Tab
  <2>2. ~ X.lost => X.ids \subseteq X.safe
    <3>1. ASSUME ~ missed PROVE shown = cpeer
      BY <1>3, <3>1
    <3>2. ASSUME shown = cpeer PROVE \A s \in ctab[t].ids : s \in ctold
      BY <1>1, <1>4, <1>5, <3>2, TabIsTyped DEF WorldOK
    <3> QED
      BY <1>4, <2>1, <3>1, <3>2
  <2> QED
    BY <1>2, <2>1, <2>2
<1>6. CASE ~ done /\ here.attempt = Attempts
  <2>1. /\ X \in C!Tab /\ X.step = "idle" /\ X.said = "pending"
    BY <1>4, <1>6, Zenon DEF C!Tab
  <2> QED
    BY <1>2, <2>1
<1>7. CASE ~ done /\ here.attempt # Attempts
  <2>1. next \in 0..Attempts
    BY <1>1, <1>4, <1>7, ConsoleAssumption
  <2> HIDE DEF next
  <2>2. /\ X \in C!Tab /\ X.step = "asking" /\ X.said = ctab[t].said
    BY <1>4, <1>7, <2>1, Zenon DEF C!Tab
  <2> QED
    BY <1>2, <2>2
<1> QED
  BY <1>5, <1>6, <1>7

\* What a step of one tab or of its script leaves in order there.
Fine(t) == TabsTyped' /\ Alone(t) /\ TabOK(t)'

LEMMA PageGoes ==
    ASSUME C!ConsoleInv, NEW t \in Tabs, PageActs(t)
    PROVE  Fine(t)
<1>1. /\ WorldOK /\ TabsTyped /\ TabOK(t) /\ C!ConsoleTypeOK
      /\ ctab[t] \in C!Tab /\ ctab[t].shown \in C!Queue
      /\ ctab[t].ids \subseteq Skills /\ ctab[t].flow \in C!Flows
      /\ ctab[t].preview \in C!Hashes
  BY ConsoleParts, TabIsTyped DEF C!ConsoleInv
<1>2. CASE C!Look(t)
  <2> DEFINE X == [ctab[t] EXCEPT !.shown = cpeer]
  <2>1. cpeer \in C!Queue
    BY <1>1 DEF WorldOK
  <2>2. /\ X \in C!Tab /\ X.step = ctab[t].step /\ X.said = ctab[t].said
        /\ X.ids = ctab[t].ids /\ X.safe = ctab[t].safe /\ X.lost = ctab[t].lost
    BY <1>1, <2>1, Zenon DEF C!Tab
  <2>3. /\ ctab' = [ctab EXCEPT ![t] = X] /\ UNCHANGED <<cjob, csource, cfile, cknown>>
        /\ ctab[t].step = "idle"
    BY <1>2 DEF C!Look
  <2> HIDE DEF X
  <2>4. X.said = "done" /\ ~ X.lost => X.ids \subseteq X.safe
    BY <1>1, <2>2 DEF TabOK
  <2> QED
    BY <1>1, <2>2, <2>3, <2>4, TabGoes DEF Fine
<1>3. CASE C!Cancel(t)
  <2> DEFINE X == C!NoFlow(ctab[t].shown, "unchanged")
  <2>1. X \in C!Tab /\ X.step = "idle" /\ X.said = "unchanged"
    BY <1>1, ConsoleStart
  <2>2. /\ ctab' = [ctab EXCEPT ![t] = X] /\ UNCHANGED <<cjob, csource, cfile, cknown>>
        /\ ctab[t].step = "confirming"
    BY <1>3 DEF C!Cancel
  <2> HIDE DEF X
  <2> QED
    BY <1>1, <2>1, <2>2, TabGoes DEF Fine
<1>4. CASE C!Confirm(t)
  <2> DEFINE X == [ctab[t] EXCEPT !.step = "writing"]
             no == FALSE
  <2>1. X \in C!Tab /\ X.step = "writing" /\ X.said = ctab[t].said /\ X.flow = ctab[t].flow
    BY <1>1, Zenon DEF C!Tab
  <2>2. /\ ctab' = [ctab EXCEPT ![t] = X] /\ C!Request(t, ctab[t].flow, ctab[t].ids, no)
        /\ ctab[t].step = "confirming" /\ no \in BOOLEAN /\ ~ no
    BY <1>4 DEF C!Confirm
  <2> HIDE DEF X, no
  <2>3. ctab[t].said # "done"
    BY <1>1, <2>2 DEF TabOK
  <2>6. PICK flow \in C!Flows, ids \in SUBSET Skills : flow = ctab[t].flow /\ ids = ctab[t].ids
    BY <1>1
  <2>7. C!Request(t, flow, ids, no)
    BY <2>2, <2>6, Zenon
  <2>8. no \in BOOLEAN
    BY <2>2, Zenon
  <2>4. PICK Y \in C!Job : /\ cjob' = [cjob EXCEPT ![t] = Y] /\ Y.step \in {"stage", "report"}
                           /\ Y.flow = flow /\ Y.dry = no /\ ~ Y.orphan
    <3>1. flow \in C!Flows /\ ids \in SUBSET Skills
      BY <2>6
    <3> QED
      BY <2>7, <2>8, <3>1, ScriptStarts
  <2>5. X.step = IF Y.dry THEN "checking" ELSE "writing"
    BY <2>1, <2>2, <2>4, Zenon
  <2> QED
    BY <1>1, <2>1, <2>2, <2>3, <2>4, <2>5, <2>6, TabRequests DEF Fine
<1>5. CASE C!AskAgain(t)
  <2> DEFINE yes == TRUE
  <2>1. /\ ctab[t].step = "asking" /\ UNCHANGED <<cjob, csource, cfile, cknown>>
        /\ \/ ctab' = [ctab EXCEPT ![t] = [@ EXCEPT !.step = "reading"]]
           \/ ctab' = [ctab EXCEPT ![t] = [@ EXCEPT !.step = "reading", !.lost = yes]]
    BY <1>5 DEF C!AskAgain
  <2>2. ctab \in [Tabs -> C!Tab] /\ ctab[t].said # "done" /\ yes \in BOOLEAN
    BY <1>1, <2>1 DEF TabOK, TabsTyped
  <2> HIDE DEF yes
  <2>3. PICK X \in C!Tab : /\ ctab' = [ctab EXCEPT ![t] = X]
                           /\ X.step = "reading" /\ X.said = ctab[t].said
    <3>1. CASE ctab' = [ctab EXCEPT ![t] = [@ EXCEPT !.step = "reading"]]
      <4> DEFINE Z == [ctab[t] EXCEPT !.step = "reading"]
      <4>1. Z \in C!Tab /\ Z.step = "reading" /\ Z.said = ctab[t].said
        BY <1>1, Zenon DEF C!Tab
      <4>2. ctab' = [ctab EXCEPT ![t] = Z]
        BY <2>2, <3>1
      <4> HIDE DEF Z
      <4> QED
        BY <4>1, <4>2
    <3>2. CASE ctab' = [ctab EXCEPT ![t] = [@ EXCEPT !.step = "reading", !.lost = yes]]
      <4> DEFINE Z == [ctab[t] EXCEPT !.step = "reading", !.lost = yes]
      <4>1. Z \in C!Tab /\ Z.step = "reading" /\ Z.said = ctab[t].said
        BY <1>1, <2>2, Zenon DEF C!Tab
      <4>2. ctab' = [ctab EXCEPT ![t] = Z]
        BY <2>2, <3>2, Zenon
      <4> HIDE DEF Z
      <4> QED
        BY <4>1, <4>2
    <3> QED
      BY <2>1, <3>1, <3>2
  <2> QED
    BY <1>1, <2>1, <2>2, <2>3, TabGoes DEF Fine
<1>6. CASE C!ReadAgain(t)
  <2> DEFINE none == [s \in Skills |-> "none"]
  <2>1. cpeer \in C!Queue /\ none \in C!Queue
    BY <1>1 DEF WorldOK, C!Queue, C!Kinds
  <2>2. /\ ctab[t].step = "reading" /\ UNCHANGED <<cjob, csource, cfile, cknown>>
        /\ \/ C!Looked(t, cpeer, FALSE) \/ C!Looked(t, none, TRUE)
           \/ C!Looked(t, ctab[t].shown, TRUE)
    BY <1>6 DEF C!ReadAgain
  <2>3. ctab[t].said # "done"
    BY <1>1, <2>2 DEF TabOK
  <2>4. PICK X \in C!Tab :
           /\ ctab' = [ctab EXCEPT ![t] = X] /\ X.step \in {"idle", "asking"}
           /\ X.said = "done" => X.step = "idle" \/ ctab[t].said = "done"
           /\ X.said = "done" /\ ~ X.lost => X.ids \subseteq X.safe \/ ctab[t].said = "done"
    <3>1. CASE C!Looked(t, cpeer, FALSE)
      BY <2>1, <3>1, LookedTyped
    <3>2. CASE C!Looked(t, none, TRUE)
      BY <2>1, <3>2, LookedTyped
    <3>3. CASE C!Looked(t, ctab[t].shown, TRUE)
      BY <1>1, <3>3, LookedTyped
    <3> QED
      BY <2>2, <3>1, <3>2, <3>3
  <2> QED
    BY <1>1, <2>2, <2>3, <2>4, TabGoes DEF Fine
<1>7. ASSUME NEW flow \in C!Flows, NEW ids \in C!Choices(t, flow), C!Check(t, flow, ids)
      PROVE  Fine(t)
  <2> DEFINE new == C!NoFlow(ctab[t].shown, "nothing")
             X == [new EXCEPT !.step = "checking", !.flow = flow, !.ids = ids]
             yes == TRUE
  <2>1. new \in C!Tab /\ new.said = "nothing" /\ ids \in SUBSET Skills
    BY <1>1, ConsoleStart DEF C!Choices
  <2>2. /\ ctab' = [ctab EXCEPT ![t] = X] /\ C!Request(t, flow, ids, yes)
        /\ yes \in BOOLEAN /\ yes
    BY <1>1, <1>7 DEF C!Check, TabsTyped
  <2> HIDE DEF new, yes
  <2>3. X \in C!Tab /\ X.step = "checking" /\ X.flow = flow /\ X.said = new.said
    BY <1>7, <2>1, Zenon DEF C!Tab
  <2> HIDE DEF X
  <2>4. PICK Y \in C!Job : /\ cjob' = [cjob EXCEPT ![t] = Y] /\ Y.step \in {"stage", "report"}
                           /\ Y.flow = flow /\ Y.dry = yes /\ ~ Y.orphan
    BY <1>7, <2>1, <2>2, ScriptStarts, Zenon
  <2>5. X.step = IF Y.dry THEN "checking" ELSE "writing"
    BY <2>2, <2>3, <2>4, Zenon
  <2> QED
    BY <1>1, <2>1, <2>2, <2>3, <2>4, <2>5, TabRequests DEF Fine
<1> QED
  BY <1>2, <1>3, <1>4, <1>5, <1>6, <1>7 DEF PageActs

\* What the executor's scripts do.
ScriptActs(t) ==
    \/ C!Report(t) \/ C!Filter(t) \/ C!CheckReport(t) \/ C!Verify(t) \/ C!Merge(t)
    \/ C!Put(t) \/ C!Record(t) \/ C!Stage(t) \/ C!Apply(t) \/ C!Tell(t) \/ C!TimesOut(t)

\* A script that fails or finds nothing to do answers so.
LEMMA ScriptAnswers ==
    ASSUME C!ConsoleInv, NEW t \in Tabs, NEW said \in {"failed", "unchanged"},
           C!Answered(t, [ctab EXCEPT ![t] = C!NoFlow(@.shown, said)])
    PROVE  Fine(t)
<1>1. TabsTyped /\ TabOK(t) /\ ctab[t].shown \in C!Queue
  BY ConsoleParts, TabIsTyped
<1> DEFINE X == C!NoFlow(ctab[t].shown, said)
<1>2. X \in C!Tab /\ X.step = "idle" /\ X.said # "done"
  BY <1>1, ConsoleStart
<1>3. C!Answered(t, [ctab EXCEPT ![t] = X])
  OBVIOUS
<1> HIDE DEF X
<1> QED
  BY <1>1, <1>2, <1>3, ScriptEnds DEF Fine

LEMMA ReportGoes ==
    ASSUME C!ConsoleInv, NEW t \in Tabs, C!Report(t)
    PROVE  Fine(t)
<1>1. /\ TabsTyped /\ TabOK(t) /\ C!ConsoleTypeOK /\ cjob[t] \in C!Job
      /\ ccentral \in C!Hashes
  BY ConsoleParts, TabIsTyped DEF C!ConsoleInv, WorldOK
<1> DEFINE Y == [cjob[t] EXCEPT !.step = "filter", !.late = {}]
<1>2. /\ cjob[t].step = "report" /\ cfile' = C!Plan(ccentral) /\ cjob' = [cjob EXCEPT ![t] = Y]
      /\ UNCHANGED <<ctab, csource, cknown>>
  BY <1>1 DEF C!Report, TabsTyped
<1>3. /\ Y \in C!Job /\ Y.step = "filter" /\ Y.flow = cjob[t].flow /\ Y.dry = cjob[t].dry
      /\ Y.orphan = cjob[t].orphan
  BY <1>1, Zenon DEF C!Job
<1>4. \A s \in Skills : cfile'[s].local = csource[s]
  BY <1>1, <1>2, ReportIsTyped
<1> HIDE DEF Y
<1> QED
  BY <1>1, <1>2, <1>3, <1>4, ScriptGoes DEF Fine

LEMMA FilterGoes ==
    ASSUME C!ConsoleInv, NEW t \in Tabs, C!Filter(t)
    PROVE  Fine(t)
<1>1. TabsTyped /\ TabOK(t) /\ cjob[t] \in C!Job
  BY ConsoleParts, TabIsTyped
<1>2. CASE C!Publishable(t) = {}
  BY <1>2, ScriptAnswers DEF C!Filter
<1>3. CASE C!Publishable(t) # {}
  <2> DEFINE ids == C!Publishable(t)
             Y == [cjob[t] EXCEPT !.step = "check", !.ids = ids]
  <2>1. ids \subseteq Skills /\ ids \subseteq cjob[t].ids
    BY <1>1, TabIsTyped DEF C!Publishable
  <2>2. /\ cjob[t].step = "filter" /\ cjob' = [cjob EXCEPT ![t] = Y]
        /\ UNCHANGED <<ctab, csource, cknown>>
    BY <1>1, <1>3 DEF C!Filter, TabsTyped
  <2>3. cjob[t].flow = "save" /\ ~ cjob[t].dry => \A s \in ids : cfile[s].local = ctab[t].preview[s]
    BY DEF C!Publishable, C!Expected
  <2>4. \A s \in ids \ cjob[t].late : cfile[s].local = csource[s]
    BY <1>1, <2>1, <2>2 DEF TabOK
  <2> HIDE DEF ids
  <2>5. /\ Y \in C!Job /\ Y.step = "check" /\ Y.flow = cjob[t].flow /\ Y.dry = cjob[t].dry
        /\ Y.orphan = cjob[t].orphan /\ Y.ids = ids /\ Y.late = cjob[t].late
    BY <1>1, <2>1, Zenon DEF C!Job
  <2> HIDE DEF Y
  <2>6. (Y.flow = "save" /\ ~ Y.dry /\ ~ Y.orphan) =>
           \A s \in Y.ids \ Y.late : csource[s] = ctab[t].preview[s]
    BY <2>3, <2>4, <2>5
  <2> QED
    BY <1>1, <2>2, <2>5, <2>6, ScriptGoes DEF Fine
<1> QED
  BY <1>2, <1>3

LEMMA CheckGoes ==
    ASSUME C!ConsoleInv, NEW t \in Tabs, C!CheckReport(t)
    PROVE  Fine(t)
<1>1. /\ TabsTyped /\ TabOK(t) /\ C!ConsoleTypeOK /\ cjob[t] \in C!Job /\ ctab[t] \in C!Tab
      /\ cjob[t].ids \subseteq Skills /\ cjob[t].orphan \in BOOLEAN
  BY ConsoleParts, TabIsTyped DEF C!ConsoleInv
<1>2. cjob[t].step = "check"
  BY DEF C!CheckReport
<1>3. CASE \E s \in cjob[t].ids : ~ C!Approvable(s, cjob[t].flow)
  BY <1>3, ScriptAnswers DEF C!CheckReport, C!Failed
<1>4. CASE /\ ~ \E s \in cjob[t].ids : ~ C!Approvable(s, cjob[t].flow)
           /\ cjob[t].dry
  <2> DEFINE ids == cjob[t].ids
             preview == C!Checked(t)
             X == [ctab[t] EXCEPT !.step = "confirming", !.ids = ids, !.preview = preview]
  <2>1. preview \in C!Hashes
    BY <1>1 DEF C!Checked, C!Hashes, C!ConsoleTypeOK, C!Content
  <2>2. C!Answered(t, [ctab EXCEPT ![t] = X])
    BY <1>1, <1>4 DEF C!CheckReport, TabsTyped
  <2>3. ids \in SUBSET Skills
    BY <1>1
  <2> HIDE DEF ids, preview
  <2>4. X \in C!Tab /\ X.step = "confirming" /\ X.said = ctab[t].said
    BY <1>1, <2>1, <2>3, Zenon DEF C!Tab
  <2> HIDE DEF X
  <2>5. CASE ctab[t].said # "done"
    BY <1>1, <2>2, <2>4, <2>5, ScriptEnds DEF Fine
  <2>6. ctab[t].said = "done" => cjob[t].orphan
    BY <1>1, <1>2, <1>4 DEF TabOK
  <2>7. CASE cjob[t].orphan
    <3>1. cjob' = [cjob EXCEPT ![t] = C!NoJob] /\ ctab' = ctab
      BY <2>2, <2>7 DEF C!Answered
    <3> DEFINE Z == C!NoFlow(ctab[t].shown, "failed")
    <3>2. Z \in C!Tab /\ Z.step = "idle" /\ Z.said # "done"
      BY TabIsTyped, <1>1, ConsoleStart
    <3>3. C!Answered(t, [ctab EXCEPT ![t] = Z])
      BY <2>7, <3>1 DEF C!Answered
    <3> HIDE DEF Z
    <3> QED
      BY <1>1, <3>2, <3>3, ScriptEnds DEF Fine
  <2> QED
    BY <2>5, <2>6, <2>7
<1>5. CASE /\ ~ \E s \in cjob[t].ids : ~ C!Approvable(s, cjob[t].flow)
           /\ ~ cjob[t].dry
  <2> DEFINE Y == [cjob[t] EXCEPT !.step = "verify"]
  <2>1. cjob' = [cjob EXCEPT ![t] = Y] /\ UNCHANGED <<ctab, csource, cknown>>
    BY <1>1, <1>5 DEF C!CheckReport, C!Goes, TabsTyped
  <2>2. /\ Y \in C!Job /\ Y.step = "verify" /\ Y.flow = cjob[t].flow /\ Y.dry = cjob[t].dry
        /\ Y.orphan = cjob[t].orphan /\ Y.ids = cjob[t].ids /\ Y.late = cjob[t].late
    BY <1>1, Zenon DEF C!Job
  <2> HIDE DEF Y
  <2>3. (Y.flow = "save" /\ ~ Y.dry /\ ~ Y.orphan) =>
           \A s \in Y.ids \ Y.late : csource[s] = ctab[t].preview[s]
    BY <1>1, <1>2, <2>2 DEF TabOK
  <2> QED
    BY <1>1, <1>2, <1>5, <2>1, <2>2, <2>3, ScriptGoes DEF Fine
<1> QED
  BY <1>3, <1>4, <1>5

LEMMA VerifyGoes ==
    ASSUME C!ConsoleInv, NEW t \in Tabs, C!Verify(t)
    PROVE  Fine(t)
<1>1. TabsTyped /\ TabOK(t) /\ cjob[t] \in C!Job /\ cjob[t].step = "verify"
  BY ConsoleParts, TabIsTyped DEF C!Verify
<1>2. CASE ccentral # ccache
  BY <1>2, ScriptAnswers DEF C!Verify, C!Failed
<1>3. CASE ccentral = ccache
  <2> DEFINE Y == [cjob[t] EXCEPT !.step = "merge"]
  <2>1. cjob' = [cjob EXCEPT ![t] = Y] /\ UNCHANGED <<ctab, csource, cknown>>
    BY <1>1, <1>3 DEF C!Verify, C!Goes, TabsTyped
  <2>2. /\ Y \in C!Job /\ Y.step = "merge" /\ Y.flow = cjob[t].flow /\ Y.dry = cjob[t].dry
        /\ Y.orphan = cjob[t].orphan /\ Y.ids = cjob[t].ids /\ Y.late = cjob[t].late
    BY <1>1, Zenon DEF C!Job
  <2> HIDE DEF Y
  <2>3. (Y.flow = "save" /\ ~ Y.dry /\ ~ Y.orphan) =>
           \A s \in Y.ids \ Y.late : csource[s] = ctab[t].preview[s]
    BY <1>1, <2>2 DEF TabOK
  <2> QED
    BY <1>1, <2>1, <2>2, <2>3, ScriptGoes DEF Fine
<1> QED
  BY <1>2, <1>3

LEMMA MergeGoes ==
    ASSUME C!ConsoleInv, NEW t \in Tabs, C!Merge(t)
    PROVE  Fine(t)
<1>1. /\ TabsTyped /\ TabOK(t) /\ cjob[t] \in C!Job /\ cjob[t].step = "merge"
      /\ cjob[t].ids \subseteq Skills /\ C!ConsoleTypeOK
  BY ConsoleParts, TabIsTyped DEF C!Merge, C!ConsoleInv
<1>2. CASE \E s \in cjob[t].ids : csource[s] = Absent
  BY <1>2, ScriptAnswers DEF C!Merge, C!Failed
<1>3. CASE ~ \E s \in cjob[t].ids : csource[s] = Absent
  <2> DEFINE hash == [s \in Skills |-> IF s \in cjob[t].ids THEN csource[s] ELSE ccache[s]]
             Y == [cjob[t] EXCEPT !.step = "put", !.hash = hash]
  <2>1. cjob' = [cjob EXCEPT ![t] = Y] /\ UNCHANGED <<ctab, csource, cknown>>
    BY <1>1, <1>3 DEF C!Merge, TabsTyped
  <2>2. hash \in C!Hashes /\ \A s \in cjob[t].ids : hash[s] = csource[s]
    BY <1>1 DEF C!ConsoleTypeOK, C!Hashes
  <2> HIDE DEF hash
  <2>3. /\ Y \in C!Job /\ Y.step = "put" /\ Y.flow = cjob[t].flow /\ Y.dry = cjob[t].dry
        /\ Y.orphan = cjob[t].orphan /\ Y.ids = cjob[t].ids /\ Y.late = cjob[t].late
        /\ Y.hash = hash
    BY <1>1, <2>2, Zenon DEF C!Job
  <2> HIDE DEF Y
  <2>4. (Y.flow = "save" /\ ~ Y.dry /\ ~ Y.orphan) =>
           \A s \in Y.ids \ Y.late : Y.hash[s] = ctab[t].preview[s]
    BY <1>1, <2>2, <2>3 DEF TabOK
  <2> QED
    BY <1>1, <2>1, <2>3, <2>4, ScriptGoes DEF Fine
<1> QED
  BY <1>2, <1>3

LEMMA PutGoes ==
    ASSUME C!ConsoleInv, NEW t \in Tabs, C!Put(t)
    PROVE  Fine(t) /\ cjob'[t].step = "record"
<1>1. /\ TabsTyped /\ TabOK(t) /\ cjob[t] \in C!Job /\ cjob[t].step = "put"
      /\ C!ConsoleTypeOK
  BY ConsoleParts, TabIsTyped DEF C!Put, C!ConsoleInv
<1> DEFINE Y == [cjob[t] EXCEPT !.step = "record"]
<1>2. cjob' = [cjob EXCEPT ![t] = Y] /\ UNCHANGED <<ctab, csource>>
  BY <1>1 DEF C!Put, C!Goes, TabsTyped
<1>3. /\ Y \in C!Job /\ Y.step = "record" /\ Y.flow = cjob[t].flow /\ Y.dry = cjob[t].dry
      /\ Y.orphan = cjob[t].orphan /\ Y.hash = cjob[t].hash
  BY <1>1, Zenon DEF C!Job
<1> HIDE DEF Y
<1>4. \A s \in Skills : Y.hash[s] \in cknown'[s]
  BY <1>3 DEF C!Put, C!Known
<1>5. cjob'[t] = Y
  BY <1>1, <1>2 DEF TabsTyped
<1> QED
  BY <1>1, <1>2, <1>3, <1>4, <1>5, ScriptGoes DEF Fine

LEMMA RecordGoes ==
    ASSUME C!ConsoleInv, NEW t \in Tabs, C!Record(t)
    PROVE  Fine(t) /\ cjob'[t].step # "record"
<1>1. /\ TabsTyped /\ TabOK(t) /\ cjob[t] \in C!Job /\ cjob[t].step = "record"
      /\ ctab[t].shown \in C!Queue
  BY ConsoleParts, TabIsTyped DEF C!Record
<1>2. CASE cjob[t].orphan
  <2>1. cjob' = [cjob EXCEPT ![t] = C!NoJob] /\ ctab' = ctab
    BY <1>2 DEF C!Record
  <2>2. C!Answered(t, [ctab EXCEPT ![t] = C!NoFlow(@.shown, "failed")])
    BY <1>2, <2>1 DEF C!Answered
  <2>3. cjob'[t].step = "idle"
    BY <1>1, <2>1, ConsoleStart DEF TabsTyped
  <2> QED
    BY <2>2, <2>3, ScriptAnswers
<1>3. CASE ~ cjob[t].orphan
  <2> DEFINE Y == [cjob[t] EXCEPT !.step = "tell"]
  <2>1. cjob' = [cjob EXCEPT ![t] = Y] /\ UNCHANGED <<ctab, csource>>
    BY <1>1, <1>3 DEF C!Record, TabsTyped
  <2>2. /\ Y \in C!Job /\ Y.step = "tell" /\ Y.flow = cjob[t].flow /\ Y.dry = cjob[t].dry
        /\ Y.orphan = cjob[t].orphan
    BY <1>1, Zenon DEF C!Job
  <2> HIDE DEF Y
  <2>3. cjob'[t] = Y
    BY <1>1, <2>1 DEF TabsTyped
  <2> QED
    BY <1>1, <2>1, <2>2, <2>3, ScriptGoes DEF Fine
<1> QED
  BY <1>2, <1>3

LEMMA StageGoes ==
    ASSUME C!ConsoleInv, NEW t \in Tabs, C!Stage(t)
    PROVE  Fine(t)
<1>1. /\ TabsTyped /\ TabOK(t) /\ cjob[t] \in C!Job /\ ctab[t] \in C!Tab
      /\ cjob[t].step = "stage" /\ ctab[t].shown \in C!Queue /\ ccentral \in C!Hashes
  BY ConsoleParts, TabIsTyped DEF C!Stage, WorldOK
<1>2. CASE cjob[t].dry
  <2> DEFINE X == [ctab[t] EXCEPT !.step = "confirming"]
  <2>1. C!Answered(t, [ctab EXCEPT ![t] = X])
    BY <1>1, <1>2 DEF C!Stage, TabsTyped
  <2>2. X \in C!Tab /\ X.step = "confirming" /\ X.said = ctab[t].said
    BY <1>1, Zenon DEF C!Tab
  <2> HIDE DEF X
  <2>3. CASE ctab[t].said # "done"
    BY <1>1, <2>1, <2>2, <2>3, ScriptEnds DEF Fine
  <2>4. ctab[t].said = "done" => cjob[t].orphan
    BY <1>1, <1>2 DEF TabOK
  <2>5. CASE cjob[t].orphan
    <3>1. cjob' = [cjob EXCEPT ![t] = C!NoJob] /\ ctab' = ctab
      BY <2>1, <2>5 DEF C!Answered
    <3>2. C!Answered(t, [ctab EXCEPT ![t] = C!NoFlow(@.shown, "failed")])
      BY <2>5, <3>1 DEF C!Answered
    <3> QED
      BY <3>2, ScriptAnswers
  <2> QED
    BY <2>3, <2>4, <2>5
<1>3. CASE ~ cjob[t].dry
  <2> DEFINE Y == [cjob[t] EXCEPT !.step = "apply", !.hash = ccentral]
  <2>1. cjob' = [cjob EXCEPT ![t] = Y] /\ UNCHANGED <<ctab, csource>>
    BY <1>1, <1>3 DEF C!Stage, TabsTyped
  <2>2. /\ Y \in C!Job /\ Y.step = "apply" /\ Y.flow = cjob[t].flow /\ Y.dry = cjob[t].dry
        /\ Y.orphan = cjob[t].orphan
    BY <1>1, Zenon DEF C!Job
  <2> HIDE DEF Y
  <2> QED
    BY <1>1, <1>3, <2>1, <2>2, ScriptGoes DEF Fine
<1> QED
  BY <1>2, <1>3

LEMMA TellGoes ==
    ASSUME C!ConsoleInv, NEW t \in Tabs, C!Tell(t)
    PROVE  Fine(t)
<1>1. /\ TabsTyped /\ TabOK(t) /\ ctab[t] \in C!Tab /\ cjob[t].step = "tell"
  BY ConsoleParts, TabIsTyped DEF C!Tell
<1>2. CASE C!Answered(t, C!Failed(t))
  BY <1>2, ScriptAnswers DEF C!Failed
<1>3. CASE C!Answered(t, [ctab EXCEPT ![t] = [@ EXCEPT !.step = "asking", !.attempt = 1]])
  <2> DEFINE X == [ctab[t] EXCEPT !.step = "asking", !.attempt = 1]
  <2>1. C!Answered(t, [ctab EXCEPT ![t] = X])
    BY <1>1, <1>3 DEF TabsTyped
  <2>2. 1 \in 0..Attempts
    BY ConsoleAssumption
  <2>3. X \in C!Tab /\ X.step = "asking" /\ X.said = ctab[t].said
    BY <1>1, <2>2, Zenon DEF C!Tab
  <2> HIDE DEF X
  <2>4. CASE ctab[t].said # "done"
    BY <1>1, <2>1, <2>3, <2>4, ScriptEnds DEF Fine
  <2>5. ctab[t].said = "done" => cjob[t].orphan
    <3>1. cjob[t].dry \in BOOLEAN
      BY <1>1, TabIsTyped
    <3> QED
      BY <1>1, <3>1 DEF TabOK
  <2>6. CASE cjob[t].orphan
    <3>1. cjob' = [cjob EXCEPT ![t] = C!NoJob] /\ ctab' = ctab
      BY <2>1, <2>6 DEF C!Answered
    <3>2. C!Answered(t, [ctab EXCEPT ![t] = C!NoFlow(@.shown, "failed")])
      BY <2>6, <3>1 DEF C!Answered
    <3> QED
      BY <3>2, ScriptAnswers
  <2> QED
    BY <2>4, <2>5, <2>6
<1> QED
  BY <1>2, <1>3 DEF C!Tell

LEMMA GivenUp ==
    ASSUME C!ConsoleInv, NEW t \in Tabs, C!TimesOut(t)
    PROVE  Fine(t)
<1>1. /\ TabsTyped /\ TabOK(t) /\ cjob[t] \in C!Job /\ ctab[t].shown \in C!Queue
  BY ConsoleParts, TabIsTyped
<1> DEFINE X == C!NoFlow(ctab[t].shown, "failed")
           yes == TRUE
           runs == ~ cjob[t].dry /\ cjob[t].step \in {"check", "verify", "merge", "put", "record", "apply"}
           Y == IF runs THEN [cjob[t] EXCEPT !.orphan = yes] ELSE C!NoJob
<1>2. X \in C!Tab /\ X.step = "idle" /\ X.said = "failed"
  BY <1>1, ConsoleStart
<1>3. ctab' = [ctab EXCEPT ![t] = X] /\ UNCHANGED cknown
  BY DEF C!TimesOut, C!Failed
<1>4. cjob' = [cjob EXCEPT ![t] = IF runs THEN [@ EXCEPT !.orphan = yes] ELSE C!NoJob]
  BY DEF C!TimesOut
<1>5. yes \in BOOLEAN /\ yes
  OBVIOUS
<1> HIDE DEF X, yes
<1>6. cjob' = [cjob EXCEPT ![t] = Y]
  BY <1>1, <1>4, Zenon DEF TabsTyped
<1>7. CASE runs
  <2>1. /\ Y \in C!Job /\ Y.step = cjob[t].step /\ Y.orphan = yes
        /\ Y.hash = cjob[t].hash /\ Y.dry = cjob[t].dry
    BY <1>1, <1>5, <1>7, Zenon DEF C!Job
  <2>2. Y.step \in {"check", "verify", "merge", "put", "record", "apply"} /\ Y.orphan /\ ~ Y.dry
    BY <1>5, <1>7, <2>1, Zenon
  <2> HIDE DEF Y
  <2>3. TabsTyped' /\ Alone(t) /\ cjob'[t] = Y /\ ctab'[t] = X
    BY <1>1, <1>2, <1>3, <1>6, <2>1 DEF TabsTyped, Alone
  <2> QED
    BY <1>1, <1>2, <1>3, <2>1, <2>2, <2>3 DEF TabOK, Fine
<1>8. CASE ~ runs
  <2>1. Y = C!NoJob /\ C!NoJob \in C!Job /\ C!NoJob.step = "idle" /\ ~ C!NoJob.orphan
    BY <1>8, ConsoleStart
  <2> HIDE DEF Y
  <2>2. TabsTyped' /\ Alone(t) /\ cjob'[t] = C!NoJob /\ ctab'[t] = X
    BY <1>1, <1>2, <1>3, <1>6, <2>1 DEF TabsTyped, Alone
  <2> QED
    BY <1>2, <2>1, <2>2 DEF TabOK, Fine
<1> QED
  BY <1>7, <1>8

\* A restore changes the device under the other scripts.
LEMMA ApplyGoes ==
    ASSUME C!ConsoleInv, NEW t \in Tabs, C!Apply(t)
    PROVE  /\ TabsTyped' /\ ctab' = ctab /\ TabOK(t)' /\ cjob'[t].step # "record"
           /\ \A u \in Tabs \ {t} : ScriptStays(u)
<1>1. /\ TabsTyped /\ TabOK(t) /\ cjob[t] \in C!Job /\ cjob[t].step = "apply"
  BY ConsoleParts, TabIsTyped DEF C!Apply
<1> DEFINE next == [cjob[t] EXCEPT !.step = "tell"]
           Y == IF cjob[t].orphan THEN C!NoJob ELSE next
           jobs == [cjob EXCEPT ![t] = Y]
<1>2. C!Moved(jobs) /\ ctab' = ctab
  BY <1>1 DEF C!Apply, TabsTyped
<1>3. /\ next \in C!Job /\ next.step = "tell" /\ next.flow = cjob[t].flow
      /\ next.dry = cjob[t].dry /\ next.orphan = cjob[t].orphan
  BY <1>1, Zenon DEF C!Job
<1> HIDE DEF next
<1>4. /\ Y \in C!Job /\ Y.step \in {"idle", "tell"}
      /\ Y.step = "idle" => Y = C!NoJob
      /\ Y.step = "tell" => Y.dry = cjob[t].dry /\ Y.flow = cjob[t].flow /\ ~ cjob[t].orphan
      /\ ~ Y.orphan
  BY <1>3, ConsoleStart
<1>5. jobs \in [Tabs -> C!Job] /\ jobs[t] = Y /\ \A u \in Tabs \ {t} : jobs[u] = cjob[u]
  BY <1>1, <1>4 DEF TabsTyped
<1> HIDE DEF Y, jobs
<1>6. /\ cjob' \in [Tabs -> C!Job]
      /\ \A u \in Tabs :
            /\ cjob'[u].step = jobs[u].step /\ cjob'[u].flow = jobs[u].flow
            /\ cjob'[u].dry = jobs[u].dry /\ cjob'[u].ids = jobs[u].ids
            /\ cjob'[u].hash = jobs[u].hash /\ cjob'[u].orphan = jobs[u].orphan
            /\ jobs[u].step = "idle" => cjob'[u] = jobs[u]
            /\ jobs[u].late \subseteq cjob'[u].late
            /\ jobs[u].step # "idle" =>
                  \A s \in Skills \ cjob'[u].late : csource'[s] = csource[s]
  BY <1>2, <1>5, ScriptsAreMoved
<1>7. \A u \in Tabs \ {t} : ScriptStays(u)
  BY <1>5, <1>6 DEF ScriptStays
<1>8. TabsTyped'
  BY <1>1, <1>2, <1>6 DEF TabsTyped
<1>9. TabOK(t)'
  <2>1. /\ cjob'[t].step \in {"idle", "tell"} /\ ~ cjob'[t].orphan
        /\ cjob'[t].step = "idle" => cjob'[t] = C!NoJob
        /\ cjob'[t].step = "tell" =>
              cjob'[t].dry = cjob[t].dry /\ cjob'[t].flow = cjob[t].flow /\ ~ cjob[t].orphan
    BY <1>4, <1>5, <1>6
  <2>2. CASE cjob'[t].step = "tell"
    BY <1>1, <1>2, <2>1, <2>2 DEF TabOK
  <2>3. CASE cjob'[t].step = "idle"
    <3>1. cjob[t].orphan
      <4>1. Y.step = "idle"
        BY <1>5, <1>6, <2>3
      <4> QED
        BY <1>3, <4>1 DEF Y
    <3> QED
      BY <1>1, <1>2, <2>1, <2>3, <3>1 DEF TabOK
  <2> QED
    BY <2>1, <2>2, <2>3
<1>10. cjob'[t].step # "record"
  BY <1>4, <1>5, <1>6
<1> QED
  BY <1>2, <1>7, <1>8, <1>9, <1>10

LEMMA ScriptsGo ==
    ASSUME C!ConsoleInv, NEW t \in Tabs, ScriptActs(t)
    PROVE  Fine(t) \/ C!Apply(t)
BY ReportGoes, FilterGoes, CheckGoes, VerifyGoes, MergeGoes, PutGoes, RecordGoes, StageGoes,
   TellGoes, GivenUp DEF ScriptActs

LEMMA ConsoleSides ==
    ASSUME [C!Next]_cvars
    PROVE  \/ \E s \in Skills, v \in ConsoleVersions : C!Edit(s, v) \/ C!OthersPush(s, v)
           \/ C!DaemonCycle
           \/ \E t \in Tabs : PageActs(t) \/ ScriptActs(t)
           \/ UNCHANGED cvars
BY DEF C!Next, PageActs, ScriptActs

LEMMA TabsNext ==
    ASSUME C!ConsoleInv, [C!Next]_cvars
    PROVE  TabsTyped' /\ \A t \in Tabs : TabOK(t)'
<1>1. WorldOK /\ TabsTyped /\ (\A t \in Tabs : TabOK(t)) /\ C!ConsoleTypeOK
  BY ConsoleParts DEF C!ConsoleInv
<1>2. CASE \/ \E s \in Skills, v \in ConsoleVersions : C!Edit(s, v) \/ C!OthersPush(s, v)
           \/ C!DaemonCycle
  BY <1>2, WorldGoes
<1>3. ASSUME NEW t \in Tabs, PageActs(t) \/ ScriptActs(t), ~ C!Apply(t)
      PROVE  TabsTyped' /\ \A u \in Tabs : TabOK(u)'
  <2>1. Fine(t)
    BY <1>3, PageGoes, ScriptsGo
  <2>2. UNCHANGED csource
    BY <1>3 DEF PageActs, C!Look, C!Cancel, C!Confirm, C!AskAgain, C!ReadAgain, C!Check,
       ScriptActs, C!Report, C!Filter, C!CheckReport, C!Verify, C!Merge, C!Put, C!Record,
       C!Stage, C!Tell, C!TimesOut
  <2>3. UNCHANGED cfile \/ C!Report(t)
    BY <1>3 DEF PageActs, C!Look, C!Cancel, C!Confirm, C!AskAgain, C!ReadAgain, C!Check,
       ScriptActs, C!Filter, C!CheckReport, C!Verify, C!Merge, C!Put, C!Record,
       C!Stage, C!Tell, C!TimesOut
  <2>4. UNCHANGED cknown \/ C!Put(t)
    BY <1>3 DEF PageActs, C!Look, C!Cancel, C!Confirm, C!AskAgain, C!ReadAgain, C!Check,
       ScriptActs, C!Report, C!Filter, C!CheckReport, C!Verify, C!Merge, C!Record,
       C!Stage, C!Tell, C!TimesOut
  <2>5. ReportStays
    <3>1. C!Report(t) => \A s \in Skills : cfile'[s].local = csource[s]
      <4>1. ccentral \in C!Hashes
        BY <1>1 DEF WorldOK
      <4> QED
        BY <1>1, <4>1, ReportIsTyped DEF C!Report
    <3>2. \A s \in Skills : cknown[s] \subseteq cknown'[s]
      BY <2>4 DEF C!Put, C!Known
    <3> QED
      BY <2>3, <3>1, <3>2 DEF ReportStays
  <2>6. ASSUME NEW u \in Tabs, u # t PROVE TabOK(u)'
    <3>1. ctab'[u] = ctab[u] /\ cjob'[u] = cjob[u]
      BY <2>1, <2>6 DEF Fine, Alone
    <3>2. ScriptStays(u)
      BY <2>2, <3>1, ScriptUnmoved
    <3> QED
      BY <1>1, <2>5, <3>1, <3>2, OthersAreLeft
  <2> QED
    BY <2>1, <2>6 DEF Fine
<1>4. ASSUME NEW t \in Tabs, C!Apply(t)
      PROVE  TabsTyped' /\ \A u \in Tabs : TabOK(u)'
  <2>1. ReportStays
    BY <1>4 DEF C!Apply, ReportStays
  <2>2. /\ TabsTyped' /\ ctab' = ctab /\ TabOK(t)'
        /\ \A u \in Tabs \ {t} : ScriptStays(u)
    BY <1>4, ApplyGoes
  <2>3. ASSUME NEW u \in Tabs, u # t PROVE TabOK(u)'
    BY <1>1, <2>1, <2>2, <2>3, OthersAreLeft
  <2> QED
    BY <2>2, <2>3
<1>5. CASE UNCHANGED cvars
  <2>1. ReportStays /\ \A u \in Tabs : ScriptStays(u)
    BY <1>5 DEF cvars, ReportStays, ScriptStays
  <2>2. ASSUME NEW u \in Tabs PROVE TabOK(u)'
    BY <1>1, <1>5, <2>1, OthersAreLeft DEF cvars
  <2> QED
    BY <1>1, <1>5, <2>2 DEF cvars, TabsTyped
<1> QED
  BY <1>2, <1>3, <1>4, <1>5, ConsoleSides

LEMMA ConsoleCounted ==
    ASSUME WorldOK, NEW kind \in {"flows", "edits", "pushes", "failures"}, NEW max,
           C!Count(kind, max)
    PROVE  ccounts' \in [flows: Nat, edits: Nat, pushes: Nat, failures: Nat]
<1>1. /\ ccounts \in [flows: Nat, edits: Nat, pushes: Nat, failures: Nat]
      /\ ccounts' = [ccounts EXCEPT ![kind] = @ + 1]
  BY DEF WorldOK, C!Count
<1>2. CASE kind = "flows"
  BY <1>1, <1>2
<1>3. CASE kind = "edits"
  BY <1>1, <1>3
<1>4. CASE kind = "pushes"
  BY <1>1, <1>4
<1>5. CASE kind = "failures"
  BY <1>1, <1>5
<1> QED
  BY <1>2, <1>3, <1>4, <1>5

\* The status of the device names every version that central did not hold.
LEMMA StatusTold ==
    ASSUME C!ConsoleInv, C!Told
    PROVE  /\ ccache' \in C!Hashes /\ cpeer' \in C!Queue /\ ctold' \subseteq Skills
           /\ \A s \in Skills : cpeer'[s] = "none" => s \in ctold'
<1>1. WorldOK /\ C!ConsoleTypeOK /\ ccentral \in C!Hashes
  BY ConsoleParts DEF C!ConsoleInv, WorldOK
<1>2. /\ cpeer' = C!KindsOf(ccentral) /\ ccache' = ccentral
      /\ ctold' = {s \in Skills : csource[s] \in cknown[s]}
  BY DEF C!Told
<1>3. ASSUME NEW s \in Skills, cpeer'[s] = "none" PROVE s \in ctold'
  <2>1. csource[s] \in {Absent, cbase[s], ccentral[s]}
    BY <1>1, <1>2, <1>3, ReportIsTyped
  <2> QED
    BY <1>1, <1>2, <2>1 DEF WorldOK
<1> QED
  BY <1>1, <1>2, <1>3, ReportIsTyped

LEMMA WorldNext ==
    ASSUME C!ConsoleInv, [C!Next]_cvars
    PROVE  WorldOK'
<1>1. /\ WorldOK /\ TabsTyped /\ (\A t \in Tabs : TabOK(t)) /\ C!ConsoleTypeOK
      /\ {csource, cbase, ccache, ccentral} \subseteq C!Hashes
  BY ConsoleParts DEF C!ConsoleInv, WorldOK
<1> DEFINE Typed == /\ {csource', cbase', ccache', ccentral'} \subseteq C!Hashes
                    /\ cfile' \in [Skills -> C!Item]
                    /\ cknown' \in [Skills -> SUBSET C!Content]
           Counted == ccounts' \in [flows: Nat, edits: Nat, pushes: Nat, failures: Nat]
           Kept == \A s \in Skills : {Absent, cbase'[s], ccentral'[s]} \subseteq cknown'[s]
           Status == /\ cpeer' \in C!Queue /\ ctold' \subseteq Skills
                     /\ \A s \in Skills : cpeer'[s] = "none" => s \in ctold'
           Good == Typed /\ Counted /\ Kept /\ Status
<1>2. /\ UNCHANGED <<csource, cbase, ccache, ccentral, cfile, cknown>> => Typed
      /\ UNCHANGED ccounts => Counted
      /\ UNCHANGED <<cbase, ccentral, cknown>> => Kept
      /\ UNCHANGED <<cpeer, ctold>> => Status
  BY <1>1 DEF WorldOK
<1>3. ASSUME NEW s \in Skills, NEW v \in ConsoleVersions, C!Edit(s, v) PROVE Good
  <2>1. /\ csource' = [csource EXCEPT ![s] = v] /\ C!Count("edits", MaxSourceEdits)
        /\ UNCHANGED <<cbase, ccache, cfile, ccentral, cpeer, cknown, ctold>>
    BY <1>3 DEF C!Edit
  <2>2. csource' \in C!Hashes
    BY <1>1, <2>1 DEF C!Hashes, C!Content
  <2>3. Counted
    BY <1>1, <2>1, ConsoleCounted
  <2>4. Typed
    BY <1>1, <2>1, <2>2 DEF WorldOK
  <2> QED
    BY <1>2, <2>1, <2>3, <2>4
<1>4. ASSUME NEW kept \in C!Hashes, ccentral' = kept, C!Known(kept),
             UNCHANGED <<csource, cbase, ccache, cfile>>
      PROVE  Typed /\ Kept
  <2>1. /\ cknown \in [Skills -> SUBSET C!Content]
        /\ cknown' = [s \in Skills |-> cknown[s] \cup {kept[s]}]
        /\ \A s \in Skills : kept[s] \in C!Content
    BY <1>1, <1>4 DEF WorldOK, C!Known, C!Hashes
  <2>2. cknown' \in [Skills -> SUBSET C!Content]
    BY <2>1
  <2>3. Typed
    BY <1>1, <1>4, <2>2 DEF WorldOK
  <2>4. Kept
    BY <1>1, <1>4, <2>1 DEF WorldOK
  <2> QED
    BY <2>3, <2>4
<1>5. ASSUME NEW s \in Skills, NEW v \in ConsoleVersions, C!OthersPush(s, v) PROVE Good
  <2>1. /\ ccentral' = [ccentral EXCEPT ![s] = v] /\ C!Count("pushes", MaxPushes)
        /\ C!Known([ccentral EXCEPT ![s] = v])
        /\ UNCHANGED <<csource, cbase, ccache, cfile, cpeer, ctold>>
    BY <1>5 DEF C!OthersPush, C!Known
  <2>2. [ccentral EXCEPT ![s] = v] \in C!Hashes
    BY <1>1 DEF C!Hashes, C!Content
  <2>3. Counted
    BY <1>1, <2>1, ConsoleCounted
  <2> QED
    BY <1>2, <1>4, <2>1, <2>2, <2>3
<1>6. ASSUME C!DaemonCycle PROVE Good
  <2>1. /\ ccache' = ccentral /\ cfile' = C!Plan(ccentral)
        /\ UNCHANGED <<ccentral, cpeer, cknown, ctold, ccounts>>
        /\ \/ UNCHANGED <<csource, cbase>>
           \/ /\ csource' = [s \in Skills |-> IF s \in C!Pulls(ccentral) THEN ccentral[s]
                                              ELSE csource[s]]
              /\ cbase' = ccentral
    BY <1>6 DEF C!DaemonCycle
  <2>2. csource' \in C!Hashes /\ cbase' \in {cbase, ccentral}
    BY <1>1, <2>1 DEF C!Hashes
  <2>3. cfile' \in [Skills -> C!Item]
    BY <1>1, <2>1, ReportIsTyped
  <2>4. Typed
    BY <1>1, <2>1, <2>2, <2>3 DEF WorldOK
  <2>5. Kept
    BY <1>1, <2>1, <2>2 DEF WorldOK
  <2> QED
    BY <1>2, <2>1, <2>4, <2>5
<1>7. ASSUME NEW t \in Tabs, PageActs(t) PROVE Good
  <2>1. UNCHANGED <<csource, cbase, cfile, ccentral, cknown>>
    BY <1>7 DEF PageActs, C!Look, C!Cancel, C!Confirm, C!AskAgain, C!ReadAgain, C!Check
  <2>2. \/ UNCHANGED ccounts \/ C!Count("failures", MaxTimeouts) \/ C!Count("flows", MaxFlows)
    BY <1>7 DEF PageActs, C!Look, C!Cancel, C!Confirm, C!AskAgain, C!ReadAgain, C!Check,
       C!MayFail
  <2>3. Counted
    BY <1>1, <1>2, <2>2, ConsoleCounted
  <2>4. C!Told \/ UNCHANGED <<ccache, cpeer, ctold>>
    BY <1>7 DEF PageActs, C!Look, C!Cancel, C!Confirm, C!AskAgain, C!ReadAgain, C!Check
  <2>5. ccache' \in C!Hashes /\ Status
    BY <1>1, <1>2, <2>4, StatusTold
  <2>6. Typed
    BY <1>1, <2>1, <2>5 DEF WorldOK
  <2> QED
    BY <1>2, <2>1, <2>3, <2>5, <2>6
<1>8. ASSUME NEW t \in Tabs, ScriptActs(t) PROVE Good
  <2>1. cjob[t].hash \in C!Hashes /\ cjob[t] \in C!Job
    BY <1>1, TabIsTyped
  <2>2. CASE C!Report(t)
    <3>1. /\ ccache' = ccentral /\ cfile' = C!Plan(ccentral)
          /\ UNCHANGED <<csource, cbase, ccentral, cpeer, cknown, ctold, ccounts>>
      BY <2>2 DEF C!Report
    <3>2. cfile' \in [Skills -> C!Item]
      BY <1>1, <3>1, ReportIsTyped
    <3>3. Typed
      BY <1>1, <3>1, <3>2 DEF WorldOK
    <3> QED
      BY <1>2, <3>1, <3>3
  <2>3. CASE C!Filter(t) \/ C!CheckReport(t) \/ C!Verify(t) \/ C!Merge(t)
    <3>1. UNCHANGED <<csource, cbase, ccache, cfile, ccentral, cpeer, cknown, ctold, ccounts>>
      BY <2>3 DEF C!Filter, C!CheckReport, C!Verify, C!Merge
    <3> QED
      BY <1>2, <3>1
  <2>4. CASE C!Put(t)
    <3>1. /\ ccentral' = cjob[t].hash /\ C!Known(cjob[t].hash)
          /\ UNCHANGED <<csource, cbase, ccache, cfile, cpeer, ctold, ccounts>>
      BY <2>4 DEF C!Put, C!Known
    <3> QED
      BY <1>2, <1>4, <2>1, <3>1
  <2>5. CASE C!Record(t)
    <3>1. /\ cbase' = cjob[t].hash /\ cjob[t].step = "record"
          /\ UNCHANGED <<csource, ccache, cfile, ccentral, cpeer, cknown, ctold, ccounts>>
      BY <2>5 DEF C!Record, C!Recorded
    <3>2. \A s \in Skills : cjob[t].hash[s] \in cknown[s]
      BY <1>1, <3>1 DEF TabOK
    <3>3. Typed
      BY <1>1, <2>1, <3>1 DEF WorldOK
    <3>4. Kept
      BY <1>1, <3>1, <3>2 DEF WorldOK
    <3> QED
      BY <1>2, <3>1, <3>3, <3>4
  <2>6. CASE C!Stage(t)
    <3>1. /\ ccache' = ccentral
          /\ UNCHANGED <<csource, cbase, cfile, ccentral, cpeer, cknown, ctold, ccounts>>
      BY <2>6 DEF C!Stage
    <3>2. Typed
      BY <1>1, <3>1 DEF WorldOK
    <3> QED
      BY <1>2, <3>1, <3>2
  <2>7. CASE C!Apply(t)
    <3>1. /\ csource' = [s \in Skills |-> IF s \in cjob[t].ids THEN cjob[t].hash[s]
                                          ELSE csource[s]]
          /\ UNCHANGED <<cbase, ccache, cfile, ccentral, cpeer, cknown, ctold, ccounts>>
      BY <2>7 DEF C!Apply
    <3>2. csource' \in C!Hashes
      BY <1>1, <2>1, <3>1 DEF C!Hashes
    <3>3. Typed
      BY <1>1, <3>1, <3>2 DEF WorldOK
    <3> QED
      BY <1>2, <3>1, <3>3
  <2>8. CASE C!Tell(t)
    <3>1. /\ UNCHANGED <<csource, cbase, cfile, ccentral, cknown>>
          /\ C!Told \/ UNCHANGED <<ccache, cpeer, ctold>>
          /\ UNCHANGED ccounts \/ C!Count("failures", MaxTimeouts)
      BY <2>8 DEF C!Tell, C!MayFail
    <3>2. ccache' \in C!Hashes /\ Status
      BY <1>1, <1>2, <3>1, StatusTold
    <3>3. Counted
      BY <1>1, <1>2, <3>1, ConsoleCounted
    <3>4. Typed
      BY <1>1, <3>1, <3>2 DEF WorldOK
    <3> QED
      BY <1>2, <3>1, <3>2, <3>3, <3>4
  <2>9. CASE C!TimesOut(t)
    <3>1. /\ UNCHANGED <<csource, cbase, ccache, cfile, ccentral, cpeer, cknown, ctold>>
          /\ C!Count("failures", MaxTimeouts)
      BY <2>9 DEF C!TimesOut, C!MayFail
    <3>2. Counted
      BY <1>1, <3>1, ConsoleCounted
    <3> QED
      BY <1>2, <3>1, <3>2
  <2> QED
    BY <1>8, <2>2, <2>3, <2>4, <2>5, <2>6, <2>7, <2>8, <2>9 DEF ScriptActs
<1>9. ASSUME UNCHANGED cvars PROVE Good
  BY <1>2, <1>9 DEF cvars
<1>10. Good => WorldOK'
  BY DEF WorldOK
<1> HIDE DEF Good
<1> QED
  BY <1>3, <1>5, <1>6, <1>7, <1>8, <1>9, <1>10, ConsoleSides

LEMMA ConsoleInit == C!Init => C!ConsoleInv
<1> SUFFICES ASSUME C!Init PROVE C!ConsoleInv
  OBVIOUS
<1>1. /\ csource \in C!Hashes /\ cbase = BaseRecord /\ ccentral = CentralIndex
      /\ ccache = CentralIndex /\ cfile = C!Plan(CentralIndex)
      /\ cpeer = C!KindsOf(CentralIndex)
      /\ ctab = [t \in Tabs |-> C!NoFlow(C!KindsOf(CentralIndex), "nothing")]
      /\ cjob = [t \in Tabs |-> C!NoJob]
      /\ cknown = [s \in Skills |-> {Absent, cbase[s], ccentral[s]}]
      /\ ctold = {s \in Skills : csource[s] \in cknown[s]}
      /\ ccounts = [flows |-> 0, edits |-> 0, pushes |-> 0, failures |-> 0]
      /\ {CentralIndex, BaseRecord} \subseteq C!Hashes
  BY ConsoleAssumption DEF C!Init
<1>2. \A s \in Skills : BaseRecord[s] \in C!Content /\ CentralIndex[s] \in C!Content
  BY <1>1 DEF C!Hashes
<1>3. /\ C!Plan(CentralIndex) \in [Skills -> C!Item] /\ C!KindsOf(CentralIndex) \in C!Queue
      /\ \A s \in Skills : C!KindsOf(CentralIndex)[s] = "none" =>
            csource[s] \in {Absent, cbase[s], CentralIndex[s]}
  <2>1. \A s \in Skills : /\ cbase[s] \in C!Content /\ csource[s] \in C!Content
                          /\ CentralIndex[s] \in C!Content
    BY <1>1 DEF C!Hashes
  <2>2. \A s \in Skills : /\ C!ItemOf(s, csource, CentralIndex) \in C!Item
                          /\ C!ItemOf(s, csource, CentralIndex).kind \in C!Kinds
    BY <2>1 DEF C!ItemOf, C!Item, C!Kinds
  <2>3. ASSUME NEW s \in Skills, C!ItemOf(s, csource, CentralIndex).kind = "none"
        PROVE  csource[s] \in {Absent, cbase[s], CentralIndex[s]}
    <3>1. C!Classify(cbase[s], csource[s], CentralIndex[s], FALSE) \notin
              {"push", "local_new", "conflict", "local_deleted", "remote_deleted"}
      BY <2>3 DEF C!ItemOf
    <3> QED
      BY <3>1, UnblockedIsKnown
  <2>4. \A s \in Skills : /\ C!Plan(CentralIndex)[s] = C!ItemOf(s, csource, CentralIndex)
                          /\ C!KindsOf(CentralIndex)[s] = C!ItemOf(s, csource, CentralIndex).kind
    BY DEF C!Plan, C!KindsOf
  <2> QED
    BY <2>2, <2>3, <2>4 DEF C!Plan, C!KindsOf, C!Queue
<1>4. WorldOK
  <2>1. cknown \in [Skills -> SUBSET C!Content]
    BY <1>1, <1>2 DEF C!Content
  <2>2. /\ cpeer \in C!Queue /\ ctold \subseteq Skills
        /\ \A s \in Skills : cpeer[s] = "none" => s \in ctold
    BY <1>1, <1>3
  <2> QED
    BY <1>1, <1>3, <2>1, <2>2 DEF WorldOK
<1>5. TabsTyped
  BY <1>1, <1>3, ConsoleStart DEF TabsTyped
<1>6. ASSUME NEW t \in Tabs PROVE TabOK(t)
  <2>1. /\ cjob[t] = C!NoJob /\ C!NoJob.step = "idle" /\ ~ C!NoJob.orphan
        /\ ctab[t].step = "idle" /\ ctab[t].said = "nothing"
    BY <1>1, <1>3, ConsoleStart
  <2> QED
    BY <2>1 DEF TabOK
<1> QED
  BY <1>4, <1>5, <1>6, ConsoleParts

\* The console in order at every step: what did not change since a script had it
\* reported is what the operator confirmed, and whatever a base record lists was
\* central's once.
THEOREM ConsoleInvariance == ServiceSpec => []C!ConsoleInv
<1>1. C!ConsoleInv /\ [C!Next]_cvars => C!ConsoleInv'
  <2> SUFFICES ASSUME C!ConsoleInv, [C!Next]_cvars PROVE C!ConsoleInv'
    OBVIOUS
  <2>1. WorldOK' /\ TabsTyped' /\ \A t \in Tabs : TabOK(t)'
    BY WorldNext, TabsNext
  <2>2. (WorldOK /\ TabsTyped /\ \A t \in Tabs : TabOK(t))'
    BY <2>1
  <2>3. (C!ConsoleInv <=> WorldOK /\ TabsTyped /\ \A t \in Tabs : TabOK(t))'
    BY ConsoleParts, PTL
  <2> QED
    BY <2>2, <2>3
<1>2. C!Spec => C!Init /\ [][C!Next]_cvars
  BY DEF C!Spec, C!rvars, cvars
<1> QED
  BY <1>1, <1>2, ConsoleInit, PTL DEF ServiceSpec

\* Only one step saves.
LEMMA SavingIsPut ==
    ASSUME C!ConsoleInv, [C!Next]_cvars, NEW t \in Tabs,
           cjob[t].step = "put", cjob'[t].step = "record"
    PROVE  ccentral' = cjob[t].hash
<1>1. /\ TabsTyped /\ cjob \in [Tabs -> C!Job] /\ \A u \in Tabs : cjob[u] \in C!Job
  BY ConsoleParts DEF TabsTyped
<1>2. ASSUME ScriptStays(t) PROVE FALSE
  BY <1>2 DEF ScriptStays
<1>3. ASSUME NEW u \in Tabs, u # t, cjob'[t] = cjob[t] PROVE FALSE
  BY <1>3
<1>4. ~ UNCHANGED cvars
  BY DEF cvars
<1>5. ASSUME \/ \E s \in Skills, v \in ConsoleVersions : C!Edit(s, v) \/ C!OthersPush(s, v)
             \/ C!DaemonCycle
      PROVE  FALSE
  <2>1. C!Moved(cjob) \/ UNCHANGED cjob
    BY <1>5 DEF C!Edit, C!OthersPush, C!DaemonCycle
  <2> QED
    BY <1>1, <2>1, ScriptsAreMoved
<1>6. ASSUME NEW u \in Tabs, C!Apply(u) PROVE FALSE
  BY <1>2, <1>6, ApplyGoes
<1>7. ASSUME NEW u \in Tabs, u # t, Fine(u) PROVE FALSE
  BY <1>7 DEF Fine, Alone
<1>8. ASSUME PageActs(t) PROVE FALSE
  <2>1. UNCHANGED cjob \/ \E flow, ids, dry : C!Request(t, flow, ids, dry)
    BY <1>8 DEF PageActs, C!Look, C!Cancel, C!Confirm, C!AskAgain, C!ReadAgain, C!Check
  <2>2. ASSUME NEW flow, NEW ids, NEW dry, C!Request(t, flow, ids, dry) PROVE FALSE
    <3>1. cjob'[t].step = C!FirstStep(flow)
      BY <1>1, <2>2, ConsoleStart DEF C!Request, C!Job
    <3> QED
      BY <3>1 DEF C!FirstStep
  <2> QED
    BY <2>1, <2>2
<1>9. ASSUME ScriptActs(t), ~ C!Put(t) PROVE FALSE
  <2>1. C!TimesOut(t)
    BY <1>9, <1>6 DEF ScriptActs, C!Report, C!Filter, C!CheckReport, C!Verify, C!Merge,
       C!Record, C!Stage, C!Tell
  <2>2. cjob'[t].step \in {cjob[t].step, C!NoJob.step}
    <3> DEFINE yes == TRUE
               runs == /\ ~ cjob[t].dry
                       /\ cjob[t].step \in {"check", "verify", "merge", "put", "record", "apply"}
    <3>1. cjob' = [cjob EXCEPT ![t] = IF runs THEN [@ EXCEPT !.orphan = yes] ELSE C!NoJob]
      BY <2>1 DEF C!TimesOut
    <3> HIDE DEF yes, runs
    <3>2. cjob'[t] = IF runs THEN [cjob[t] EXCEPT !.orphan = yes] ELSE C!NoJob
      BY <1>1, <3>1, Zenon
    <3>3. [cjob[t] EXCEPT !.orphan = yes].step = cjob[t].step
      BY <1>1, Zenon DEF C!Job
    <3> QED
      BY <3>2, <3>3, Zenon
  <2> QED
    BY <2>2, ConsoleStart
<1> QED
  BY <1>4, <1>5, <1>6, <1>7, <1>8, <1>9, ConsoleSides, PageGoes, ScriptsGo DEF C!Put

LEMMA SavesConfirmed ==
    ASSUME C!ConsoleInv, [C!Next]_cvars
    PROVE  \A t \in Tabs : C!Saves(t) => \A s \in cjob[t].ids \ cjob[t].late :
              ccentral'[s] = ctab[t].preview[s]
<1> SUFFICES ASSUME NEW t \in Tabs, C!Saves(t), NEW s \in cjob[t].ids \ cjob[t].late
             PROVE  ccentral'[s] = ctab[t].preview[s]
  OBVIOUS
<1>1. TabOK(t) /\ cjob[t].dry \in BOOLEAN
  BY ConsoleParts, TabIsTyped
<1>2. /\ cjob[t].step = "put" /\ cjob'[t].step = "record" /\ cjob[t].flow = "save"
      /\ ~ cjob[t].orphan
  BY DEF C!Saves
<1>3. ccentral' = cjob[t].hash
  BY <1>2, SavingIsPut
<1> QED
  BY <1>1, <1>2, <1>3 DEF TabOK

\* The console keeps its word: what it saves is what the operator confirmed, but for
\* what changed since the script had it reported, and when it tells that nothing is left
\* to confirm the device held no version that central never had; after any number of
\* flows, edits, pushes, timeouts and failed reads, with tabs that rewrite one report.
THEOREM ConsoleKeepsWordEver == ServiceSpec => ConsoleKeepsWord
<1>1. C!ConsoleInv => C!DoneMeansShared
  BY DEF C!ConsoleInv
<1>2. C!ConsoleInv /\ [C!Next]_cvars =>
        [\A t \in Tabs : C!Saves(t) => \A s \in cjob[t].ids \ cjob[t].late :
              ccentral'[s] = ctab[t].preview[s]]_cvars
  BY SavesConfirmed
<1>3. C!SavedAsConfirmed <=>
        [][\A t \in Tabs : C!Saves(t) => \A s \in cjob[t].ids \ cjob[t].late :
              ccentral'[s] = ctab[t].preview[s]]_cvars
  BY DEF C!SavedAsConfirmed, C!rvars, cvars
<1>4. C!Spec => [][C!Next]_cvars
  BY DEF C!Spec, C!rvars, cvars
<1> QED
  BY <1>1, <1>2, <1>3, <1>4, ConsoleInvariance, PTL DEF ServiceSpec, ConsoleKeepsWord

-----------------------------------------------------------------------------
(* dashboard.py, monitor.py *)

LEMMA PipelineStart ==
    /\ Absent \notin P!Payload /\ Pending \notin P!Payload /\ Raised \notin P!Payload
    /\ Pending # Raised
    /\ \A f \in [id: Nat, result: P!Result] : f # Absent
    /\ \A x \in P!Report : x # Absent
    /\ \A x \in [Devices -> P!Report \cup {P!Unread}] : x # Absent
    /\ MaxPolled \in Nat /\ MaxIndexed \in Nat /\ Retries \in Nat \ {0}
    /\ PollInterval \in Nat /\ Threshold \in Nat
    /\ Absent \notin Nat /\ 0 \in P!Times /\ 0 \in P!SnapshotIds
<1>1. 0 \in P!Times /\ 0 \in P!SnapshotIds
  BY PipelineAssumption DEF P!Times, P!SnapshotIds
<1> QED
  BY <1>1, PipelineAssumption

\* What a build reads, makes of it and leaves in the cache is of its kind.
LEMMA BuildsAreTyped ==
    ASSUME P!PipelineTypeOK
    PROVE  /\ \A lost : P!PeersSeen(lost) \in [Devices -> P!Report \cup {P!Unread}]
           /\ \A b \in P!Builders, snap \in P!SnapshotIds \cup {Absent} :
                 pbuild[b].step = "snapshot" => P!Summary(b, snap) \in P!Payload
<1>1. \A lost : P!PeersSeen(lost) \in [Devices -> P!Report \cup {P!Unread}]
  BY DEF P!PipelineTypeOK, P!PeersSeen
<1>2. ASSUME NEW b \in P!Builders, NEW snap \in P!SnapshotIds \cup {Absent},
             pbuild[b].step = "snapshot"
      PROVE  P!Summary(b, snap) \in P!Payload
  <2>1. pbuild[b].peers \in [Devices -> P!Report \cup {P!Unread}] /\ pnow \in P!Times
    BY <1>2 DEF P!PipelineTypeOK, P!Build
  <2>2. [d \in Devices |-> P!Unread] \in [Devices -> P!Report \cup {P!Unread}]
    OBVIOUS
  <2> QED
    BY <2>1, <2>2 DEF P!Summary, P!Payload
<1> QED
  BY <1>1, <1>2

LEMMA MarkedIsTyped ==
    ASSUME P!PipelineTypeOK
    PROVE  [pcache EXCEPT !.error = TRUE] \in P!Cache
<1> DEFINE yes == TRUE
<1>1. yes \in BOOLEAN
  OBVIOUS
<1> HIDE DEF yes
<1>2. [pcache EXCEPT !.error = yes] \in P!Cache
  BY <1>1, Zenon DEF P!PipelineTypeOK, P!Cache
<1> QED
  BY <1>2 DEF yes

LEMMA StoredIsTyped ==
    ASSUME P!PipelineTypeOK, NEW payload \in P!Payload
    PROVE  P!Stored(payload) \in P!Cache
BY DEF P!PipelineTypeOK, P!Stored, P!Cache

LEMMA ConsumedIsTyped ==
    ASSUME P!PipelineTypeOK
    PROVE  /\ P!Consumed \in P!Cache /\ P!AfterConsumed \in P!Future
           /\ P!Good(pinflight) => pinflight.result \in P!Payload
           /\ \A c \in P!Clients : P!Good(pwait[c]) => pwait[c].result \in P!Payload
<1>1. \A f \in P!Future : P!Good(f) => f.result \in P!Payload
  BY DEF P!Good, P!Done, P!Future, P!Result
<1>2. pinflight \in P!Future /\ pcache \in P!Cache /\ \A c \in P!Clients : pwait[c] \in P!Future
  BY DEF P!PipelineTypeOK
<1>3. P!AfterConsumed \in P!Future
  BY <1>2 DEF P!AfterConsumed, P!Future
<1>4. P!Consumed \in P!Cache
  BY <1>1, <1>2, MarkedIsTyped, StoredIsTyped DEF P!Consumed
<1> QED
  BY <1>1, <1>2, <1>3, <1>4

LEMMA CountIsTyped ==
    ASSUME P!PipelineTypeOK, NEW kind \in {"reports", "pushes", "forced", "failures"},
           NEW max, P!Count(kind, max)
    PROVE  /\ pcounts' \in P!Counts
           /\ pcounts'.pushes = IF kind = "pushes" THEN pcounts.pushes + 1
                                ELSE pcounts.pushes
           /\ pcounts[kind] < max
<1>1. pcounts \in P!Counts /\ pcounts' = [pcounts EXCEPT ![kind] = pcounts[kind] + 1]
  BY DEF P!PipelineTypeOK, P!Count
<1>2. pcounts[kind] < max
  BY DEF P!Count
<1>3. CASE kind = "reports"
  BY <1>1, <1>2, <1>3 DEF P!Counts
<1>4. CASE kind = "pushes"
  BY <1>1, <1>2, <1>4 DEF P!Counts
<1>5. CASE kind = "forced"
  BY <1>1, <1>2, <1>5 DEF P!Counts
<1>6. CASE kind = "failures"
  BY <1>1, <1>2, <1>6 DEF P!Counts
<1> QED
  BY <1>3, <1>4, <1>5, <1>6

\* With nothing queued, the four numbers leave a new one for a refresh.
LEMMA NewIdIsNew ==
    ASSUME P!PipelineTypeOK, pqueue = <<>>
    PROVE  /\ P!NewId \in 1..4
           /\ \A c \in P!Clients : pwait[c] = Absent \/ pwait[c].id # P!NewId
<1> DEFINE New(i) == /\ \A n \in DOMAIN pqueue : pqueue[n] # i
                     /\ \A c \in P!Clients : pwait[c] = Absent \/ pwait[c].id # i
<1>1. DOMAIN pqueue = {}
  OBVIOUS
<1>2. \E i \in 1..4 : \A c \in P!Clients : pwait[c] = Absent \/ pwait[c].id # i
  BY DEF P!Clients
<1>3. \E i \in 1..4 : New(i)
  BY <1>1, <1>2
<1>4. P!NewId = CHOOSE i \in 1..4 : New(i)
  BY DEF P!NewId
<1> HIDE DEF New
<1>5. P!NewId \in 1..4 /\ New(P!NewId)
  BY <1>3, <1>4
<1> QED
  BY <1>5 DEF New

LEMMA PipelineInit == P!Init => P!PipelineInv
<1> SUFFICES ASSUME P!Init PROVE P!PipelineInv
  OBVIOUS
<1> USE PipelineStart
<1>1. pcache \in P!Cache /\ P!NoAnswer \in P!Answer
  BY DEF P!Init, P!Cache, P!NoAnswer, P!Answer
<1>2. P!Idle \in P!Build /\ P!Idle.step = "idle"
  BY DEF P!Idle, P!Build
<1>3. preport \in [Devices -> P!Report \cup {Absent}]
  BY DEF P!Init, P!Report, P!Healths
<1>4. pmonitor \in P!Monitor
  BY DEF P!Init, P!Monitor
<1>5. pcounts \in P!Counts /\ pcanon \in [snap: P!SnapshotIds, at: P!Times] /\ pcanon.snap = pcounts.pushes
  BY DEF P!Init, P!Counts
<1>6. pheld \in [snap: P!SnapshotIds \cup {Absent}, at: P!Times]
  BY DEF P!Init
<1>7. pwait \in [P!Clients -> P!Future] /\ pinflight \in P!Future /\ pbuild \in [P!Builders -> P!Build]
  BY <1>2 DEF P!Init, P!Future
<1>8. P!PipelineTypeOK
  BY <1>1, <1>2, <1>3, <1>4, <1>5, <1>6, <1>7
     DEF P!Init, P!PipelineTypeOK, P!NoAnswer, P!Builders
<1>9. P!QueueIsKept
  BY DEF P!Init, P!QueueIsKept, P!IsPending, P!Clients, P!Builders
<1>10. P!PollsInTime
  BY DEF P!Init, P!PollsInTime
<1> QED
  BY <1>8, <1>9, <1>10 DEF P!PipelineInv

LEMMA AnsweredIsTyped ==
    ASSUME P!PipelineTypeOK, NEW c, NEW state \in {"fresh", "stale", "miss", "error"},
           NEW payload \in P!Payload \cup {Absent},
           state \in {"fresh", "stale"} <=> payload \in P!Payload,
           P!Answered(c, state, payload)
    PROVE  /\ panswer' \in P!Answer
           /\ panswer'.state \in {"fresh", "stale"} <=> panswer'.payload \in P!Payload
<1>1. P!Suspect(pcache') \in BOOLEAN
  BY DEF P!Suspect
<1>2. [state |-> state, payload |-> payload, suspect |-> P!Suspect(pcache')] \in P!Answer
  BY <1>1, Zenon DEF P!Answer
<1>3. CASE c # "monitor"
  BY <1>3 DEF P!Answered, P!PipelineTypeOK
<1>4. CASE c = "monitor"
  <2>1. panswer' = [state |-> state, payload |-> payload, suspect |-> P!Suspect(pcache')]
    BY <1>4 DEF P!Answered
  <2>2. panswer'.state = state /\ panswer'.payload = payload
    BY <2>1
  <2> QED
    BY <1>2, <2>1, <2>2
<1> QED
  BY <1>3, <1>4

\* What a request leaves queued: the refresh that was pending, or a new one.
LEMMA OneIsEnsured ==
    ASSUME P!PipelineTypeOK, P!QueueIsKept, P!Ensured(P!AfterConsumed)
    PROVE  /\ pinflight' \in P!Future /\ P!IsPending(pinflight')
           /\ pqueue' \in Seq(Nat) /\ pqueue' = <<pinflight'.id>>
           /\ \/ P!IsPending(pinflight) /\ pinflight' = pinflight /\ pqueue' = pqueue
              \/ /\ ~ P!IsPending(pinflight) /\ pqueue = <<>>
                 /\ \A c \in P!Clients : pwait[c] = Absent \/ pwait[c].id # pinflight'.id
<1> USE PipelineStart
<1>1. CASE P!IsPending(pinflight)
  <2>1. P!AfterConsumed = pinflight /\ ~ P!Done(pinflight) /\ pinflight # Absent
    BY <1>1 DEF P!AfterConsumed, P!Done, P!IsPending
  <2>2. pinflight' = pinflight /\ pqueue' = pqueue
    BY <2>1 DEF P!Ensured
  <2> QED
    BY <1>1, <2>2 DEF P!QueueIsKept, P!PipelineTypeOK, P!IsPending
<1>2. CASE ~ P!IsPending(pinflight)
  <2>1. P!AfterConsumed = Absent /\ pqueue = <<>>
    BY <1>2 DEF P!AfterConsumed, P!Done, P!IsPending, P!QueueIsKept
  <2>2. pinflight' = [id |-> P!NewId, result |-> Pending] /\ pqueue' = Append(pqueue, P!NewId)
    BY <2>1 DEF P!Ensured
  <2>3. P!NewId \in 1..4 /\ \A c \in P!Clients : pwait[c] = Absent \/ pwait[c].id # P!NewId
    BY <2>1, NewIdIsNew
  <2>4. pinflight' \in [id: Nat, result: P!Result] /\ pinflight'.id = P!NewId
        /\ pinflight'.result = Pending
    BY <2>2, <2>3 DEF P!Result
  <2>5. pqueue' = <<P!NewId>> /\ pqueue' \in Seq(Nat)
    BY <2>1, <2>2, <2>3
  <2> QED
    BY <1>2, <2>1, <2>3, <2>4, <2>5 DEF P!Future, P!IsPending
<1> QED
  BY <1>1, <1>2

\* The end of a build, and what it leaves of the queue.
LEMMA FinishIsTyped ==
    ASSUME P!PipelineTypeOK, P!QueueIsKept, NEW b \in P!Builders,
           pbuild[b].step = "snapshot", NEW result \in P!Payload \cup {Raised},
           P!Finish(b, result)
    PROVE  /\ pbuild' = [pbuild EXCEPT ![b] = P!Idle] /\ pbuild' \in [P!Builders -> P!Build]
           /\ pinflight' \in P!Future /\ pwait' \in [P!Clients -> P!Future]
           /\ pqueue' \in Seq(Nat) /\ pcache' \in P!Cache
           /\ b = "background" => pqueue = <<pbuild[b].id>> /\ pqueue' = <<>>
<1> USE PipelineStart
<1>1. pbuild' = [pbuild EXCEPT ![b] = P!Idle] /\ P!Idle \in P!Build
  BY DEF P!Finish, P!Idle, P!Build
<1>2. pbuild' \in [P!Builders -> P!Build]
  BY <1>1 DEF P!PipelineTypeOK
<1>3. CASE b = "background"
  <2>1. pbuild[b] # P!Idle
    BY DEF P!Idle
  <2>2. pqueue = <<pbuild[b].id>> /\ pbuild[b].id \in Nat
    BY <1>3, <2>1 DEF P!QueueIsKept, P!PipelineTypeOK, P!Build
  <2>3. pqueue' = <<>> /\ pcache' = pcache
    BY <1>3, <2>2 DEF P!Finish
  <2>4. \A f \in P!Future : P!Resolved(f, b, result) \in P!Future
    BY DEF P!Resolved, P!Future, P!Result
  <2>5. pinflight' \in P!Future /\ pwait' \in [P!Clients -> P!Future]
    BY <1>3, <2>4 DEF P!Finish, P!PipelineTypeOK
  <2> QED
    BY <1>1, <1>2, <2>2, <2>3, <2>5 DEF P!PipelineTypeOK
<1>4. CASE b # "background"
  <2>1. pqueue' = pqueue /\ pwait' = pwait /\ pinflight' = P!AfterConsumed
    BY <1>4 DEF P!Finish
  <2>2. pcache' \in P!Cache
    BY <1>4, MarkedIsTyped, StoredIsTyped DEF P!Finish
  <2> QED
    BY <1>1, <1>2, <1>4, <2>1, <2>2, ConsumedIsTyped DEF P!PipelineTypeOK
<1> QED
  BY <1>3, <1>4

LEMMA SleptIsTyped ==
    ASSUME pmonitor \in P!Monitor, pnow \in P!Times
    PROVE  /\ P!Slept \in P!Monitor /\ P!Slept.due = pnow + PollInterval
           /\ P!Slept.step = "idle" /\ P!Slept.heard = pmonitor.heard
<1>1. pnow + PollInterval \in Nat /\ 0 \in 0..Retries
  BY PipelineStart DEF P!Times
<1>2. P!Slept = [pmonitor EXCEPT !.step = "idle", !.attempt = 0, !.due = pnow + PollInterval]
  BY DEF P!Slept
<1> QED
  BY <1>1, <1>2 DEF P!Monitor

LEMMA PipelineTypeNext ==
    P!PipelineTypeOK /\ P!QueueIsKept /\ [P!Next]_pvars => P!PipelineTypeOK'
<1> SUFFICES ASSUME P!PipelineTypeOK, P!QueueIsKept, [P!Next]_pvars
             PROVE  P!PipelineTypeOK'
  OBVIOUS
<1>0. P!NoAnswer \in P!Answer /\ P!NoAnswer.state = "none" /\ P!NoAnswer.payload = Absent
  BY DEF P!NoAnswer, P!Answer
<1>1. ASSUME NEW d \in Devices, NEW h \in P!Healths, NEW n \in 0..pcanon.snap, P!Publish(d, h, n)
      PROVE  P!PipelineTypeOK'
  <2>1. pcounts' \in P!Counts /\ pcounts'.pushes = pcounts.pushes
    BY <1>1, CountIsTyped DEF P!Publish
  <2>2. [health |-> h, snap |-> n, at |-> pnow] \in P!Report
    BY PipelineStart DEF P!PipelineTypeOK, P!Report, P!SnapshotIds, P!Counts
  <2>3. preport' \in [Devices -> P!Report \cup {Absent}]
    BY <1>1, <2>2 DEF P!PipelineTypeOK, P!Publish
  <2> QED
    BY <1>1, <2>1, <2>3 DEF P!PipelineTypeOK, P!Publish
<1>2. CASE P!Push
  <2>1. pcounts' \in P!Counts /\ pcounts'.pushes = pcounts.pushes + 1
        /\ pcounts["pushes"] < MaxIndexed
    BY <1>2, CountIsTyped DEF P!Push
  <2>2. pcanon' \in [snap: P!SnapshotIds, at: P!Times] /\ pcanon'.snap = pcounts'.pushes
    BY <1>2, <2>1, PipelineStart DEF P!PipelineTypeOK, P!Push, P!SnapshotIds, P!Counts
  <2> QED
    BY <1>2, <2>1, <2>2 DEF P!PipelineTypeOK, P!Push
<1>3. CASE P!Tick
  <2>1. pnow' \in P!Times
    BY <1>3, PipelineStart DEF P!Tick, P!Times, P!PipelineTypeOK
  <2> QED
    BY <1>3, <2>1 DEF P!PipelineTypeOK, P!Tick
<1>4. ASSUME NEW c \in P!Clients, P!GetCached(c) PROVE P!PipelineTypeOK'
  <2>1. P!Consumed \in P!Cache /\ P!AfterConsumed \in P!Future
    BY ConsumedIsTyped
  <2>2. pqueue' \in Seq(Nat) /\ pinflight' \in P!Future
    BY <1>4, <2>1, OneIsEnsured DEF P!GetCached, P!PipelineTypeOK
  <2>3. PICK state \in {"stale", "fresh"} : P!Answered(c, state, P!Consumed.payload)
    BY <1>4 DEF P!GetCached
  <2>4. P!Consumed.payload \in P!Payload
    BY <1>4, <2>1 DEF P!GetCached, P!Cache
  <2>5. /\ panswer' \in P!Answer
        /\ panswer'.state \in {"fresh", "stale"} <=> panswer'.payload \in P!Payload
    BY <2>3, <2>4, AnsweredIsTyped
  <2> QED
    BY <1>4, <2>1, <2>2, <2>5 DEF P!PipelineTypeOK, P!GetCached
<1>5. ASSUME NEW c \in P!Clients, P!GetAndWait(c) PROVE P!PipelineTypeOK'
  <2>1. pqueue' \in Seq(Nat) /\ pinflight' \in P!Future /\ P!Consumed \in P!Cache
    BY <1>5, ConsumedIsTyped, OneIsEnsured DEF P!GetAndWait
  <2>2. pwait' \in [P!Clients -> P!Future]
    BY <1>5, <2>1 DEF P!GetAndWait, P!PipelineTypeOK
  <2> QED
    BY <1>5, <2>1, <2>2 DEF P!PipelineTypeOK, P!GetAndWait
<1>6. ASSUME NEW c \in P!Clients, P!WaitTimesOut(c) PROVE P!PipelineTypeOK'
  <2>1. pcache' \in P!Cache /\ pinflight' = pinflight
    BY <1>6, MarkedIsTyped DEF P!WaitTimesOut, P!AfterTimeout
  <2>2. /\ panswer' \in P!Answer
        /\ panswer'.state \in {"fresh", "stale"} <=> panswer'.payload \in P!Payload
    BY <1>6, PipelineStart, AnsweredIsTyped DEF P!WaitTimesOut
  <2>3. pwait' \in [P!Clients -> P!Future]
    BY <1>6 DEF P!WaitTimesOut, P!PipelineTypeOK, P!Future
  <2> QED
    BY <1>6, <2>1, <2>2, <2>3 DEF P!PipelineTypeOK, P!WaitTimesOut
<1>7. ASSUME NEW c \in P!Clients, P!WaitEnds(c) PROVE P!PipelineTypeOK'
  <2>1. ASSUME P!Good(pwait[c])
        PROVE  /\ pcache' \in P!Cache /\ panswer' \in P!Answer
               /\ panswer'.state \in {"fresh", "stale"} <=> panswer'.payload \in P!Payload
    <3>1. pwait[c].result \in P!Payload
      BY <2>1, ConsumedIsTyped
    <3>2. pcache' \in P!Cache /\ P!Answered(c, "fresh", pwait[c].result)
      BY <1>7, <2>1, <3>1, StoredIsTyped DEF P!WaitEnds
    <3> QED
      BY <3>1, <3>2, AnsweredIsTyped
  <2>2. ASSUME ~ P!Good(pwait[c])
        PROVE  /\ pcache' \in P!Cache /\ panswer' \in P!Answer
               /\ panswer'.state \in {"fresh", "stale"} <=> panswer'.payload \in P!Payload
    <3>1. pcache' \in P!Cache /\ P!Answered(c, "error", Absent)
      BY <1>7, <2>2, MarkedIsTyped DEF P!WaitEnds
    <3> QED
      BY <3>1, PipelineStart, AnsweredIsTyped
  <2>3. /\ pcache' \in P!Cache /\ panswer' \in P!Answer
        /\ panswer'.state \in {"fresh", "stale"} <=> panswer'.payload \in P!Payload
    BY <2>1, <2>2
  <2>4. pwait' \in [P!Clients -> P!Future] /\ pinflight' \in P!Future
    BY <1>7 DEF P!WaitEnds, P!PipelineTypeOK, P!Future
  <2> QED
    BY <1>7, <2>3, <2>4 DEF P!PipelineTypeOK, P!WaitEnds
<1>8. CASE P!Healthz
  BY <1>8, ConsumedIsTyped DEF P!PipelineTypeOK, P!Healthz, P!Future
<1>9. CASE P!StartRefresh
  <2>1. Head(pqueue) \in Nat /\ pnow \in P!Times
    BY <1>9 DEF P!StartRefresh, P!PipelineTypeOK
  <2>2. [P!Idle EXCEPT !.step = "peers", !.id = Head(pqueue), !.begun = pnow] \in P!Build
    BY <2>1 DEF P!Idle, P!Build
  <2>3. [P!Idle EXCEPT !.step = "peers", !.id = Head(pqueue), !.begun = pnow].step = "peers"
    BY DEF P!Idle
  <2> QED
    BY <1>9, <2>2, <2>3 DEF P!PipelineTypeOK, P!StartRefresh, P!Builders
<1>10. CASE P!Force
  <2>1. [P!Idle EXCEPT !.step = "peers", !.begun = pnow] \in P!Build
    BY DEF P!Idle, P!Build, P!PipelineTypeOK
  <2>2. [P!Idle EXCEPT !.step = "peers", !.begun = pnow].step = "peers"
    BY DEF P!Idle
  <2>3. pcounts' \in P!Counts /\ pcounts'.pushes = pcounts.pushes
    BY <1>10, CountIsTyped DEF P!Force
  <2>4. pheld' \in [snap: P!SnapshotIds \cup {Absent}, at: P!Times]
    BY <1>10 DEF P!Force, P!PipelineTypeOK
  <2> QED
    BY <1>10, <2>1, <2>2, <2>3, <2>4 DEF P!PipelineTypeOK, P!Force, P!Builders
<1>11. ASSUME NEW b \in P!Builders, NEW lost \in SUBSET Devices, P!ReadPeers(b, lost)
       PROVE  P!PipelineTypeOK'
  <2>1. P!PeersSeen(lost) \in [Devices -> P!Report \cup {P!Unread}]
    BY BuildsAreTyped
  <2>2. pbuild' \in [P!Builders -> P!Build] /\ pbuild'[b].peers # Absent
    <3>1. pbuild[b] \in P!Build
      BY DEF P!PipelineTypeOK
    <3>2. [pbuild[b] EXCEPT !.step = "snapshot", !.peers = P!PeersSeen(lost)] \in P!Build
      BY <2>1, <3>1 DEF P!Build
    <3>3. pbuild' = [pbuild EXCEPT ![b] = [pbuild[b] EXCEPT !.step = "snapshot",
                                                            !.peers = P!PeersSeen(lost)]]
      BY <1>11 DEF P!ReadPeers
    <3>4. [pbuild[b] EXCEPT !.step = "snapshot", !.peers = P!PeersSeen(lost)].peers # Absent
      BY <2>1, <3>1, PipelineStart DEF P!Build
    <3> QED
      BY <3>2, <3>3, <3>4 DEF P!PipelineTypeOK
  <2>3. \A x \in P!Builders : x # b => pbuild'[x] = pbuild[x]
    BY <1>11 DEF P!ReadPeers, P!PipelineTypeOK
  <2>4. pcounts' \in P!Counts /\ pcounts'.pushes = pcounts.pushes
    BY <1>11, CountIsTyped DEF P!ReadPeers, P!MayFail, P!PipelineTypeOK
  <2>5. \A x \in P!Builders : pbuild'[x].step = "snapshot" => pbuild'[x].peers # Absent
    BY <2>2, <2>3 DEF P!PipelineTypeOK
  <2> QED
    BY <1>11, <2>2, <2>4, <2>5 DEF P!PipelineTypeOK, P!ReadPeers
<1>12. ASSUME NEW b \in P!Builders, P!BuildEnds(b) \/ P!BuildRaises(b) PROVE P!PipelineTypeOK'
  <2>1. pbuild[b].step = "snapshot"
    BY <1>12 DEF P!BuildEnds, P!BuildRaises
  <2>2. pcanon.snap \in P!SnapshotIds /\ pheld.snap \in P!SnapshotIds \cup {Absent}
    BY DEF P!PipelineTypeOK
  <2>3. \E result \in P!Payload \cup {Raised} : P!Finish(b, result)
    BY <1>12, <2>1, <2>2, BuildsAreTyped DEF P!BuildEnds, P!BuildRaises
  <2>4. /\ pbuild' = [pbuild EXCEPT ![b] = P!Idle] /\ pbuild' \in [P!Builders -> P!Build]
        /\ pinflight' \in P!Future /\ pwait' \in [P!Clients -> P!Future]
        /\ pqueue' \in Seq(Nat) /\ pcache' \in P!Cache
        /\ UNCHANGED <<pnow, pcanon, preport, pmonitor, panswer>>
    BY <2>1, <2>3, FinishIsTyped DEF P!Finish
  <2>5. pcounts' \in P!Counts /\ pcounts'.pushes = pcounts.pushes
    BY <1>12, CountIsTyped DEF P!BuildEnds, P!BuildRaises, P!MayFail, P!PipelineTypeOK
  <2>6. pheld' \in [snap: P!SnapshotIds \cup {Absent}, at: P!Times]
    BY <1>12 DEF P!BuildEnds, P!BuildRaises, P!PipelineTypeOK
  <2>7. \A x \in P!Builders : pbuild'[x].step = "snapshot" => pbuild'[x].peers # Absent
    BY <2>4 DEF P!PipelineTypeOK, P!Idle
  <2> QED
    BY <2>4, <2>5, <2>6, <2>7 DEF P!PipelineTypeOK
<1>13. CASE P!StartPoll
  <2>1. pmonitor \in P!Monitor /\ 1 \in 0..Retries
    BY PipelineStart DEF P!PipelineTypeOK
  <2>2. pmonitor' \in P!Monitor
    BY <1>13, <2>1 DEF P!StartPoll, P!Monitor
  <2> QED
    BY <1>13, <2>2 DEF P!StartPoll, P!PipelineTypeOK
<1>14. CASE P!Heard
  <2>1. pmonitor \in P!Monitor /\ pnow \in P!Times
    BY DEF P!PipelineTypeOK
  <2>2. P!Verdict(panswer) \in {"none", "green", "yellow", "red"}
    BY DEF P!Verdict
  <2>3. P!Slept \in P!Monitor
    BY <2>1, SleptIsTyped
  <2>4. pmonitor' = [P!Slept EXCEPT !.failures = P!AfterSuccess, !.heard = pnow,
                        !.streak = IF @ = P!Settled THEN @ ELSE @ + 1,
                        !.health = P!Verdict(panswer), !.code = "summary"]
    BY <1>14 DEF P!Heard
  <2> DEFINE heard == [P!Slept EXCEPT !.failures = P!AfterSuccess, !.heard = pnow]
  <2>5. heard \in P!Monitor
    BY <2>1, <2>3 DEF P!Monitor, P!AfterSuccess
  <2> DEFINE often == IF heard.streak = P!Settled THEN heard.streak ELSE heard.streak + 1
  <2>6. pmonitor' = [heard EXCEPT !.streak = often,
                        !.health = P!Verdict(panswer), !.code = "summary"]
    BY <2>4
  <2> HIDE DEF heard
  <2>7. often \in Nat
    BY <2>5 DEF P!Monitor
  <2> HIDE DEF often
  <2>8. pmonitor' \in P!Monitor
    BY <2>2, <2>5, <2>6, <2>7 DEF P!Monitor
  <2> QED
    BY <1>0, <1>14, <2>8, PipelineStart DEF P!Heard, P!PipelineTypeOK
<1>15. CASE P!Unheard
  <2>1. pmonitor \in P!Monitor /\ pnow \in P!Times
    BY DEF P!PipelineTypeOK
  <2>2. P!Slept \in P!Monitor
    BY <2>1, SleptIsTyped
  <2>3. pmonitor' \in P!Monitor
    <3>1. CASE pmonitor.attempt < Retries
      <4>1. pmonitor' = [pmonitor EXCEPT !.attempt = @ + 1]
        BY <1>15, <3>1 DEF P!Unheard
      <4> QED
        BY <2>1, <3>1, <4>1, PipelineStart DEF P!Monitor
    <3>2. CASE ~ (pmonitor.attempt < Retries)
      <4> DEFINE failed == pmonitor.failures + 1
      <4>1. failed \in Nat
        BY <2>1 DEF P!Monitor
      <4>2. pmonitor' = [P!Slept EXCEPT !.failures = failed, !.streak = 0,
                             !.health = IF failed >= Threshold THEN "red" ELSE "yellow",
                             !.code = IF failed >= Threshold THEN "fetch_failed"
                                      ELSE "fetch_transient"]
        BY <1>15, <3>2 DEF P!Unheard
      <4> HIDE DEF failed
      <4> QED
        BY <2>2, <4>1, <4>2 DEF P!Monitor
    <3> QED
      BY <3>1, <3>2
  <2>4. pcounts' \in P!Counts /\ pcounts'.pushes = pcounts.pushes
    BY <1>15, CountIsTyped DEF P!Unheard, P!MayFail, P!PipelineTypeOK
  <2> QED
    BY <1>0, <1>15, <2>3, <2>4, PipelineStart DEF P!Unheard, P!PipelineTypeOK
<1>16. CASE UNCHANGED pvars
  BY <1>16 DEF pvars, P!PipelineTypeOK
<1> QED
  BY <1>1, <1>2, <1>3, <1>4, <1>5, <1>6, <1>7, <1>8, <1>9, <1>10, <1>11, <1>12, <1>13,
     <1>14, <1>15, <1>16 DEF P!Next

\* A result that was consumed leaves nothing of the queue to be kept.
LEMMA ConsumedKeepsQueue ==
    ASSUME P!PipelineTypeOK, P!QueueIsKept, pinflight' = P!AfterConsumed,
           pqueue' = pqueue, pwait' = pwait, pbuild'["background"] = pbuild["background"]
    PROVE  P!QueueIsKept'
<1>1. CASE P!IsPending(pinflight)
  <2>1. pinflight' = pinflight
    BY <1>1 DEF P!AfterConsumed, P!Done, P!IsPending
  <2> QED
    BY <2>1 DEF P!QueueIsKept
<1>2. CASE ~ P!IsPending(pinflight)
  <2>1. pinflight' = Absent
    BY <1>2 DEF P!AfterConsumed, P!Done, P!IsPending
  <2>2. pqueue = <<>> /\ \A c \in P!Clients : ~ P!IsPending(pwait[c])
    BY <1>2 DEF P!QueueIsKept
  <2> QED
    BY <2>1, <2>2 DEF P!QueueIsKept, P!IsPending
<1> QED
  BY <1>1, <1>2

LEMMA FinishKeepsQueue ==
    ASSUME P!PipelineTypeOK, P!QueueIsKept, NEW b \in P!Builders,
           pbuild[b].step = "snapshot", NEW result \in P!Payload \cup {Raised},
           P!Finish(b, result)
    PROVE  P!QueueIsKept'
<1>1. CASE b = "background"
  <2> DEFINE id == pbuild[b].id
  <2>1. pqueue = <<id>> /\ pqueue' = <<>> /\ pbuild'["background"] = P!Idle
    BY <1>1, FinishIsTyped DEF P!PipelineTypeOK
  <2>2. P!IsPending(pinflight) /\ pinflight.id = id
    BY <2>1 DEF P!QueueIsKept
  <2>3. pinflight \in [id: Nat, result: P!Result]
    BY <2>2 DEF P!PipelineTypeOK, P!Future, P!IsPending
  <2>4. pinflight' = [pinflight EXCEPT !.result = result]
    BY <1>1, <2>2 DEF P!Finish, P!Resolved, P!IsPending
  <2>5. ~ P!IsPending(pinflight') /\ pinflight'.id = id /\ pinflight'.result = result
    BY <2>2, <2>3, <2>4, PipelineStart DEF P!IsPending
  <2>6. ASSUME NEW c \in P!Clients
        PROVE  /\ P!IsPending(pwait'[c]) => pinflight' = pwait'[c]
               /\ pwait'[c] # Absent /\ pinflight' # Absent /\ pwait'[c].id = pinflight'.id =>
                     pinflight' = pwait'[c]
    <3>1. pwait'[c] = P!Resolved(pwait[c], b, result)
      BY <1>1 DEF P!Finish
    <3>2. CASE pwait[c] = Absent \/ pwait[c].id # id
      <4>1. pwait'[c] = pwait[c] /\ pwait[c] # pinflight
        BY <2>2, <3>1, <3>2 DEF P!Resolved, P!IsPending
      <4> QED
        BY <2>5, <3>2, <4>1 DEF P!QueueIsKept, P!IsPending
    <3>3. CASE pwait[c] # Absent /\ pwait[c].id = id
      <4>1. pinflight = pwait[c]
        BY <2>2, <3>3 DEF P!QueueIsKept, P!IsPending
      <4> QED
        BY <2>4, <3>1, <3>3, <4>1 DEF P!Resolved
    <3> QED
      BY <3>2, <3>3
  <2> QED
    BY <2>1, <2>5, <2>6 DEF P!QueueIsKept
<1>2. CASE b # "background"
  <2>1. pqueue' = pqueue /\ pwait' = pwait /\ pinflight' = P!AfterConsumed
    BY <1>2 DEF P!Finish
  <2>2. pbuild'["background"] = pbuild["background"]
    BY <1>2, FinishIsTyped DEF P!PipelineTypeOK, P!Builders
  <2> QED
    BY <2>1, <2>2, ConsumedKeepsQueue
<1> QED
  BY <1>1, <1>2

LEMMA QueueNext ==
    P!PipelineTypeOK /\ P!QueueIsKept /\ [P!Next]_pvars => P!QueueIsKept'
<1> SUFFICES ASSUME P!PipelineTypeOK, P!QueueIsKept, [P!Next]_pvars
             PROVE  P!QueueIsKept'
  OBVIOUS
<1>1. ASSUME UNCHANGED <<pqueue, pbuild, pinflight, pwait>> PROVE P!QueueIsKept'
  BY <1>1 DEF P!QueueIsKept
<1>2. ASSUME NEW c \in P!Clients, P!GetCached(c) PROVE P!QueueIsKept'
  <2>1. pwait' = pwait /\ pbuild' = pbuild
    BY <1>2 DEF P!GetCached
  <2>2. CASE pinflight' = P!AfterConsumed /\ pqueue' = pqueue
    BY <2>1, <2>2, ConsumedKeepsQueue
  <2>3. CASE P!Ensured(P!AfterConsumed)
    BY <2>1, <2>3, OneIsEnsured DEF P!QueueIsKept, P!IsPending
  <2> QED
    BY <1>2, <2>2, <2>3 DEF P!GetCached
<1>3. ASSUME NEW c \in P!Clients, P!GetAndWait(c) PROVE P!QueueIsKept'
  <2>1. /\ P!IsPending(pinflight') /\ pqueue' = <<pinflight'.id>>
        /\ \/ P!IsPending(pinflight) /\ pinflight' = pinflight /\ pqueue' = pqueue
           \/ /\ ~ P!IsPending(pinflight) /\ pqueue = <<>>
              /\ \A x \in P!Clients : pwait[x] = Absent \/ pwait[x].id # pinflight'.id
    BY <1>3, OneIsEnsured DEF P!GetAndWait
  <2>2. pbuild' = pbuild /\ pwait' = [pwait EXCEPT ![c] = pinflight']
    BY <1>3 DEF P!GetAndWait
  <2>3. \A x \in P!Clients : pwait'[x] = IF x = c THEN pinflight' ELSE pwait[x]
    BY <2>2 DEF P!PipelineTypeOK
  <2>4. pbuild["background"] # P!Idle => pqueue' = <<pbuild["background"].id>>
    BY <2>1 DEF P!QueueIsKept
  <2>5. ASSUME NEW x \in P!Clients
        PROVE  /\ P!IsPending(pwait'[x]) => pinflight' = pwait'[x]
               /\ pwait'[x] # Absent /\ pinflight' # Absent /\ pwait'[x].id = pinflight'.id =>
                     pinflight' = pwait'[x]
    <3>1. CASE x = c
      BY <2>3, <3>1
    <3>2. CASE x # c
      <4>1. pwait'[x] = pwait[x]
        BY <2>3, <3>2
      <4> QED
        BY <2>1, <4>1 DEF P!QueueIsKept, P!IsPending
    <3> QED
      BY <3>1, <3>2
  <2> QED
    BY <2>1, <2>2, <2>4, <2>5 DEF P!QueueIsKept
<1>4. ASSUME NEW c \in P!Clients, P!WaitTimesOut(c) PROVE P!QueueIsKept'
  <2>1. UNCHANGED <<pqueue, pbuild, pinflight>> /\ pwait' = [pwait EXCEPT ![c] = Absent]
    BY <1>4 DEF P!WaitTimesOut, P!AfterTimeout
  <2>2. \A x \in P!Clients : pwait'[x] = pwait[x] \/ pwait'[x] = Absent
    BY <2>1 DEF P!PipelineTypeOK
  <2> QED
    BY <2>1, <2>2 DEF P!QueueIsKept, P!IsPending
<1>5. ASSUME NEW c \in P!Clients, P!WaitEnds(c) PROVE P!QueueIsKept'
  <2>1. UNCHANGED <<pqueue, pbuild>> /\ pwait' = [pwait EXCEPT ![c] = Absent]
        /\ P!Done(pwait[c])
    BY <1>5 DEF P!WaitEnds
  <2>2. \A x \in P!Clients : pwait'[x] = pwait[x] \/ pwait'[x] = Absent
    BY <2>1 DEF P!PipelineTypeOK
  <2>3. CASE pinflight # Absent /\ pinflight.id = pwait[c].id
    <3>1. pinflight' = Absent /\ pinflight = pwait[c] /\ ~ P!IsPending(pinflight)
      BY <1>5, <2>1, <2>3 DEF P!WaitEnds, P!QueueIsKept, P!Done, P!IsPending
    <3>2. pqueue = <<>> /\ \A x \in P!Clients : ~ P!IsPending(pwait[x])
      BY <3>1 DEF P!QueueIsKept
    <3> QED
      BY <2>1, <2>2, <3>1, <3>2 DEF P!QueueIsKept, P!IsPending
  <2>4. CASE ~ (pinflight # Absent /\ pinflight.id = pwait[c].id)
    <3>1. pinflight' = pinflight
      BY <1>5, <2>4 DEF P!WaitEnds
    <3> QED
      BY <2>1, <2>2, <3>1 DEF P!QueueIsKept, P!IsPending
  <2> QED
    BY <2>3, <2>4
<1>6. CASE P!Healthz
  <2>1. P!AfterConsumed = Absent
    BY <1>6 DEF P!Healthz, P!AfterConsumed
  <2> QED
    BY <1>6, <2>1, ConsumedKeepsQueue DEF P!Healthz
<1>7. CASE P!StartRefresh
  <2>1. pbuild'["background"].id = Head(pqueue)
    BY <1>7 DEF P!StartRefresh, P!PipelineTypeOK, P!Builders, P!Idle
  <2>2. pqueue' = pqueue /\ pinflight' = pinflight /\ pwait' = pwait /\ pqueue # <<>>
    BY <1>7 DEF P!StartRefresh
  <2>3. pqueue = <<Head(pqueue)>>
    BY <2>2 DEF P!QueueIsKept
  <2> QED
    BY <2>1, <2>2, <2>3 DEF P!QueueIsKept
<1>8. CASE P!Force
  <2>1. pbuild'["background"] = pbuild["background"]
    BY <1>8 DEF P!Force, P!PipelineTypeOK, P!Builders
  <2> QED
    BY <1>8, <2>1 DEF P!Force, P!QueueIsKept
<1>9. ASSUME NEW b \in P!Builders, NEW lost \in SUBSET Devices, P!ReadPeers(b, lost)
      PROVE  P!QueueIsKept'
  <2>1. pbuild'["background"].id = pbuild["background"].id
    BY <1>9 DEF P!ReadPeers, P!PipelineTypeOK, P!Builders, P!Build
  <2>2. pbuild["background"] = P!Idle => pbuild'["background"] = P!Idle
    BY <1>9 DEF P!ReadPeers, P!PipelineTypeOK, P!Builders, P!Build, P!Idle
  <2> QED
    BY <1>9, <2>1, <2>2 DEF P!ReadPeers, P!QueueIsKept
<1>10. ASSUME NEW b \in P!Builders, P!BuildEnds(b) \/ P!BuildRaises(b) PROVE P!QueueIsKept'
  <2>1. pbuild[b].step = "snapshot"
    BY <1>10 DEF P!BuildEnds, P!BuildRaises
  <2>2. pcanon.snap \in P!SnapshotIds /\ pheld.snap \in P!SnapshotIds \cup {Absent}
    BY DEF P!PipelineTypeOK
  <2>3. \E result \in P!Payload \cup {Raised} : P!Finish(b, result)
    BY <1>10, <2>1, <2>2, BuildsAreTyped DEF P!BuildEnds, P!BuildRaises
  <2> QED
    BY <2>1, <2>3, FinishKeepsQueue
<1>11. ASSUME P!Push \/ P!Tick \/ P!StartPoll \/ P!Heard \/ P!Unheard
       PROVE  UNCHANGED <<pqueue, pbuild, pinflight, pwait>>
  BY <1>11 DEF P!Push, P!Tick, P!StartPoll, P!Heard, P!Unheard
<1>12. ASSUME NEW d \in Devices, NEW h \in P!Healths, NEW n \in 0..pcanon.snap, P!Publish(d, h, n)
       PROVE  UNCHANGED <<pqueue, pbuild, pinflight, pwait>>
  BY <1>12 DEF P!Publish
<1>13. CASE UNCHANGED pvars
  BY <1>1, <1>13 DEF pvars
<1> QED
  BY <1>1, <1>2, <1>3, <1>4, <1>5, <1>6, <1>7, <1>8, <1>9, <1>10, <1>11, <1>12, <1>13
     DEF P!Next

LEMMA PollsNext ==
    P!PipelineTypeOK /\ P!PollsInTime /\ [P!Next]_pvars => P!PollsInTime'
<1> SUFFICES ASSUME P!PipelineTypeOK, P!PollsInTime, [P!Next]_pvars
             PROVE  P!PollsInTime'
  OBVIOUS
<1>0. /\ pmonitor \in P!Monitor /\ pnow \in Nat /\ pmonitor.due \in Nat
      /\ pmonitor.failures \in Nat /\ PollInterval \in Nat
      /\ pmonitor.heard # Absent => pmonitor.heard \in Nat
      /\ pnow # Absent
  BY PipelineStart DEF P!PipelineTypeOK, P!Monitor, P!Times
<1>1. ASSUME UNCHANGED <<pnow, pmonitor>> PROVE P!PollsInTime'
  BY <1>1 DEF P!PollsInTime
<1>2. CASE P!Tick
  BY <1>0, <1>2 DEF P!Tick, P!PollsInTime
<1>3. CASE P!StartPoll
  <2>1. pmonitor'.due = pmonitor.due /\ pmonitor'.heard = pmonitor.heard
        /\ pmonitor'.failures = pmonitor.failures /\ pnow' = pnow /\ pnow = pmonitor.due
    BY <1>0, <1>3 DEF P!StartPoll, P!Monitor
  <2> QED
    BY <1>0, <2>1 DEF P!PollsInTime
<1>4. CASE P!Heard
  <2>1. pmonitor'.due = pnow + PollInterval /\ pmonitor'.heard = pnow
        /\ pmonitor'.failures = 0 /\ pnow' = pnow /\ pmonitor'.step = "idle"
    BY <1>0, <1>4 DEF P!Heard, P!Slept, P!Monitor, P!AfterSuccess
  <2> QED
    BY <1>0, <2>1 DEF P!PollsInTime
<1>5. CASE P!Unheard
  <2>1. CASE pmonitor.attempt < Retries
    <3>1. pmonitor' = [pmonitor EXCEPT !.attempt = @ + 1] /\ pnow' = pnow
      BY <1>5, <2>1 DEF P!Unheard
    <3>2. pmonitor'.due = pmonitor.due /\ pmonitor'.heard = pmonitor.heard
          /\ pmonitor'.failures = pmonitor.failures /\ pmonitor'.step = pmonitor.step
      BY <1>0, <3>1 DEF P!Monitor
    <3> QED
      BY <3>1, <3>2 DEF P!PollsInTime
  <2>2. CASE ~ (pmonitor.attempt < Retries)
    <3>1. pmonitor'.due = pnow + PollInterval /\ pmonitor'.heard = pmonitor.heard
          /\ pmonitor'.failures = pmonitor.failures + 1 /\ pnow' = pnow
          /\ pmonitor'.step = "idle" /\ pmonitor.step = "asking"
      BY <1>0, <1>5, <2>2 DEF P!Unheard, P!Slept, P!Monitor
    <3>2. (pmonitor.failures + 1) * PollInterval + PollInterval
              = (pmonitor'.failures + 1) * PollInterval
      BY <1>0, <3>1
    <3> QED
      BY <1>0, <3>1, <3>2 DEF P!PollsInTime
  <2> QED
    BY <2>1, <2>2
<1>6. ASSUME NEW c \in P!Clients,
             P!GetCached(c) \/ P!GetAndWait(c) \/ P!WaitTimesOut(c) \/ P!WaitEnds(c)
      PROVE  UNCHANGED <<pnow, pmonitor>>
  BY <1>6 DEF P!GetCached, P!GetAndWait, P!WaitTimesOut, P!WaitEnds
<1>7. ASSUME P!Push \/ P!Healthz \/ P!StartRefresh \/ P!Force
      PROVE  UNCHANGED <<pnow, pmonitor>>
  BY <1>7 DEF P!Push, P!Healthz, P!StartRefresh, P!Force
<1>8. ASSUME NEW b \in P!Builders, P!BuildEnds(b) \/ P!BuildRaises(b)
      PROVE  UNCHANGED <<pnow, pmonitor>>
  BY <1>8 DEF P!BuildEnds, P!BuildRaises, P!Finish
<1>9. ASSUME NEW b \in P!Builders, NEW lost \in SUBSET Devices, P!ReadPeers(b, lost)
      PROVE  UNCHANGED <<pnow, pmonitor>>
  BY <1>9 DEF P!ReadPeers
<1>10. ASSUME NEW d \in Devices, NEW h \in P!Healths, NEW n \in 0..pcanon.snap, P!Publish(d, h, n)
       PROVE  UNCHANGED <<pnow, pmonitor>>
  BY <1>10 DEF P!Publish
<1>11. CASE UNCHANGED pvars
  BY <1>1, <1>11 DEF pvars
<1> QED
  BY <1>1, <1>2, <1>3, <1>4, <1>5, <1>6, <1>7, <1>8, <1>9, <1>10, <1>11 DEF P!Next

\* The pipeline's inductive invariant: the one refresh that is queued is the one
\* the cache waits for, and the monitor polled in time since it heard last.
THEOREM PipelineInvariance == ServiceSpec => []P!PipelineInv
<1>1. P!PipelineInv /\ [P!Next]_pvars => P!PipelineInv'
  BY PipelineTypeNext, QueueNext, PollsNext DEF P!PipelineInv
<1>2. ServiceSpec => P!Init /\ [][P!Next]_pvars
  BY DEF ServiceSpec, P!Spec, P!vars, pvars
<1> QED
  BY <1>1, <1>2, PipelineInit, PTL

LEMMA RefreshIsAlone == P!PipelineInv => P!OneRefreshAtATime
<1> SUFFICES ASSUME P!PipelineInv PROVE P!OneRefreshAtATime
  OBVIOUS
<1>1. pqueue = <<>> \/ \E id \in Nat : pqueue = <<id>>
  BY DEF P!PipelineInv, P!QueueIsKept, P!PipelineTypeOK, P!Future, P!IsPending
<1>2. CASE pqueue = <<>>
  <2>1. Len(pqueue) = 0
    BY <1>2
  <2> QED
    BY <2>1 DEF P!OneRefreshAtATime
<1>3. ASSUME NEW id \in Nat, pqueue = <<id>> PROVE P!OneRefreshAtATime
  <2>1. Len(pqueue) = 1
    BY <1>3
  <2> QED
    BY <2>1 DEF P!OneRefreshAtATime
<1> QED
  BY <1>1, <1>2, <1>3

LEMMA AlertsAfterOutage ==
    ASSUME P!PipelineInv, [P!Next]_pvars,
           pmonitor.code # "fetch_failed", pmonitor'.code = "fetch_failed"
    PROVE  pmonitor.heard = Absent \/ pnow - pmonitor.heard >= Threshold * PollInterval
<1>0. /\ pmonitor \in P!Monitor /\ pnow \in Nat /\ pmonitor.due \in Nat
      /\ pmonitor.failures \in Nat /\ PollInterval \in Nat /\ Threshold \in Nat
      /\ pmonitor.heard # Absent => pmonitor.heard \in Nat
  BY PipelineStart DEF P!PipelineInv, P!PipelineTypeOK, P!Monitor, P!Times
<1>1. CASE P!Unheard
  <2>1. ~ (pmonitor.attempt < Retries)
    <3>1. SUFFICES ASSUME pmonitor.attempt < Retries PROVE FALSE
      OBVIOUS
    <3>2. pmonitor' = [pmonitor EXCEPT !.attempt = @ + 1]
      BY <1>1, <3>1 DEF P!Unheard
    <3> QED
      BY <1>0, <3>2 DEF P!Monitor
  <2>2. pmonitor.failures + 1 >= Threshold /\ pmonitor.step = "asking"
    BY <1>0, <1>1, <2>1 DEF P!Unheard, P!Slept, P!Monitor
  <2>3. ASSUME pmonitor.heard # Absent
        PROVE  pnow = pmonitor.heard + (pmonitor.failures + 1) * PollInterval
    BY <2>2, <2>3 DEF P!PipelineInv, P!PollsInTime
  <2>4. (pmonitor.failures + 1) * PollInterval >= Threshold * PollInterval
    <3> DEFINE more == pmonitor.failures + 1 - Threshold
    <3>1. more \in Nat /\ pmonitor.failures + 1 = Threshold + more
      BY <1>0, <2>2
    <3> HIDE DEF more
    <3>2. (Threshold + more) * PollInterval = Threshold * PollInterval + more * PollInterval
      BY <1>0, <3>1
    <3>3. more * PollInterval \in Nat /\ Threshold * PollInterval \in Nat
      BY <1>0, <3>1
    <3> QED
      BY <3>1, <3>2, <3>3
  <2>5. (pmonitor.failures + 1) * PollInterval \in Nat /\ Threshold * PollInterval \in Nat
    BY <1>0
  <2> DEFINE silent == (pmonitor.failures + 1) * PollInterval
             limit == Threshold * PollInterval
  <2> HIDE DEF silent, limit
  <2>6. silent >= limit /\ silent \in Nat /\ limit \in Nat
    BY <2>4, <2>5 DEF silent, limit
  <2>7. pmonitor.heard # Absent => pnow = pmonitor.heard + silent
    BY <2>3 DEF silent
  <2>8. pmonitor.heard = Absent \/ pnow - pmonitor.heard >= limit
    BY <1>0, <2>6, <2>7
  <2> QED
    BY <2>8, Zenon DEF limit
<1>2. ~ P!Heard /\ ~ P!StartPoll
  BY <1>0 DEF P!Heard, P!StartPoll, P!Slept, P!Monitor
<1>3. ASSUME UNCHANGED pmonitor PROVE FALSE
  BY <1>3
<1>4. ASSUME NEW c \in P!Clients,
             P!GetCached(c) \/ P!GetAndWait(c) \/ P!WaitTimesOut(c) \/ P!WaitEnds(c)
      PROVE  UNCHANGED pmonitor
  BY <1>4 DEF P!GetCached, P!GetAndWait, P!WaitTimesOut, P!WaitEnds
<1>5. ASSUME P!Push \/ P!Tick \/ P!Healthz \/ P!StartRefresh \/ P!Force \/ UNCHANGED pvars
      PROVE  UNCHANGED pmonitor
  BY <1>5 DEF P!Push, P!Tick, P!Healthz, P!StartRefresh, P!Force, pvars
<1>6. ASSUME NEW b \in P!Builders, P!BuildEnds(b) \/ P!BuildRaises(b)
      PROVE  UNCHANGED pmonitor
  BY <1>6 DEF P!BuildEnds, P!BuildRaises, P!Finish
<1>7. ASSUME NEW b \in P!Builders, NEW lost \in SUBSET Devices, P!ReadPeers(b, lost)
      PROVE  UNCHANGED pmonitor
  BY <1>7 DEF P!ReadPeers
<1>8. ASSUME NEW d \in Devices, NEW h \in P!Healths, NEW n \in 0..pcanon.snap, P!Publish(d, h, n)
      PROVE  UNCHANGED pmonitor
  BY <1>8 DEF P!Publish
<1> QED
  BY <1>1, <1>2, <1>3, <1>4, <1>5, <1>6, <1>7, <1>8 DEF P!Next

LEMMA PipelineTimes ==
    ASSUME P!PipelineTypeOK
    PROVE  /\ pnow \in Nat /\ pcanon.at \in Nat /\ pcanon.snap \in Nat /\ pcanon.snap \in P!SnapshotIds
           /\ pheld.at \in Nat /\ pheld.snap \in P!SnapshotIds \cup {Absent}
           /\ pcache.updated \in Nat
           /\ pcache.payload # Absent => pcache.payload \in P!Payload
           /\ panswer.payload # Absent => panswer.payload \in P!Payload
           /\ pmonitor.streak \in Nat /\ pmonitor.due \in Nat
           /\ pmonitor.heard # Absent => pmonitor.heard \in Nat
           /\ \A d \in Devices : preport[d] # Absent => preport[d] \in P!Report
           /\ \A b \in P!Builders : pbuild[b] \in P!Build /\ pbuild[b].begun \in Nat
           /\ \A b \in P!Builders : pbuild[b].step = "snapshot" =>
                 pbuild[b].peers \in [Devices -> P!Report \cup {P!Unread}]
           /\ SummaryStale \in Nat /\ RefreshInterval \in Nat /\ DeviceOld \in Nat
           /\ MonitorStale \in Nat /\ BuildTime \in Nat /\ PollInterval \in Nat
<1>1. /\ pnow \in Nat /\ pcanon.at \in Nat /\ pcanon.snap \in Nat /\ pcanon.snap \in P!SnapshotIds
      /\ pheld.at \in Nat /\ pheld.snap \in P!SnapshotIds \cup {Absent}
  BY DEF P!PipelineTypeOK, P!Times, P!SnapshotIds
<1>2. /\ pcache.updated \in Nat
      /\ pcache.payload # Absent => pcache.payload \in P!Payload
      /\ panswer.payload # Absent => panswer.payload \in P!Payload
  BY DEF P!PipelineTypeOK, P!Cache, P!Answer, P!Times
<1>3. /\ pmonitor.streak \in Nat /\ pmonitor.due \in Nat
      /\ pmonitor.heard # Absent => pmonitor.heard \in Nat
  BY DEF P!PipelineTypeOK, P!Monitor, P!Times
<1>4. \A d \in Devices : preport[d] # Absent => preport[d] \in P!Report
  BY DEF P!PipelineTypeOK
<1>5. /\ \A b \in P!Builders : pbuild[b] \in P!Build /\ pbuild[b].begun \in Nat
      /\ \A b \in P!Builders : pbuild[b].step = "snapshot" =>
            pbuild[b].peers \in [Devices -> P!Report \cup {P!Unread}]
  BY DEF P!PipelineTypeOK, P!Build, P!Times
<1> QED
  BY <1>1, <1>2, <1>3, <1>4, <1>5, PipelineAssumption

LEMMA PipelineSides ==
    ASSUME P!PipelineTypeOK, [P!Next]_pvars
    PROVE  /\ \/ P!Tick \/ pnow' = pnow
           /\ \/ P!Push \/ pcanon' = pcanon
           /\ \/ \E d \in Devices, h \in P!Healths, n \in 0..pcanon.snap : P!Publish(d, h, n)
              \/ preport' = preport
<1>1. ASSUME NEW c \in P!Clients,
             P!GetCached(c) \/ P!GetAndWait(c) \/ P!WaitTimesOut(c) \/ P!WaitEnds(c)
      PROVE  UNCHANGED <<pnow, pcanon, preport>>
  BY <1>1 DEF P!GetCached, P!GetAndWait, P!WaitTimesOut, P!WaitEnds
<1>2. ASSUME NEW b \in P!Builders,
             (\E lost \in SUBSET Devices : P!ReadPeers(b, lost)) \/ P!BuildEnds(b) \/ P!BuildRaises(b)
      PROVE  UNCHANGED <<pnow, pcanon, preport>>
  BY <1>2 DEF P!ReadPeers, P!BuildEnds, P!BuildRaises, P!Finish
<1>3. ASSUME P!Healthz \/ P!StartRefresh \/ P!Force \/ P!StartPoll \/ P!Heard \/ P!Unheard
             \/ UNCHANGED pvars
      PROVE  UNCHANGED <<pnow, pcanon, preport>>
  BY <1>3 DEF P!Healthz, P!StartRefresh, P!Force, P!StartPoll, P!Heard, P!Unheard, pvars
<1>4. P!Push => UNCHANGED <<pnow, preport>>
  BY DEF P!Push
<1>5. P!Tick => UNCHANGED <<pcanon, preport>>
  BY DEF P!Tick
<1>6. ASSUME NEW d \in Devices, NEW h \in P!Healths, NEW n \in 0..pcanon.snap, P!Publish(d, h, n)
      PROVE  UNCHANGED <<pnow, pcanon>>
  BY <1>6 DEF P!Publish
<1> QED
  BY <1>1, <1>2, <1>3, <1>4, <1>5, <1>6 DEF P!Next

LEMMA ClockGoes ==
    ASSUME P!PipelineTypeOK, [P!Next]_pvars
    PROVE  pnow' \in Nat /\ pnow' >= pnow /\ (pnow' = pnow \/ pnow' = pnow + 1)
BY PipelineSides, PipelineTimes DEF P!Tick

\* What a build saw stays true of what was reported since.
LEMMA SawStays ==
    ASSUME P!PipelineTypeOK, [P!Next]_pvars, NEW since \in Int, since <= pnow,
           NEW peers \in [Devices -> P!Report \cup {P!Unread}], P!Saw(peers, since)
    PROVE  P!Saw(peers, since)'
<1>1. CASE preport' = preport
  BY <1>1 DEF P!Saw
<1>2. ASSUME NEW d \in Devices, NEW h \in P!Healths, NEW n \in 0..pcanon.snap, P!Publish(d, h, n)
      PROVE  P!Saw(peers, since)'
  <2>1. \A e \in Devices : e # d => preport'[e] = preport[e]
    BY <1>2 DEF P!Publish, P!PipelineTypeOK
  <2>2. preport'[d] = [health |-> h, snap |-> n, at |-> pnow]
    BY <1>2 DEF P!Publish, P!PipelineTypeOK
  <2>3. preport'[d].at = pnow /\ preport'[d].snap = n /\ preport'[d] # Absent
    BY <2>2, PipelineStart, PipelineTimes DEF P!Report, P!Times, P!SnapshotIds, P!PipelineTypeOK
  <2>4. preport[d] # Absent => n >= preport[d].snap
    BY <1>2 DEF P!Publish
  <2>5. \/ peers[d] = P!Unread
        \/ preport'[d] # Absent /\ preport'[d].at >= since /\ preport'[d].snap >= peers[d].snap
    <3>1. CASE peers[d] = P!Unread
      BY <3>1
    <3>2. CASE peers[d] = preport[d] /\ peers[d] # P!Unread
      <4>1. preport[d] # Absent
        BY <3>2, PipelineStart
      <4> QED
        BY <2>3, <2>4, <3>2, <4>1, PipelineTimes
    <3>3. CASE preport[d] # Absent /\ preport[d].at >= since /\ preport[d].snap >= peers[d].snap
               /\ peers[d] # P!Unread
      <4>1. preport[d].snap \in Nat /\ n \in Nat /\ peers[d].snap \in Nat
        BY <3>3, PipelineTimes DEF P!Report, P!SnapshotIds
      <4>2. n >= preport[d].snap /\ preport[d].snap >= peers[d].snap
        BY <2>4, <3>3
      <4>3. n >= peers[d].snap
        BY <4>1, <4>2
      <4> QED
        BY <2>3, <4>3, PipelineTimes
    <3> QED
      BY <3>1, <3>2, <3>3 DEF P!Saw
  <2> QED
    BY <2>1, <2>5 DEF P!Saw
<1> QED
  BY <1>1, <1>2, PipelineSides

LEMMA TruthfulStays ==
    ASSUME P!Timely, P!PipelineTypeOK, [P!Next]_pvars, NEW p \in P!Payload, P!Truthful(p)
    PROVE  P!Truthful(p)'
<1>0. /\ p.built \in Nat /\ p.peers \in [Devices -> P!Report \cup {P!Unread}]
      /\ p.built <= pnow /\ pnow \in Nat /\ BuildTime \in Nat /\ RefreshInterval \in Nat
  BY PipelineTimes DEF P!Payload, P!Truthful, P!Times
<1>1. p.built <= pnow'
  BY <1>0, ClockGoes
<1>2. P!Saw(p.peers, p.built - BuildTime)'
  <2> DEFINE since == p.built - BuildTime
  <2>1. since \in Int /\ since <= pnow /\ P!Saw(p.peers, since)
    BY <1>0 DEF P!Truthful
  <2> HIDE DEF since
  <2>2. P!Saw(p.peers, since)'
    BY <1>0, <2>1, SawStays
  <2> QED
    BY <2>2 DEF since
<1>3. p.snap = Absent \/ p.snap = pcanon'.snap \/ p.built - pcanon'.at < RefreshInterval
  <2>1. CASE pcanon' = pcanon
    BY <2>1 DEF P!Truthful
  <2>2. CASE P!Push
    <3>1. pcanon'.at = pnow
      BY <2>2 DEF P!Push
    <3> QED
      BY <1>0, <3>1 DEF P!Timely
  <2> QED
    BY <2>1, <2>2, PipelineSides
<1> QED
  BY <1>1, <1>2, <1>3 DEF P!Truthful

NewSummary(p) == p \in P!Payload /\ p.built = pnow /\ P!Truthful(p)

\* A build ends with a summary of what it read, or raises.
LEMMA BuildIsNew ==
    ASSUME P!PipelineTypeOK, P!ReadsInOrder, NEW b \in P!Builders,
           P!BuildEnds(b) \/ P!BuildRaises(b)
    PROVE  /\ pbuild[b].step = "snapshot"
           /\ \E result \in P!Payload \cup {Raised} :
                 P!Finish(b, result) /\ (result = Raised \/ NewSummary(result))
<1>1. pbuild[b].step = "snapshot"
  BY DEF P!BuildEnds, P!BuildRaises
<1>2. /\ pnow \in Nat /\ pbuild[b].begun \in Nat /\ BuildTime \in Nat /\ RefreshInterval \in Nat
      /\ pnow <= pbuild[b].begun + BuildTime /\ P!Saw(pbuild[b].peers, pbuild[b].begun)
      /\ pbuild[b].peers \in [Devices -> P!Report \cup {P!Unread}]
      /\ pheld.at \in Nat /\ pcanon.at \in Nat
  BY <1>1, PipelineTimes DEF P!ReadsInOrder
<1>3. ASSUME NEW snap \in P!SnapshotIds \cup {Absent},
             snap = Absent \/ snap = pcanon.snap \/ pnow - pcanon.at < RefreshInterval
      PROVE  NewSummary(P!Summary(b, snap))
  <2>1. P!Summary(b, snap) \in P!Payload
    BY <1>1, BuildsAreTyped
  <2>2. P!Summary(b, snap).built = pnow /\ P!Summary(b, snap).snap = snap
    BY DEF P!Summary
  <2>3. P!Saw(P!Summary(b, snap).peers, pnow - BuildTime)
    <3>1. CASE snap = Absent
      <4>1. P!Summary(b, snap).peers = [d \in Devices |-> P!Unread]
        BY <3>1 DEF P!Summary
      <4> QED
        BY <4>1 DEF P!Saw
    <3>2. CASE snap # Absent
      <4>1. P!Summary(b, snap).peers = pbuild[b].peers
        BY <3>2 DEF P!Summary
      <4>2. ASSUME NEW d \in Devices, preport[d] # Absent, preport[d].at >= pbuild[b].begun
            PROVE  preport[d].at >= pnow - BuildTime
        <5>1. preport[d].at \in Nat
          BY <4>2, PipelineTimes DEF P!Report, P!Times
        <5> QED
          BY <1>2, <4>2, <5>1
      <4> QED
        BY <1>2, <4>1, <4>2 DEF P!Saw
    <3> QED
      BY <3>1, <3>2
  <2> QED
    BY <1>2, <1>3, <2>1, <2>2, <2>3 DEF NewSummary, P!Truthful
<1>4. CASE P!BuildRaises(b)
  BY <1>1, <1>4 DEF P!BuildRaises
<1>5. CASE P!BuildEnds(b)
  <2>1. CASE P!IndexIsDue
    <3>1. NewSummary(P!Summary(b, pcanon.snap)) /\ NewSummary(P!Summary(b, Absent))
      BY <1>3, PipelineTimes
    <3> QED
      BY <1>1, <1>5, <2>1, <3>1 DEF P!BuildEnds, NewSummary
  <2>2. CASE ~ P!IndexIsDue
    <3>1. ~ (pnow - pheld.at >= RefreshInterval) /\ pheld.snap # Absent
      BY <2>2 DEF P!IndexIsDue
    <3>2. pheld.snap = pcanon.snap \/ pheld.at <= pcanon.at
      BY <3>1 DEF P!ReadsInOrder
    <3>3. pheld.snap = pcanon.snap \/ pnow - pcanon.at < RefreshInterval
      BY <1>2, <3>1, <3>2
    <3>4. NewSummary(P!Summary(b, pheld.snap))
      BY <1>3, <3>3, PipelineTimes
    <3> QED
      BY <1>1, <1>5, <2>2, <3>4 DEF P!BuildEnds, NewSummary
  <2> QED
    BY <2>1, <2>2
<1> QED
  BY <1>4, <1>5

LEMMA BuildMoves ==
    ASSUME P!PipelineTypeOK, P!ReadsInOrder, [P!Next]_pvars, NEW b \in P!Builders,
           pbuild'[b].step # "idle"
    PROVE  /\ pbuild'[b].begun <= pnow' /\ pnow' <= pbuild'[b].begun + BuildTime
           /\ pbuild'[b].step = "snapshot" => P!Saw(pbuild[b].peers, pbuild[b].begun)'
<1>0. /\ pnow \in Nat /\ pbuild[b].begun \in Nat /\ BuildTime \in Nat
      /\ pnow' \in Nat /\ pnow' >= pnow /\ (pnow' = pnow \/ P!Tick)
  BY PipelineTimes, ClockGoes, PipelineSides
<1>1. CASE pbuild'[b] = pbuild[b]
  <2>1. pbuild[b].begun <= pnow /\ pnow <= pbuild[b].begun + BuildTime
    BY <1>1 DEF P!ReadsInOrder
  <2>2. ASSUME pbuild[b].step = "snapshot" PROVE P!Saw(pbuild[b].peers, pbuild[b].begun)'
    <3>1. PICK peers \in [Devices -> P!Report \cup {P!Unread}] : peers = pbuild[b].peers
      BY <2>2, PipelineTimes
    <3>2. PICK begun \in Int : begun = pbuild[b].begun
      BY <1>0
    <3>3. begun <= pnow /\ P!Saw(peers, begun)
      BY <1>1, <2>1, <2>2, <3>1, <3>2 DEF P!ReadsInOrder
    <3>4. P!Saw(peers, begun)'
      BY <3>3, SawStays
    <3>5. peers = pbuild'[b].peers /\ begun = pbuild'[b].begun
      BY <1>1, <3>1, <3>2
    <3> QED
      BY <3>4, <3>5 DEF P!Saw
  <2>3. pnow' <= pbuild[b].begun + BuildTime
    <3>1. CASE pnow' = pnow
      BY <2>1, <3>1
    <3>2. CASE P!Tick
      <4>1. pnow < pbuild[b].begun + BuildTime /\ pnow' = pnow + 1
        BY <1>1, <3>2 DEF P!Tick
      <4> QED
        BY <1>0, <4>1
    <3> QED
      BY <1>0, <3>1, <3>2
  <2> QED
    BY <1>0, <1>1, <2>1, <2>2, <2>3
<1>2. CASE P!StartRefresh \/ P!Force
  <2>1. pnow' = pnow /\ (pbuild'[b] = pbuild[b] \/ (pbuild'[b].begun = pnow /\ pbuild'[b].step = "peers"))
    BY <1>2 DEF P!StartRefresh, P!Force, P!PipelineTypeOK, P!Idle, P!Builders
  <2> QED
    BY <1>0, <1>1, <2>1
<1>3. ASSUME NEW x \in P!Builders, NEW lost \in SUBSET Devices, P!ReadPeers(x, lost),
             pbuild'[b] # pbuild[b]
      PROVE  /\ pbuild'[b].begun <= pnow' /\ pnow' <= pbuild'[b].begun + BuildTime
             /\ P!Saw(pbuild[b].peers, pbuild[b].begun)'
  <2>1. x = b /\ UNCHANGED <<pnow, preport>> /\ pbuild[b].step = "peers"
    BY <1>3 DEF P!ReadPeers, P!PipelineTypeOK
  <2>2. pbuild'[b].peers = P!PeersSeen(lost) /\ pbuild'[b].begun = pbuild[b].begun
    BY <1>3, <2>1 DEF P!ReadPeers, P!PipelineTypeOK, P!Build
  <2>3. \A d \in Devices : P!PeersSeen(lost)[d] = P!Unread \/ P!PeersSeen(lost)[d] = preport[d]
    BY DEF P!PeersSeen
  <2>4. P!Saw(pbuild[b].peers, pbuild[b].begun)'
    BY <2>1, <2>2, <2>3 DEF P!Saw
  <2> QED
    BY <2>1, <2>2, <2>4 DEF P!ReadsInOrder
<1>4. ASSUME NEW x \in P!Builders, P!BuildEnds(x) \/ P!BuildRaises(x)
      PROVE  pbuild'[b] = pbuild[b]
  <2>1. pbuild' = [pbuild EXCEPT ![x] = P!Idle]
    BY <1>4 DEF P!BuildEnds, P!BuildRaises, P!Finish
  <2> QED
    BY <2>1 DEF P!PipelineTypeOK, P!Idle
<1>5. ASSUME NEW c \in P!Clients,
             P!GetCached(c) \/ P!GetAndWait(c) \/ P!WaitTimesOut(c) \/ P!WaitEnds(c)
      PROVE  pbuild' = pbuild
  BY <1>5 DEF P!GetCached, P!GetAndWait, P!WaitTimesOut, P!WaitEnds
<1>6. ASSUME P!Push \/ P!Tick \/ P!Healthz \/ P!StartPoll \/ P!Heard \/ P!Unheard
             \/ UNCHANGED pvars
      PROVE  pbuild' = pbuild
  BY <1>6 DEF P!Push, P!Tick, P!Healthz, P!StartPoll, P!Heard, P!Unheard, pvars
<1>7. ASSUME NEW d \in Devices, NEW h \in P!Healths, NEW n \in 0..pcanon.snap, P!Publish(d, h, n)
      PROVE  pbuild' = pbuild
  BY <1>7 DEF P!Publish
<1> QED
  BY <1>1, <1>2, <1>3, <1>4, <1>5, <1>6, <1>7 DEF P!Next

LEMMA ReadsNext ==
    ASSUME P!PipelineTypeOK, P!ReadsInOrder, [P!Next]_pvars
    PROVE  P!ReadsInOrder'
<1>0. /\ pnow \in Nat /\ pnow' \in Nat /\ pnow' >= pnow /\ pcanon.at \in Nat /\ pheld.at \in Nat
      /\ pcanon.snap \in Nat
  BY PipelineTimes, ClockGoes
<1>1. pcanon'.at <= pnow' /\ pcanon'.snap \in Nat /\ pcanon'.snap >= pcanon.snap
  BY <1>0, PipelineSides DEF P!Push, P!ReadsInOrder
<1>2. ASSUME NEW d \in Devices, preport'[d] # Absent PROVE preport'[d].snap <= pcanon'.snap
  <2>1. CASE preport' = preport
    <3>1. preport[d].snap \in Nat /\ preport[d].snap <= pcanon.snap
      BY <1>2, <2>1, PipelineTimes DEF P!ReadsInOrder, P!Report, P!SnapshotIds
    <3> QED
      BY <1>0, <1>1, <2>1, <3>1
  <2>2. ASSUME NEW e \in Devices, NEW h \in P!Healths, NEW n \in 0..pcanon.snap, P!Publish(e, h, n)
        PROVE  preport'[d].snap <= pcanon'.snap
    <3>1. preport'[d] = preport[d] \/ preport'[d].snap = n
      BY <2>2 DEF P!Publish, P!PipelineTypeOK
    <3>2. pcanon' = pcanon /\ n <= pcanon.snap
      BY <1>0, <2>2 DEF P!Publish
    <3> QED
      BY <1>2, <3>1, <3>2 DEF P!ReadsInOrder
  <2> QED
    BY <2>1, <2>2, PipelineSides
<1>3. \/ pheld' = pheld \/ (pheld'.snap = pcanon.snap /\ pheld'.at = pnow /\ pnow' = pnow /\ pcanon' = pcanon)
  <2>1. ASSUME NEW b \in P!Builders, P!BuildEnds(b) \/ P!BuildRaises(b)
        PROVE  /\ pnow' = pnow /\ pcanon' = pcanon
               /\ pheld' = pheld \/ pheld' = [snap |-> pcanon.snap, at |-> pnow]
    BY <2>1 DEF P!BuildEnds, P!BuildRaises, P!Finish
  <2>2. P!Force => pheld' = [snap |-> pcanon.snap, at |-> pnow] /\ pnow' = pnow /\ pcanon' = pcanon
    BY DEF P!Force
  <2>3. ASSUME NEW c \in P!Clients,
               P!GetCached(c) \/ P!GetAndWait(c) \/ P!WaitTimesOut(c) \/ P!WaitEnds(c)
        PROVE  pheld' = pheld
    BY <2>3 DEF P!GetCached, P!GetAndWait, P!WaitTimesOut, P!WaitEnds
  <2>4. ASSUME P!Push \/ P!Tick \/ P!Healthz \/ P!StartRefresh \/ P!StartPoll \/ P!Heard
               \/ P!Unheard \/ UNCHANGED pvars
        PROVE  pheld' = pheld
    BY <2>4 DEF P!Push, P!Tick, P!Healthz, P!StartRefresh, P!StartPoll, P!Heard, P!Unheard, pvars
  <2>5. ASSUME NEW d \in Devices, NEW h \in P!Healths, NEW n \in 0..pcanon.snap, P!Publish(d, h, n)
        PROVE  pheld' = pheld
    BY <2>5 DEF P!Publish
  <2>6. ASSUME NEW b \in P!Builders, NEW lost \in SUBSET Devices, P!ReadPeers(b, lost)
        PROVE  pheld' = pheld
    BY <2>6 DEF P!ReadPeers
  <2> QED
    BY <2>1, <2>2, <2>3, <2>4, <2>5, <2>6 DEF P!Next
<1>4. pheld'.at <= pnow'
  BY <1>0, <1>3 DEF P!ReadsInOrder
<1>5. pheld'.snap = Absent \/ pheld'.snap = pcanon'.snap \/ pheld'.at <= pcanon'.at
  <2>1. CASE pheld' = pheld
    <3>1. CASE pcanon' = pcanon
      BY <2>1, <3>1 DEF P!ReadsInOrder
    <3>2. CASE P!Push
      <4>1. pcanon'.at = pnow /\ pheld.at <= pnow
        BY <3>2 DEF P!Push, P!ReadsInOrder
      <4> QED
        BY <2>1, <4>1
    <3> QED
      BY <3>1, <3>2, PipelineSides
  <2> QED
    BY <1>3, <2>1
<1> QED
  BY <1>1, <1>2, <1>4, <1>5, BuildMoves DEF P!ReadsInOrder

\* What a step leaves in the cache: a mark, or a summary it dates now.
Marked ==
    pcache'.payload = pcache.payload /\ pcache'.updated = pcache.updated /\ pcache'.error
Dated(p) ==
    pcache'.payload = p /\ pcache'.updated = pnow /\ ~ pcache'.error
Ended(p) ==
    \/ P!Good(pinflight) /\ p = pinflight.result
    \/ \E c \in P!Clients : P!Good(pwait[c]) /\ p = pwait[c].result

LEMMA MarkedOrDated ==
    ASSUME P!PipelineTypeOK
    PROVE  /\ pcache' = [pcache EXCEPT !.error = TRUE] => Marked
           /\ \A p \in P!Payload : pcache' = P!Stored(p) => Dated(p)
           /\ pcache' = P!Consumed =>
                 \/ ~ P!Done(pinflight) /\ pcache' = pcache
                 \/ P!Done(pinflight) /\ Marked
                 \/ P!Good(pinflight) /\ Dated(pinflight.result)
<1>1. pcache \in P!Cache
  BY DEF P!PipelineTypeOK
<1>2. ASSUME pcache' = [pcache EXCEPT !.error = TRUE] PROVE Marked
  <2>1. DOMAIN pcache = {"payload", "updated", "error"}
    BY <1>1 DEF P!Cache
  <2>2. pcache'.payload = pcache.payload /\ pcache'.updated = pcache.updated
        /\ pcache'.error = TRUE
    BY <1>2, <2>1, Zenon
  <2> QED
    BY <2>2 DEF Marked
<1>3. \A p \in P!Payload : pcache' = P!Stored(p) => Dated(p)
  BY DEF P!Stored, Dated
<1>4. ASSUME pcache' = P!Consumed
      PROVE  \/ ~ P!Done(pinflight) /\ pcache' = pcache
             \/ P!Done(pinflight) /\ Marked
             \/ P!Good(pinflight) /\ Dated(pinflight.result)
  <2>1. CASE ~ P!Done(pinflight)
    BY <1>4, <2>1 DEF P!Consumed
  <2>2. CASE P!Good(pinflight)
    <3>1. pinflight.result \in P!Payload
      BY <2>2, ConsumedIsTyped
    <3>2. pcache' = P!Stored(pinflight.result)
      BY <1>4, <2>2 DEF P!Consumed, P!Good
    <3> QED
      BY <1>3, <2>2, <3>1, <3>2
  <2>3. CASE P!Done(pinflight) /\ ~ P!Good(pinflight)
    BY <1>2, <1>4, <2>3 DEF P!Consumed
  <2> QED
    BY <2>1, <2>2, <2>3
<1> QED
  BY <1>2, <1>3, <1>4

LEMMA CacheMoves ==
    ASSUME P!PipelineTypeOK, P!ReadsInOrder, [P!Next]_pvars
    PROVE  \/ pcache' = pcache
           \/ pnow' = pnow /\ Marked
           \/ pnow' = pnow /\ \E p \in P!Payload : Dated(p) /\ (Ended(p) \/ NewSummary(p))
<1>0. ASSUME P!Good(pinflight) PROVE pinflight.result \in P!Payload /\ Ended(pinflight.result)
  BY <1>0, ConsumedIsTyped DEF Ended
<1>1. ASSUME NEW c \in P!Clients, P!GetCached(c) \/ P!GetAndWait(c) PROVE pcache' = P!Consumed /\ pnow' = pnow
  BY <1>1 DEF P!GetCached, P!GetAndWait
<1>2. P!Healthz => pcache' = P!Consumed /\ pnow' = pnow
  BY DEF P!Healthz
<1>3. ASSUME NEW c \in P!Clients, P!WaitTimesOut(c) PROVE Marked /\ pnow' = pnow
  BY <1>3, MarkedOrDated DEF P!WaitTimesOut
<1>4. ASSUME NEW c \in P!Clients, P!WaitEnds(c)
      PROVE  pnow' = pnow /\ (Marked \/ \E p \in P!Payload : Dated(p) /\ Ended(p))
  <2>1. CASE P!Good(pwait[c])
    <3>1. pwait[c].result \in P!Payload /\ Ended(pwait[c].result)
      BY <2>1, ConsumedIsTyped DEF Ended
    <3>2. Dated(pwait[c].result) /\ pnow' = pnow
      BY <1>4, <2>1, <3>1, MarkedOrDated DEF P!WaitEnds
    <3> QED
      BY <3>1, <3>2
  <2>2. CASE ~ P!Good(pwait[c])
    BY <1>4, <2>2, MarkedOrDated DEF P!WaitEnds
  <2> QED
    BY <2>1, <2>2
<1>5. ASSUME NEW b \in P!Builders, P!BuildEnds(b) \/ P!BuildRaises(b)
      PROVE  /\ pnow' = pnow
             /\ \/ pcache' = pcache \/ Marked
                \/ \E p \in P!Payload : Dated(p) /\ NewSummary(p)
  <2>1. PICK result \in P!Payload \cup {Raised} :
           P!Finish(b, result) /\ (result = Raised \/ NewSummary(result))
    BY <1>5, BuildIsNew
  <2>2. CASE b = "background"
    BY <2>1, <2>2 DEF P!Finish
  <2>3. CASE b # "background" /\ result = Raised
    BY <2>1, <2>3, MarkedOrDated DEF P!Finish
  <2>4. CASE b # "background" /\ result # Raised
    BY <2>1, <2>4, MarkedOrDated DEF P!Finish
  <2> QED
    BY <2>2, <2>3, <2>4
<1>6. ASSUME P!Push \/ P!Tick \/ P!StartRefresh \/ P!Force \/ P!StartPoll \/ P!Heard
             \/ P!Unheard \/ UNCHANGED pvars
      PROVE  pcache' = pcache
  BY <1>6 DEF P!Push, P!Tick, P!StartRefresh, P!Force, P!StartPoll, P!Heard, P!Unheard, pvars
<1>7. ASSUME NEW d \in Devices, NEW h \in P!Healths, NEW n \in 0..pcanon.snap, P!Publish(d, h, n)
      PROVE  pcache' = pcache
  BY <1>7 DEF P!Publish
<1>8. ASSUME NEW b \in P!Builders, NEW lost \in SUBSET Devices, P!ReadPeers(b, lost)
      PROVE  pcache' = pcache
  BY <1>8 DEF P!ReadPeers
<1> QED
  BY <1>0, <1>1, <1>2, <1>3, <1>4, <1>5, <1>6, <1>7, <1>8, MarkedOrDated DEF P!Next

LEMMA FuturesMove ==
    ASSUME P!PipelineTypeOK, P!QueueIsKept, P!ReadsInOrder, [P!Next]_pvars
    PROVE  /\ P!Good(pinflight') =>
                 pinflight' = pinflight \/ (pnow' = pnow /\ NewSummary(pinflight'.result))
           /\ \A c \in P!Clients : P!Good(pwait'[c]) =>
                 pwait'[c] = pwait[c] \/ (pnow' = pnow /\ NewSummary(pwait'[c].result))
<1>0. /\ P!AfterConsumed = pinflight \/ P!AfterConsumed = Absent
      /\ ~ P!Good(Absent) /\ \A f : P!IsPending(f) => ~ P!Good(f)
  BY DEF P!AfterConsumed, P!Good, P!Done, P!IsPending
<1>1. ASSUME NEW c \in P!Clients, P!GetCached(c) \/ P!GetAndWait(c)
      PROVE  /\ pinflight' = P!AfterConsumed \/ P!IsPending(pinflight')
             /\ \A x \in P!Clients : pwait'[x] = pwait[x] \/ P!IsPending(pwait'[x])
  BY <1>1, OneIsEnsured DEF P!GetCached, P!GetAndWait, P!PipelineTypeOK
<1>2. ASSUME NEW c \in P!Clients, P!WaitTimesOut(c) \/ P!WaitEnds(c)
      PROVE  /\ pinflight' = pinflight \/ pinflight' = Absent
             /\ \A x \in P!Clients : pwait'[x] = pwait[x] \/ pwait'[x] = Absent
  BY <1>2 DEF P!WaitTimesOut, P!WaitEnds, P!AfterTimeout, P!PipelineTypeOK
<1>3. P!Healthz => pinflight' = Absent /\ pwait' = pwait
  BY DEF P!Healthz
<1>4. ASSUME NEW b \in P!Builders, P!BuildEnds(b) \/ P!BuildRaises(b)
      PROVE  /\ pnow' = pnow
             /\ P!Good(pinflight') => pinflight' = pinflight \/ NewSummary(pinflight'.result)
             /\ \A c \in P!Clients : P!Good(pwait'[c]) =>
                   pwait'[c] = pwait[c] \/ NewSummary(pwait'[c].result)
  <2>1. PICK result \in P!Payload \cup {Raised} :
           P!Finish(b, result) /\ (result = Raised \/ NewSummary(result))
    BY <1>4, BuildIsNew
  <2>2. CASE b = "background"
    <3>1. ASSUME NEW f \in P!Future, P!Good(P!Resolved(f, b, result))
          PROVE  P!Resolved(f, b, result) = f \/ NewSummary(P!Resolved(f, b, result).result)
      <4>1. CASE f # Absent /\ f.id = pbuild[b].id
        <5>1. P!Resolved(f, b, result).result = result
          BY <4>1 DEF P!Resolved, P!Future
        <5>2. result # Raised
          BY <3>1, <5>1 DEF P!Good
        <5> QED
          BY <2>1, <5>1, <5>2
      <4>2. CASE ~ (f # Absent /\ f.id = pbuild[b].id)
        BY <4>2 DEF P!Resolved
      <4> QED
        BY <4>1, <4>2
    <3>2. /\ pinflight \in P!Future /\ \A c \in P!Clients : pwait[c] \in P!Future
          /\ pinflight' = P!Resolved(pinflight, b, result) /\ pnow' = pnow
          /\ \A c \in P!Clients : pwait'[c] = P!Resolved(pwait[c], b, result)
      BY <2>1, <2>2 DEF P!Finish, P!PipelineTypeOK
    <3> QED
      BY <3>1, <3>2
  <2>3. CASE b # "background"
    BY <1>0, <2>1, <2>3 DEF P!Finish
  <2> QED
    BY <2>2, <2>3
<1>5. ASSUME P!Push \/ P!Tick \/ P!StartRefresh \/ P!Force \/ P!StartPoll \/ P!Heard
             \/ P!Unheard \/ UNCHANGED pvars
      PROVE  pinflight' = pinflight /\ pwait' = pwait
  BY <1>5 DEF P!Push, P!Tick, P!StartRefresh, P!Force, P!StartPoll, P!Heard, P!Unheard, pvars
<1>6. ASSUME NEW d \in Devices, NEW h \in P!Healths, NEW n \in 0..pcanon.snap, P!Publish(d, h, n)
      PROVE  pinflight' = pinflight /\ pwait' = pwait
  BY <1>6 DEF P!Publish
<1>7. ASSUME NEW b \in P!Builders, NEW lost \in SUBSET Devices, P!ReadPeers(b, lost)
      PROVE  pinflight' = pinflight /\ pwait' = pwait
  BY <1>7 DEF P!ReadPeers
<1> QED
  BY <1>0, <1>1, <1>2, <1>3, <1>4, <1>5, <1>6, <1>7 DEF P!Next

LEMMA AnswerMoves ==
    ASSUME P!PipelineTypeOK, [P!Next]_pvars
    PROVE  \/ panswer' = panswer \/ panswer'.payload = Absent
           \/ P!GetCached("monitor") /\ panswer'.payload = P!Consumed.payload
           \/ /\ P!WaitEnds("monitor") /\ P!Good(pwait["monitor"])
              /\ panswer'.payload = pwait["monitor"].result
<1>1. ASSUME NEW c \in P!Clients, P!GetCached(c), panswer' # panswer
      PROVE  c = "monitor" /\ panswer'.payload = P!Consumed.payload
  BY <1>1 DEF P!GetCached, P!Answered
<1>2. ASSUME NEW c \in P!Clients, P!WaitTimesOut(c) PROVE panswer' = panswer \/ panswer'.payload = Absent
  BY <1>2 DEF P!WaitTimesOut, P!Answered
<1>3. ASSUME NEW c \in P!Clients, P!WaitEnds(c)
      PROVE  \/ panswer' = panswer \/ panswer'.payload = Absent
             \/ c = "monitor" /\ P!Good(pwait[c]) /\ panswer'.payload = pwait[c].result
  <2>1. CASE P!Good(pwait[c])
    BY <1>3, <2>1 DEF P!WaitEnds, P!Answered
  <2>2. CASE ~ P!Good(pwait[c])
    BY <1>3, <2>2 DEF P!WaitEnds, P!Answered
  <2> QED
    BY <2>1, <2>2
<1>4. P!Heard \/ P!Unheard => panswer'.payload = Absent
  BY DEF P!Heard, P!Unheard, P!NoAnswer
<1>5. ASSUME P!Push \/ P!Tick \/ P!Healthz \/ P!StartRefresh \/ P!Force \/ P!StartPoll
             \/ UNCHANGED pvars
      PROVE  panswer' = panswer
  BY <1>5 DEF P!Push, P!Tick, P!Healthz, P!StartRefresh, P!Force, P!StartPoll, pvars
<1>6. ASSUME NEW d \in Devices, NEW h \in P!Healths, NEW n \in 0..pcanon.snap, P!Publish(d, h, n)
      PROVE  panswer' = panswer
  BY <1>6 DEF P!Publish
<1>7. ASSUME NEW b \in P!Builders,
             (\E lost \in SUBSET Devices : P!ReadPeers(b, lost)) \/ P!BuildEnds(b) \/ P!BuildRaises(b)
      PROVE  panswer' = panswer
  BY <1>7 DEF P!ReadPeers, P!BuildEnds, P!BuildRaises, P!Finish
<1>8. ASSUME NEW c \in P!Clients, P!GetAndWait(c) PROVE panswer' = panswer
  BY <1>8 DEF P!GetAndWait
<1> QED
  BY <1>1, <1>2, <1>3, <1>4, <1>5, <1>6, <1>7, <1>8 DEF P!Next

LEMMA AsksNext ==
    ASSUME P!PipelineTypeOK, P!AsksInTurn, [P!Next]_pvars
    PROVE  P!AsksInTurn'
<1>0. /\ pmonitor \in P!Monitor /\ pnow \in Nat /\ pnow # Absent
      /\ pwait \in [P!Clients -> P!Future] /\ "monitor" \in P!Clients
      /\ P!NoAnswer.state = "none"
      /\ pmonitor.heard # Absent => pmonitor.heard \in Nat
      /\ pnow' \in Nat /\ pnow' >= pnow
  BY PipelineStart, PipelineTimes, ClockGoes DEF P!PipelineTypeOK, P!Clients, P!NoAnswer
<1>1. ASSUME pmonitor' = pmonitor, panswer' = panswer,
             pwait'["monitor"] = pwait["monitor"]
      PROVE  P!AsksInTurn'
  BY <1>0, <1>1 DEF P!AsksInTurn
<1>2. ASSUME NEW c \in P!Clients, P!GetCached(c) PROVE P!AsksInTurn'
  <2>1. pmonitor' = pmonitor /\ pwait' = pwait
    BY <1>2 DEF P!GetCached
  <2>2. CASE c = "monitor"
    <3>1. pmonitor.step = "asking" /\ pwait["monitor"] = Absent
      BY <1>2, <2>2 DEF P!GetCached, P!Asks
    <3> QED
      BY <1>0, <2>1, <3>1 DEF P!AsksInTurn
  <2>3. CASE c # "monitor"
    <3>1. panswer' = panswer
      BY <1>2, <2>3 DEF P!GetCached, P!Answered
    <3> QED
      BY <1>1, <2>1, <3>1
  <2> QED
    BY <2>2, <2>3
<1>3. ASSUME NEW c \in P!Clients, P!GetAndWait(c) PROVE P!AsksInTurn'
  <2>1. pmonitor' = pmonitor /\ panswer' = panswer
    BY <1>3 DEF P!GetAndWait
  <2>2. CASE c = "monitor"
    <3>1. pmonitor.step = "asking" /\ panswer = P!NoAnswer
      BY <1>3, <2>2 DEF P!GetAndWait, P!Asks
    <3> QED
      BY <1>0, <2>1, <3>1 DEF P!AsksInTurn, P!NoAnswer
  <2>3. CASE c # "monitor"
    <3>1. pwait'["monitor"] = pwait["monitor"]
      BY <1>0, <1>3, <2>3 DEF P!GetAndWait
    <3> QED
      BY <1>1, <2>1, <3>1
  <2> QED
    BY <2>2, <2>3
<1>4. ASSUME NEW c \in P!Clients, P!WaitTimesOut(c) \/ P!WaitEnds(c) PROVE P!AsksInTurn'
  <2>1. pmonitor' = pmonitor /\ pwait[c] # Absent /\ pwait' = [pwait EXCEPT ![c] = Absent]
    BY <1>4 DEF P!WaitTimesOut, P!WaitEnds, P!Done
  <2>2. CASE c = "monitor"
    <3>1. pmonitor.step = "asking" /\ pwait'["monitor"] = Absent
      BY <1>0, <2>1, <2>2 DEF P!AsksInTurn
    <3> QED
      BY <1>0, <2>1, <3>1 DEF P!AsksInTurn
  <2>3. CASE c # "monitor"
    <3>1. pwait'["monitor"] = pwait["monitor"]
      BY <1>0, <2>1, <2>3
    <3>2. panswer' = panswer
      BY <1>4, <2>3 DEF P!WaitTimesOut, P!WaitEnds, P!Answered
    <3> QED
      BY <1>1, <2>1, <3>1, <3>2
  <2> QED
    BY <2>2, <2>3
<1>5. ASSUME NEW b \in P!Builders, P!BuildEnds(b) \/ P!BuildRaises(b) PROVE P!AsksInTurn'
  <2>1. PICK result : P!Finish(b, result)
    BY <1>5 DEF P!BuildEnds, P!BuildRaises
  <2>2. pmonitor' = pmonitor /\ panswer' = panswer
    BY <2>1 DEF P!Finish
  <2>3. pwait'["monitor"] # Absent => pwait["monitor"] # Absent
    <3>1. CASE b = "background"
      <4>1. pwait'["monitor"] = P!Resolved(pwait["monitor"], b, result)
        BY <1>0, <2>1, <3>1 DEF P!Finish
      <4> QED
        BY <4>1 DEF P!Resolved
    <3>2. CASE b # "background"
      BY <2>1, <3>2 DEF P!Finish
    <3> QED
      BY <3>1, <3>2
  <2> QED
    BY <1>0, <2>2, <2>3 DEF P!AsksInTurn, P!NoAnswer
<1>6. CASE P!StartPoll
  <2>1. /\ pmonitor.step = "idle" /\ pwait' = pwait /\ panswer' = panswer
        /\ pmonitor'.step = "asking" /\ pmonitor'.streak = pmonitor.streak
        /\ pmonitor'.heard = pmonitor.heard /\ pmonitor'.failures = pmonitor.failures
    BY <1>0, <1>6 DEF P!StartPoll, P!Monitor
  <2> QED
    BY <1>0, <2>1 DEF P!AsksInTurn, P!NoAnswer
<1>7. CASE P!Heard
  <2>1. /\ pwait' = pwait /\ panswer' = P!NoAnswer /\ panswer # P!NoAnswer /\ pnow' = pnow
        /\ pmonitor'.heard = pnow /\ pmonitor'.failures = 0
    BY <1>0, <1>7 DEF P!Heard, P!Slept, P!Monitor, P!AfterSuccess
  <2>2. pwait["monitor"] = Absent
    BY <2>1 DEF P!AsksInTurn
  <2> QED
    BY <1>0, <2>1, <2>2 DEF P!AsksInTurn, P!NoAnswer
<1>8. CASE P!Unheard
  <2>1. pwait["monitor"] = Absent /\ pwait' = pwait /\ panswer' = P!NoAnswer
    BY <1>0, <1>8 DEF P!Unheard, P!AsksInTurn
  <2>2. pmonitor'.streak >= 1 => pmonitor'.heard # Absent /\ pmonitor'.failures = 0
    <3>1. CASE pmonitor.attempt < Retries
      <4>1. pmonitor' = [pmonitor EXCEPT !.attempt = @ + 1]
        BY <1>8, <3>1 DEF P!Unheard
      <4>2. pmonitor'.streak = pmonitor.streak /\ pmonitor'.heard = pmonitor.heard
            /\ pmonitor'.failures = pmonitor.failures
        BY <1>0, <4>1 DEF P!Monitor
      <4> QED
        BY <4>2 DEF P!AsksInTurn
    <3>2. CASE ~ (pmonitor.attempt < Retries)
      <4>1. pmonitor'.streak = 0
        BY <1>0, <1>8, <3>2 DEF P!Unheard, P!Slept, P!Monitor
      <4> QED
        BY <4>1
    <3> QED
      BY <3>1, <3>2
  <2>3. pmonitor'.heard = pmonitor.heard
    <3>1. CASE pmonitor.attempt < Retries
      <4>1. pmonitor' = [pmonitor EXCEPT !.attempt = @ + 1]
        BY <1>8, <3>1 DEF P!Unheard
      <4> QED
        BY <1>0, <4>1 DEF P!Monitor
    <3>2. CASE ~ (pmonitor.attempt < Retries)
      BY <1>0, <1>8, <3>2 DEF P!Unheard, P!Slept, P!Monitor
    <3> QED
      BY <3>1, <3>2
  <2> QED
    BY <1>0, <2>1, <2>2, <2>3 DEF P!AsksInTurn, P!NoAnswer
<1>9. ASSUME P!Push \/ P!Tick \/ P!Healthz \/ P!StartRefresh \/ P!Force \/ UNCHANGED pvars
      PROVE  P!AsksInTurn'
  BY <1>1, <1>9 DEF P!Push, P!Tick, P!Healthz, P!StartRefresh, P!Force, pvars
<1>10. ASSUME NEW d \in Devices, NEW h \in P!Healths, NEW n \in 0..pcanon.snap, P!Publish(d, h, n)
       PROVE  P!AsksInTurn'
  BY <1>1, <1>10 DEF P!Publish
<1>11. ASSUME NEW b \in P!Builders, NEW lost \in SUBSET Devices, P!ReadPeers(b, lost)
       PROVE  P!AsksInTurn'
  BY <1>1, <1>11 DEF P!ReadPeers
<1> QED
  BY <1>2, <1>3, <1>4, <1>5, <1>6, <1>7, <1>8, <1>9, <1>10, <1>11 DEF P!Next

LEMMA SummariesNext ==
    ASSUME P!Timely, P!PipelineTypeOK, P!QueueIsKept, P!ReadsInOrder,
           P!SummariesAreTruthful, [P!Next]_pvars
    PROVE  P!SummariesAreTruthful'
<1>0. P!PipelineTypeOK'
  BY PipelineTypeNext
<1>1. ASSUME NEW p \in P!Payload, P!Truthful(p) PROVE P!Truthful(p)'
  BY <1>1, TruthfulStays
<1>2. ASSUME NEW p \in P!Payload, Ended(p) PROVE P!Truthful(p)
  BY <1>2 DEF Ended, P!SummariesAreTruthful
<1>3. ASSUME NEW p \in P!Payload, P!Good(pinflight'), p = pinflight'.result
      PROVE  P!Truthful(p)'
  <2>1. CASE pinflight' = pinflight
    BY <1>1, <1>3, <2>1 DEF P!SummariesAreTruthful
  <2>2. CASE NewSummary(pinflight'.result)
    BY <1>1, <1>3, <2>2 DEF NewSummary
  <2> QED
    BY <1>3, <2>1, <2>2, FuturesMove
<1>4. ASSUME NEW c \in P!Clients, NEW p \in P!Payload, P!Good(pwait'[c]), p = pwait'[c].result
      PROVE  P!Truthful(p)'
  <2>1. CASE pwait'[c] = pwait[c]
    BY <1>1, <1>4, <2>1 DEF P!SummariesAreTruthful
  <2>2. CASE NewSummary(pwait'[c].result)
    BY <1>1, <1>4, <2>2 DEF NewSummary
  <2> QED
    BY <1>4, <2>1, <2>2, FuturesMove
<1>5. ASSUME NEW p \in P!Payload, p = pcache'.payload PROVE P!Truthful(p)'
  <2>1. CASE pcache'.payload = pcache.payload
    BY <1>1, <1>5, <2>1, PipelineTimes, PipelineStart DEF P!SummariesAreTruthful
  <2>2. ASSUME NEW q \in P!Payload, Dated(q), Ended(q) \/ NewSummary(q) PROVE P!Truthful(p)'
    <3>1. p = q /\ P!Truthful(p)
      BY <1>2, <1>5, <2>2 DEF Dated, NewSummary
    <3> QED
      BY <1>1, <3>1
  <2> QED
    BY <2>1, <2>2, CacheMoves DEF Marked
<1>6. ASSUME NEW p \in P!Payload, p = panswer'.payload PROVE P!Truthful(p)'
  <2>1. CASE panswer' = panswer
    BY <1>1, <1>6, <2>1, PipelineStart DEF P!SummariesAreTruthful
  <2>2. CASE panswer'.payload = Absent
    BY <1>6, <2>2, PipelineStart
  <2>3. CASE P!GetCached("monitor") /\ panswer'.payload = P!Consumed.payload
    <3>1. pcache' = P!Consumed
      BY <2>3 DEF P!GetCached
    <3> QED
      BY <1>5, <1>6, <2>3, <3>1
  <2>4. CASE P!Good(pwait["monitor"]) /\ panswer'.payload = pwait["monitor"].result
    BY <1>1, <1>6, <2>4 DEF P!SummariesAreTruthful, P!Clients
  <2> QED
    BY <2>1, <2>2, <2>3, <2>4, AnswerMoves
<1>7. /\ P!Good(pinflight') => pinflight'.result \in P!Payload
      /\ \A c \in P!Clients : P!Good(pwait'[c]) => pwait'[c].result \in P!Payload
      /\ pcache'.payload # Absent => pcache'.payload \in P!Payload
      /\ panswer'.payload # Absent => panswer'.payload \in P!Payload
  <2>1. \A f \in P!Future : P!Good(f) => f.result \in P!Payload
    BY DEF P!Good, P!Done, P!Future, P!Result
  <2>2. pinflight' \in P!Future /\ \A c \in P!Clients : pwait'[c] \in P!Future
    BY <1>0 DEF P!PipelineTypeOK
  <2>3. pcache' \in P!Cache /\ panswer' \in P!Answer
    BY <1>0 DEF P!PipelineTypeOK
  <2> QED
    BY <2>1, <2>2, <2>3 DEF P!Cache, P!Answer
<1>8. (pcache.payload # Absent => P!Truthful(pcache.payload))'
  BY <1>5, <1>7 DEF P!Truthful, P!Saw
<1>9. (P!Good(pinflight) => P!Truthful(pinflight.result))'
  BY <1>3, <1>7 DEF P!Truthful, P!Saw
<1>10. (\A c \in P!Clients : P!Good(pwait[c]) => P!Truthful(pwait[c].result))'
  BY <1>4, <1>7 DEF P!Truthful, P!Saw
<1>11. (panswer.payload # Absent => P!Truthful(panswer.payload))'
  BY <1>6, <1>7 DEF P!Truthful, P!Saw
<1> QED
  BY <1>8, <1>9, <1>10, <1>11 DEF P!SummariesAreTruthful

\* What a step does to the monitor, and to what it asked.
LEMMA MonitorMoves ==
    ASSUME P!PipelineTypeOK, [P!Next]_pvars
    PROVE  \/ pmonitor'.streak = pmonitor.streak /\ pmonitor'.heard = pmonitor.heard
           \/ pmonitor'.streak = 0 /\ pmonitor'.heard = pmonitor.heard
           \/ P!Heard
<1>0. pmonitor \in P!Monitor
  BY DEF P!PipelineTypeOK
<1>1. P!StartPoll => pmonitor'.streak = pmonitor.streak /\ pmonitor'.heard = pmonitor.heard
  BY <1>0 DEF P!StartPoll, P!Monitor
<1>2. ASSUME P!Unheard
      PROVE  /\ pmonitor'.streak = pmonitor.streak \/ pmonitor'.streak = 0
             /\ pmonitor'.heard = pmonitor.heard
  <2>1. CASE pmonitor.attempt < Retries
    <3>1. pmonitor' = [pmonitor EXCEPT !.attempt = @ + 1]
      BY <1>2, <2>1 DEF P!Unheard
    <3> QED
      BY <1>0, <3>1 DEF P!Monitor
  <2>2. CASE ~ (pmonitor.attempt < Retries)
    BY <1>0, <1>2, <2>2 DEF P!Unheard, P!Slept, P!Monitor
  <2> QED
    BY <2>1, <2>2
<1>3. ASSUME NEW c \in P!Clients,
             P!GetCached(c) \/ P!GetAndWait(c) \/ P!WaitTimesOut(c) \/ P!WaitEnds(c)
      PROVE  pmonitor' = pmonitor
  BY <1>3 DEF P!GetCached, P!GetAndWait, P!WaitTimesOut, P!WaitEnds
<1>4. ASSUME NEW b \in P!Builders,
             (\E lost \in SUBSET Devices : P!ReadPeers(b, lost)) \/ P!BuildEnds(b) \/ P!BuildRaises(b)
      PROVE  pmonitor' = pmonitor
  BY <1>4 DEF P!ReadPeers, P!BuildEnds, P!BuildRaises, P!Finish
<1>5. ASSUME P!Push \/ P!Tick \/ P!Healthz \/ P!StartRefresh \/ P!Force \/ UNCHANGED pvars
      PROVE  pmonitor' = pmonitor
  BY <1>5 DEF P!Push, P!Tick, P!Healthz, P!StartRefresh, P!Force, pvars
<1>6. ASSUME NEW d \in Devices, NEW h \in P!Healths, NEW n \in 0..pcanon.snap, P!Publish(d, h, n)
      PROVE  pmonitor' = pmonitor
  BY <1>6 DEF P!Publish
<1> QED
  BY <1>1, <1>2, <1>3, <1>4, <1>5, <1>6 DEF P!Next

Asked == panswer # P!NoAnswer \/ pwait["monitor"] # Absent

\* Whoever starts to ask leaves no ended refresh unused.
LEMMA AskedMoves ==
    ASSUME P!PipelineTypeOK, P!QueueIsKept, [P!Next]_pvars,
           panswer' # P!NoAnswer \/ pwait'["monitor"] # Absent
    PROVE  Asked \/ ~ P!Done(pinflight')
<1>1. ASSUME NEW c \in P!Clients, P!GetCached(c) \/ P!GetAndWait(c)
      PROVE  ~ P!Done(pinflight')
  <2>1. ~ P!Done(P!AfterConsumed)
    BY DEF P!AfterConsumed, P!Done
  <2>2. P!IsPending(pinflight') => ~ P!Done(pinflight')
    BY DEF P!IsPending, P!Done
  <2> QED
    BY <1>1, <2>1, <2>2, OneIsEnsured DEF P!GetCached, P!GetAndWait
<1>2. ASSUME NEW c \in P!Clients, P!WaitTimesOut(c) \/ P!WaitEnds(c)
      PROVE  Asked
  <2>1. CASE c = "monitor"
    BY <1>2, <2>1 DEF P!WaitTimesOut, P!WaitEnds, P!Done, Asked
  <2>2. CASE c # "monitor"
    <3>1. panswer' = panswer
      BY <1>2, <2>2 DEF P!WaitTimesOut, P!WaitEnds, P!Answered
    <3>2. pwait'["monitor"] = pwait["monitor"]
      BY <1>2, <2>2 DEF P!WaitTimesOut, P!WaitEnds, P!PipelineTypeOK, P!Clients
    <3> QED
      BY <3>1, <3>2 DEF Asked
  <2> QED
    BY <2>1, <2>2
<1>3. ASSUME NEW b \in P!Builders, P!BuildEnds(b) \/ P!BuildRaises(b)
      PROVE  Asked
  <2>1. PICK result : P!Finish(b, result)
    BY <1>3 DEF P!BuildEnds, P!BuildRaises
  <2>2. panswer' = panswer
    BY <2>1 DEF P!Finish
  <2>3. pwait'["monitor"] # Absent => pwait["monitor"] # Absent
    <3>1. CASE b = "background"
      <4>1. pwait'["monitor"] = P!Resolved(pwait["monitor"], b, result)
        BY <2>1, <3>1 DEF P!Finish, P!Clients
      <4> QED
        BY <4>1 DEF P!Resolved
    <3>2. CASE b # "background"
      BY <2>1, <3>2 DEF P!Finish
    <3> QED
      BY <3>1, <3>2
  <2> QED
    BY <2>2, <2>3 DEF Asked
<1>4. P!Heard \/ P!Unheard => panswer' = P!NoAnswer /\ pwait' = pwait
  BY DEF P!Heard, P!Unheard
<1>5. ASSUME P!Push \/ P!Tick \/ P!Healthz \/ P!StartRefresh \/ P!Force \/ P!StartPoll
             \/ UNCHANGED pvars
      PROVE  panswer' = panswer /\ pwait' = pwait
  BY <1>5 DEF P!Push, P!Tick, P!Healthz, P!StartRefresh, P!Force, P!StartPoll, pvars
<1>6. ASSUME NEW d \in Devices, NEW h \in P!Healths, NEW n \in 0..pcanon.snap, P!Publish(d, h, n)
      PROVE  panswer' = panswer /\ pwait' = pwait
  BY <1>6 DEF P!Publish
<1>7. ASSUME NEW b \in P!Builders, NEW lost \in SUBSET Devices, P!ReadPeers(b, lost)
      PROVE  panswer' = panswer /\ pwait' = pwait
  BY <1>7 DEF P!ReadPeers
<1> QED
  BY <1>1, <1>2, <1>3, <1>4, <1>5, <1>6, <1>7 DEF P!Next, Asked

LEMMA EndedNext ==
    ASSUME P!PipelineTypeOK, P!QueueIsKept, P!ReadsInOrder, P!AsksInTurn,
           P!EndedIsRecent, [P!Next]_pvars
    PROVE  P!EndedIsRecent'
<1>0. P!PipelineTypeOK' /\ P!AsksInTurn'
  BY PipelineTypeNext, AsksNext
<1>1. /\ pnow \in Nat /\ pnow' \in Nat
      /\ pmonitor'.streak \in Nat /\ pmonitor.streak \in Nat
      /\ pmonitor'.heard # Absent => pmonitor'.heard \in Nat
      /\ pmonitor'.streak >= 1 => pmonitor'.heard # Absent /\ pmonitor'.heard <= pnow'
  <2>1. pmonitor' \in P!Monitor
    BY <1>0 DEF P!PipelineTypeOK
  <2> QED
    BY <1>0, <2>1, ClockGoes, PipelineTimes DEF P!AsksInTurn, P!Monitor, P!Times
<1>2. ASSUME P!Tick PROVE /\ \A c \in P!Clients : ~ P!Good(pwait'[c])
                          /\ panswer' = P!NoAnswer /\ pwait'["monitor"] = Absent
  BY <1>2 DEF P!Tick, P!Good, P!Done, P!AsksInTurn, P!Clients
<1>3. \A c \in P!Clients : P!Good(pwait'[c]) => pwait'[c].result.built = pnow'
  <2> SUFFICES ASSUME NEW c \in P!Clients, P!Good(pwait'[c])
               PROVE  pwait'[c].result.built = pnow'
    OBVIOUS
  <2>1. pnow' = pnow
    BY <1>2, PipelineSides
  <2>2. pwait'[c] = pwait[c] \/ pwait'[c].result.built = pnow
    BY FuturesMove DEF NewSummary
  <2> QED
    BY <2>1, <2>2 DEF P!EndedIsRecent
<1>4. ASSUME P!Good(pinflight')
      PROVE  /\ pmonitor'.streak >= 1 => pinflight'.result.built >= pmonitor'.heard
             /\ panswer' # P!NoAnswer \/ pwait'["monitor"] # Absent =>
                   pinflight'.result.built = pnow'
  <2>1. CASE pnow' = pnow /\ NewSummary(pinflight'.result)
    BY <1>1, <2>1 DEF NewSummary
  <2>2. CASE pinflight' = pinflight
    <3>1. P!Good(pinflight)
      BY <1>4, <2>2
    <3>2. ASSUME panswer' # P!NoAnswer \/ pwait'["monitor"] # Absent
          PROVE  pinflight'.result.built = pnow'
      <4>1. Asked
        BY <1>4, <3>2, AskedMoves DEF P!Good
      <4>2. pnow' = pnow
        BY <1>2, <3>2, PipelineSides
      <4> QED
        BY <2>2, <3>1, <4>1, <4>2 DEF Asked, P!EndedIsRecent
    <3>3. ASSUME pmonitor'.streak >= 1 PROVE pinflight'.result.built >= pmonitor'.heard
      <4>1. CASE P!Heard
        <5>1. panswer # P!NoAnswer
          BY <4>1 DEF P!Heard, P!NoAnswer
        <5>2. pmonitor'.heard = pnow
          BY <4>1 DEF P!Heard, P!Slept, P!PipelineTypeOK, P!Monitor
        <5>3. pinflight.result.built = pnow
          BY <3>1, <5>1 DEF P!EndedIsRecent
        <5> QED
          BY <1>1, <2>2, <5>2, <5>3
      <4>2. CASE pmonitor'.streak = pmonitor.streak /\ pmonitor'.heard = pmonitor.heard
        BY <2>2, <3>1, <3>3, <4>2 DEF P!EndedIsRecent
      <4>3. CASE pmonitor'.streak = 0
        BY <3>3, <4>3
      <4> QED
        BY <4>1, <4>2, <4>3, MonitorMoves
    <3> QED
      BY <3>2, <3>3
  <2> QED
    BY <1>4, <2>1, <2>2, FuturesMove
<1> QED
  BY <1>3, <1>4 DEF P!EndedIsRecent

\* A poll that is heard after others comes one interval after the last.
LEMMA HeardInTurn ==
    ASSUME P!PipelineTypeOK, P!PollsInTime, P!AsksInTurn, P!Heard
    PROVE  /\ pmonitor'.heard = pnow /\ pnow' = pnow /\ pcache' = pcache
           /\ pmonitor'.streak \in Nat /\ pmonitor'.streak >= 1
           /\ pmonitor'.due = pnow + PollInterval /\ pmonitor'.step = "idle"
           /\ pmonitor'.streak >= 2 =>
                 /\ pmonitor.streak >= 1
                 /\ pmonitor.heard \in Nat /\ pnow = pmonitor.heard + PollInterval
           /\ pmonitor'.streak = 3 => pmonitor.streak >= 2
           /\ pmonitor'.health = P!Verdict(panswer)
           /\ panswer.state \in {"fresh", "stale"} /\ panswer' = P!NoAnswer
<1>0. /\ pmonitor \in P!Monitor /\ pmonitor.streak \in Nat /\ pnow \in Nat /\ PollInterval \in Nat
      /\ pmonitor.heard # Absent => pmonitor.heard \in Nat
      /\ pmonitor.step = "asking" /\ pnow' = pnow /\ pcache' = pcache
      /\ panswer.state \in {"fresh", "stale"} /\ panswer' = P!NoAnswer
  BY PipelineTimes DEF P!PipelineTypeOK, P!Heard
<1>1. /\ pmonitor'.heard = pnow /\ pmonitor'.health = P!Verdict(panswer)
      /\ pmonitor'.streak = IF pmonitor.streak = 3 THEN 3 ELSE pmonitor.streak + 1
      /\ pmonitor'.due = pnow + PollInterval /\ pmonitor'.step = "idle"
  BY <1>0 DEF P!Heard, P!Slept, P!Monitor, P!Settled
<1>2. ASSUME pmonitor.streak >= 1
      PROVE  pmonitor.heard \in Nat /\ pnow = pmonitor.heard + PollInterval
  <2>1. pmonitor.heard # Absent /\ pmonitor.failures = 0 /\ pnow = pmonitor.due
    BY <1>0, <1>2 DEF P!AsksInTurn, P!PollsInTime
  <2>2. pmonitor.due = pmonitor.heard + (pmonitor.failures + 1) * PollInterval
    BY <2>1 DEF P!PollsInTime
  <2>3. (pmonitor.failures + 1) * PollInterval = PollInterval
    BY <1>0, <2>1
  <2> QED
    BY <1>0, <2>1, <2>2, <2>3
<1> QED
  BY <1>0, <1>1, <1>2

LEMMA StoredNext ==
    ASSUME P!PipelineTypeOK, P!PollsInTime, P!ReadsInOrder, P!AsksInTurn,
           P!EndedIsRecent, P!StoredIsRecent, [P!Next]_pvars
    PROVE  P!StoredIsRecent'
<1>1. /\ pnow \in Nat /\ pnow' \in Nat /\ pnow <= pnow' /\ PollInterval \in Nat
      /\ pcache.updated \in Nat /\ pmonitor.streak \in Nat
      /\ pmonitor.streak >= 1 => pmonitor.heard \in Nat /\ pmonitor.heard <= pnow
      /\ pcache.payload # Absent => pcache.payload \in P!Payload /\ pcache.payload.built \in Nat
  BY ClockGoes, PipelineTimes DEF P!AsksInTurn, P!Payload, P!Times
<1>2. CASE pcache'.payload = pcache.payload /\ pcache'.updated = pcache.updated
  <2>1. pcache'.updated <= pnow'
    BY <1>1, <1>2 DEF P!StoredIsRecent
  <2>2. CASE P!Heard
    <3>1. ASSUME pcache'.payload # Absent, pmonitor'.streak >= 1, pcache'.updated > pmonitor'.heard
          PROVE  FALSE
      BY <1>1, <1>2, <2>2, <3>1, HeardInTurn DEF P!StoredIsRecent
    <3>2. ASSUME pcache'.payload # Absent, pmonitor'.streak >= 2,
                 pcache'.updated > pmonitor'.heard - PollInterval
          PROVE  pcache'.payload.built >= pmonitor'.heard - PollInterval
      <4>1. /\ pmonitor.streak >= 1 /\ pmonitor.heard \in Nat
            /\ pmonitor'.heard - PollInterval = pmonitor.heard
        BY <1>1, <2>2, <3>2, HeardInTurn
      <4> QED
        BY <1>1, <1>2, <3>2, <4>1 DEF P!StoredIsRecent
    <3> QED
      BY <2>1, <3>1, <3>2 DEF P!StoredIsRecent
  <2>3. CASE pmonitor'.streak = pmonitor.streak /\ pmonitor'.heard = pmonitor.heard
    BY <1>2, <2>1, <2>3 DEF P!StoredIsRecent
  <2>4. CASE pmonitor'.streak = 0
    BY <2>1, <2>4 DEF P!StoredIsRecent
  <2> QED
    BY <2>2, <2>3, <2>4, MonitorMoves
<1>3. ASSUME pnow' = pnow, NEW p \in P!Payload, Dated(p), Ended(p) \/ NewSummary(p)
      PROVE  P!StoredIsRecent'
  <2>1. pcache'.payload = p /\ pcache'.updated = pnow /\ p.built \in Nat
    BY <1>3 DEF Dated, P!Payload, P!Times
  <2>2. pmonitor.streak >= 1 => p.built >= pmonitor.heard
    BY <1>1, <1>3, <2>1 DEF Ended, NewSummary, P!EndedIsRecent
  <2>3. CASE P!Heard
    BY <1>2, <2>3, HeardInTurn
  <2>4. CASE pmonitor'.streak = pmonitor.streak /\ pmonitor'.heard = pmonitor.heard
    BY <1>1, <1>3, <2>1, <2>2, <2>4 DEF P!StoredIsRecent
  <2>5. CASE pmonitor'.streak = 0
    BY <1>1, <1>3, <2>1, <2>5 DEF P!StoredIsRecent
  <2> QED
    BY <2>3, <2>4, <2>5, MonitorMoves
<1> QED
  BY <1>2, <1>3, CacheMoves DEF Marked

\* What a poll followed up stays so: an ended refresh is stored, or marked.
LEMMA FollowedStays ==
    ASSUME P!Timely, P!PipelineTypeOK, P!QueueIsKept, P!ReadsInOrder, [P!Next]_pvars,
           NEW time \in Nat, time <= pnow, P!FollowedUp(time)
    PROVE  P!FollowedUp(time)'
<1>0. /\ pnow \in Nat /\ SummaryStale \in Nat /\ 0 < SummaryStale /\ pnow # Absent
      /\ pbuild \in [P!Builders -> P!Build] /\ "background" \in P!Builders
  BY PipelineTimes, PipelineStart DEF P!Timely, P!PipelineTypeOK, P!Builders
<1>1. ASSUME Marked PROVE P!FollowedUp(time)'
  BY <1>1 DEF Marked, P!FollowedUp
<1>2. ASSUME NEW p \in P!Payload, Dated(p) PROVE P!FollowedUp(time)'
  BY <1>0, <1>2 DEF Dated, P!FollowedUp
<1>3. ASSUME pcache' = P!Consumed, P!Done(pinflight) PROVE P!FollowedUp(time)'
  BY <1>1, <1>2, <1>3, MarkedOrDated, ConsumedIsTyped
<1>4. ASSUME pcache' = pcache, pcache.error \/ pcache.updated > time - SummaryStale
      PROVE  P!FollowedUp(time)'
  BY <1>4 DEF P!FollowedUp
<1>5. ASSUME pinflight' = pinflight, pnow' = pnow, pcache' = pcache,
             \/ pbuild'["background"] = pbuild["background"]
             \/ /\ pbuild["background"].step # "idle" /\ pbuild'["background"].step # "idle"
                /\ pbuild'["background"].begun = pbuild["background"].begun
      PROVE  P!FollowedUp(time)'
  BY <1>5 DEF P!FollowedUp
<1>6. ASSUME P!Done(pinflight') PROVE P!FollowedUp(time)'
  BY <1>6 DEF P!FollowedUp
<1>7. ASSUME NEW c \in P!Clients, P!GetCached(c) \/ P!GetAndWait(c) PROVE P!FollowedUp(time)'
  <2>1. /\ pcache' = P!Consumed /\ pbuild' = pbuild /\ pnow' = pnow
        /\ pinflight' = P!AfterConsumed \/ P!Ensured(P!AfterConsumed)
    BY <1>7 DEF P!GetCached, P!GetAndWait
  <2>2. CASE ~ P!Done(pinflight)
    <3>1. pcache' = pcache /\ P!AfterConsumed = pinflight
      BY <2>1, <2>2 DEF P!Consumed, P!AfterConsumed
    <3>2. CASE P!IsPending(pinflight)
      <4>1. pinflight' = pinflight
        BY <2>1, <3>1, <3>2, OneIsEnsured
      <4> QED
        BY <1>5, <2>1, <3>1, <4>1
    <3>3. CASE ~ P!IsPending(pinflight)
      BY <1>4, <2>2, <3>1, <3>3 DEF P!FollowedUp
    <3> QED
      BY <3>2, <3>3
  <2> QED
    BY <1>3, <2>1, <2>2
<1>8. CASE P!Healthz
  BY <1>3, <1>8 DEF P!Healthz
<1>9. ASSUME NEW c \in P!Clients, P!WaitTimesOut(c) \/ P!WaitEnds(c) PROVE P!FollowedUp(time)'
  <2>1. CASE pcache' = [pcache EXCEPT !.error = TRUE]
    BY <1>1, <2>1, MarkedOrDated
  <2>2. CASE P!Good(pwait[c]) /\ pcache' = P!Stored(pwait[c].result)
    BY <1>2, <2>2, MarkedOrDated, ConsumedIsTyped
  <2> QED
    BY <1>9, <2>1, <2>2 DEF P!WaitTimesOut, P!WaitEnds
<1>10. ASSUME NEW b \in P!Builders, P!BuildEnds(b) \/ P!BuildRaises(b) PROVE P!FollowedUp(time)'
  <2>1. PICK result \in P!Payload \cup {Raised} : P!Finish(b, result)
    BY <1>10, BuildIsNew
  <2>2. CASE b # "background"
    <3>1. CASE result = Raised
      BY <1>1, <2>1, <2>2, <3>1, MarkedOrDated DEF P!Finish
    <3>2. CASE result # Raised
      BY <1>2, <2>1, <2>2, <3>2, MarkedOrDated DEF P!Finish
    <3> QED
      BY <3>1, <3>2
  <2>3. CASE b = "background"
    <3>1. /\ pinflight' = P!Resolved(pinflight, b, result) /\ pcache' = pcache
          /\ pinflight \in P!Future /\ result # Pending
      BY <2>1, <2>3, PipelineStart DEF P!Finish, P!PipelineTypeOK
    <3>2. CASE P!Done(pinflight)
      <4>1. CASE pinflight' = pinflight
        BY <1>6, <3>2, <4>1
      <4>2. CASE pinflight' = [pinflight EXCEPT !.result = result]
        <5>1. pinflight \in [id: Nat, result: P!Result] /\ result \in P!Result
          BY <2>1, <3>1, <3>2 DEF P!Done, P!Future, P!Result
        <5>2. pinflight' # Absent /\ pinflight'.result = result
          BY <4>2, <5>1, PipelineStart
        <5>3. P!Done(pinflight')
          BY <3>1, <5>2 DEF P!Done
        <5> QED
          BY <1>6, <5>3
      <4> QED
        BY <3>1, <4>1, <4>2 DEF P!Resolved
    <3>3. CASE P!IsPending(pinflight)
      <4>1. pbuild[b].step = "snapshot"
        BY <1>10, BuildIsNew
      <4>2. pbuild[b] # P!Idle
        BY <4>1 DEF P!Idle
      <4>3. pinflight.id = pbuild[b].id
        BY <2>3, <3>3, <4>2 DEF P!QueueIsKept
      <4>4. pinflight # Absent /\ pinflight' = [pinflight EXCEPT !.result = result]
        BY <3>1, <3>3, <4>3 DEF P!Resolved, P!IsPending
      <4>5. pinflight' \in [id: Nat, result: P!Result] /\ pinflight'.result = result
        BY <3>1, <4>4, PipelineStart DEF P!Future, P!Result
      <4>6. P!Done(pinflight')
        BY <3>1, <4>5, PipelineStart DEF P!Done
      <4> QED
        BY <1>6, <4>6
    <3>4. CASE ~ P!Done(pinflight) /\ ~ P!IsPending(pinflight)
      BY <1>4, <3>1, <3>4 DEF P!FollowedUp
    <3> QED
      BY <3>2, <3>3, <3>4
  <2> QED
    BY <2>2, <2>3
<1>11. CASE P!StartRefresh
  <2>1. /\ pinflight' = pinflight /\ pcache' = pcache /\ pnow' = pnow
        /\ pbuild["background"].step = "idle"
        /\ pbuild'["background"].step = "peers" /\ pbuild'["background"].begun = pnow
    BY <1>0, <1>11 DEF P!StartRefresh, P!Idle
  <2> QED
    BY <1>0, <2>1 DEF P!FollowedUp
<1>12. CASE P!Tick
  <2>1. /\ pinflight' = pinflight /\ pcache' = pcache /\ pbuild' = pbuild
        /\ pqueue # <<>> => pbuild["background"].step # "idle"
    BY <1>12 DEF P!Tick
  <2>2. P!IsPending(pinflight) => pqueue # <<>>
    BY DEF P!QueueIsKept
  <2> QED
    BY <2>1, <2>2 DEF P!FollowedUp
<1>13. ASSUME NEW b \in P!Builders, NEW lost \in SUBSET Devices, P!ReadPeers(b, lost)
       PROVE  P!FollowedUp(time)'
  <2>1. /\ pinflight' = pinflight /\ pcache' = pcache /\ pnow' = pnow
        /\ pbuild[b].step = "peers"
        /\ pbuild' = [pbuild EXCEPT ![b].step = "snapshot", ![b].peers = P!PeersSeen(lost)]
    BY <1>13 DEF P!ReadPeers
  <2>2. CASE b = "background"
    <3>1. pbuild'["background"].step = "snapshot"
          /\ pbuild'["background"].begun = pbuild["background"].begun
      BY <1>0, <2>1, <2>2 DEF P!Build
    <3> QED
      BY <1>5, <2>1, <2>2, <3>1
  <2>3. CASE b # "background"
    <3>1. pbuild'["background"] = pbuild["background"]
      BY <1>0, <2>1, <2>3
    <3> QED
      BY <1>5, <2>1, <3>1
  <2> QED
    BY <2>2, <2>3
<1>14. CASE P!Force
  <2>1. /\ pinflight' = pinflight /\ pcache' = pcache /\ pnow' = pnow
        /\ pbuild'["background"] = pbuild["background"]
    BY <1>0, <1>14 DEF P!Force
  <2> QED
    BY <1>5, <2>1
<1>15. ASSUME P!Push \/ P!StartPoll \/ P!Heard \/ P!Unheard \/ UNCHANGED pvars
       PROVE  P!FollowedUp(time)'
  BY <1>5, <1>15 DEF P!Push, P!StartPoll, P!Heard, P!Unheard, pvars
<1>16. ASSUME NEW d \in Devices, NEW h \in P!Healths, NEW n \in 0..pcanon.snap, P!Publish(d, h, n)
       PROVE  P!FollowedUp(time)'
  BY <1>5, <1>16 DEF P!Publish
<1> QED
  BY <1>7, <1>8, <1>9, <1>10, <1>11, <1>12, <1>13, <1>14, <1>15, <1>16 DEF P!Next

LEMMA RefreshNext ==
    ASSUME P!Timely, P!PipelineTypeOK, P!QueueIsKept, P!PollsInTime, P!ReadsInOrder,
           P!AsksInTurn, P!RefreshFollows, [P!Next]_pvars
    PROVE  P!RefreshFollows'
<1>0. /\ pnow \in Nat /\ pnow' \in Nat /\ SummaryStale \in Nat /\ 0 < SummaryStale
      /\ "monitor" \in P!Clients /\ "background" \in P!Builders
      /\ pmonitor.streak >= 1 => pmonitor.heard \in Nat /\ pmonitor.heard <= pnow
  BY PipelineTimes, ClockGoes DEF P!Timely, P!AsksInTurn, P!Clients, P!Builders
<1>1. ASSUME NEW time \in Nat, time <= pnow, P!FollowedUp(time) PROVE P!FollowedUp(time)'
  BY <1>1, FollowedStays
<1>2. ASSUME panswer.payload # Absent PROVE P!FollowedUp(pnow) /\ ~ P!Tick
  <2>1. ~ P!Tick
    <3>1. panswer # P!NoAnswer
      BY <1>2 DEF P!NoAnswer
    <3> QED
      BY <3>1 DEF P!AsksInTurn, P!Tick
  <2> QED
    BY <1>2, <2>1 DEF P!RefreshFollows
<1>3. ASSUME NEW time \in Nat, time = pnow', panswer'.payload # Absent PROVE P!FollowedUp(time)'
  <2>1. CASE panswer' = panswer
    <3>1. pnow' = pnow /\ P!FollowedUp(pnow)
      BY <1>2, <1>3, <2>1, PipelineSides
    <3>2. P!FollowedUp(time) /\ time <= pnow
      BY <1>0, <1>3, <3>1
    <3> QED
      BY <1>1, <3>2
  <2>2. CASE P!GetCached("monitor")
    <3>1. /\ pcache' = P!Consumed /\ pnow' = pnow /\ pbuild' = pbuild
          /\ pcache' \in P!Cache
          /\ P!IsStale(pcache') => P!Ensured(P!AfterConsumed)
      BY <2>2, ConsumedIsTyped DEF P!GetCached
    <3>2. CASE P!IsStale(pcache')
      <4>1. P!IsPending(pinflight')
        BY <3>1, <3>2, OneIsEnsured
      <4>2. pbuild["background"].step # "idle" => pbuild["background"].begun <= pnow
        BY <1>0 DEF P!ReadsInOrder
      <4> QED
        BY <1>3, <3>1, <4>1, <4>2 DEF P!FollowedUp
    <3>3. CASE ~ P!IsStale(pcache')
      <4>1. pcache'.updated \in Nat
        BY <3>1 DEF P!Cache, P!Times
      <4>2. pcache'.updated > time - SummaryStale
        BY <1>0, <1>3, <3>1, <3>3, <4>1 DEF P!IsStale
      <4> QED
        BY <4>2 DEF P!FollowedUp
    <3> QED
      BY <3>2, <3>3
  <2>3. CASE P!WaitEnds("monitor") /\ P!Good(pwait["monitor"])
    <3>1. Dated(pwait["monitor"].result) /\ pnow' = pnow
      BY <1>0, <2>3, MarkedOrDated, ConsumedIsTyped DEF P!WaitEnds
    <3>2. pcache'.updated > time - SummaryStale
      BY <1>0, <1>3, <3>1 DEF Dated
    <3> QED
      BY <3>2 DEF P!FollowedUp
  <2> QED
    BY <1>3, <2>1, <2>2, <2>3, AnswerMoves
<1>4. ASSUME NEW time \in Nat, time = pmonitor'.heard, pmonitor'.streak >= 1
      PROVE  P!FollowedUp(time)'
  <2>1. CASE P!Heard
    <3>1. panswer.payload # Absent /\ pmonitor'.heard = pnow
      BY <2>1, HeardInTurn, PipelineStart DEF P!PipelineTypeOK
    <3>2. P!FollowedUp(time) /\ time <= pnow
      BY <1>0, <1>2, <1>4, <3>1
    <3> QED
      BY <1>1, <3>2
  <2>2. CASE pmonitor'.streak = pmonitor.streak /\ pmonitor'.heard = pmonitor.heard
    BY <1>0, <1>1, <1>4, <2>2 DEF P!RefreshFollows
  <2>3. CASE pmonitor'.streak = 0
    BY <1>4, <2>3
  <2> QED
    BY <2>1, <2>2, <2>3, MonitorMoves
<1>5. pmonitor'.streak >= 1 => pmonitor'.heard \in Nat
  <2>1. P!PipelineTypeOK' /\ P!AsksInTurn'
    BY PipelineTypeNext, AsksNext
  <2> QED
    BY <2>1 DEF P!PipelineTypeOK, P!AsksInTurn, P!Monitor, P!Times
<1>6. (panswer.payload # Absent => P!FollowedUp(pnow))'
  BY <1>0, <1>3 DEF P!FollowedUp
<1>7. (pmonitor.streak >= 1 => P!FollowedUp(pmonitor.heard))'
  BY <1>4, <1>5 DEF P!FollowedUp
<1> QED
  BY <1>6, <1>7 DEF P!RefreshFollows

\* What the monitor is answered from the cache, when it heard from it before.
LEMMA CachedIsRecent ==
    ASSUME P!Timely, P!PipelineInv, P!AsksInTurn, P!ReadsInOrder, P!EndedIsRecent,
           P!StoredIsRecent, P!RefreshFollows, P!GetCached("monitor"),
           pmonitor.streak >= 2
    PROVE  \/ P!IsStale(pcache') /\ pcache'.error
           \/ pcache'.payload.built >= pnow - 2 * PollInterval
<1>0. /\ P!PipelineTypeOK /\ pnow \in Nat /\ PollInterval \in Nat /\ SummaryStale \in Nat
      /\ BuildTime \in Nat /\ SummaryStale <= PollInterval /\ BuildTime < PollInterval
      /\ pmonitor.streak \in Nat /\ "background" \in P!Builders
  BY PipelineTimes DEF P!PipelineInv, P!Timely, P!Builders
<1>1. pmonitor.heard \in Nat /\ pnow = pmonitor.heard + PollInterval
  <2>1. pmonitor.heard \in Nat /\ pmonitor.failures = 0 /\ pnow = pmonitor.due
        /\ pmonitor.due = pmonitor.heard + (pmonitor.failures + 1) * PollInterval
    BY <1>0, PipelineTimes
       DEF P!GetCached, P!Asks, P!AsksInTurn, P!PipelineInv, P!PollsInTime
  <2>2. (pmonitor.failures + 1) * PollInterval = PollInterval
    BY <1>0, <2>1
  <2> QED
    BY <1>0, <2>1, <2>2
<1>2. /\ pcache' = P!Consumed /\ pnow' = pnow /\ pcache'.payload # Absent
      /\ pcache'.payload \in P!Payload /\ pcache'.updated \in Nat
      /\ pcache'.payload.built \in Nat
  <2>1. pcache' = P!Consumed /\ pnow' = pnow /\ pcache'.payload # Absent
    BY DEF P!GetCached
  <2>2. pcache' \in P!Cache
    BY <1>0, <2>1, ConsumedIsTyped
  <2> QED
    BY <2>1, <2>2 DEF P!Cache, P!Payload, P!Times
<1>3. CASE P!Good(pinflight) /\ Dated(pinflight.result)
  <2>1. pinflight.result.built >= pmonitor.heard
    BY <1>0, <1>3 DEF P!EndedIsRecent
  <2> QED
    BY <1>0, <1>1, <1>2, <1>3, <2>1 DEF Dated
<1>4. ASSUME pcache'.payload = pcache.payload, pcache'.updated = pcache.updated,
             ~ P!IsStale(pcache')
      PROVE  pcache'.payload.built >= pnow - 2 * PollInterval
  <2>1. pcache.updated > pmonitor.heard
    BY <1>0, <1>1, <1>2, <1>4 DEF P!IsStale
  <2>2. pcache.payload.built >= pmonitor.heard
    BY <1>0, <1>2, <1>4, <2>1 DEF P!StoredIsRecent
  <2> QED
    BY <1>0, <1>1, <1>2, <1>4, <2>2
<1>5. CASE P!Done(pinflight) /\ Marked
  BY <1>4, <1>5 DEF Marked
<1>6. CASE ~ P!Done(pinflight) /\ pcache' = pcache /\ P!IsStale(pcache')
  <2>1. P!FollowedUp(pmonitor.heard)
    BY <1>0 DEF P!RefreshFollows
  <2>2. CASE pcache.error
    BY <1>6, <2>2
  <2>3. CASE pcache.updated > pmonitor.heard - SummaryStale
    <3>1. pcache.updated > pmonitor.heard - PollInterval
      BY <1>0, <1>1, <1>2, <1>6, <2>3
    <3>2. pcache.payload.built >= pmonitor.heard - PollInterval
      BY <1>0, <1>2, <1>6, <3>1 DEF P!StoredIsRecent
    <3> QED
      BY <1>0, <1>1, <1>2, <1>6, <3>2
  <2>4. ~ (IF pbuild["background"].step = "idle" THEN pnow = pmonitor.heard
           ELSE pbuild["background"].begun <= pmonitor.heard)
    <3>1. CASE pbuild["background"].step = "idle"
      BY <1>0, <1>1, <3>1
    <3>2. CASE pbuild["background"].step # "idle"
      <4>1. pnow <= pbuild["background"].begun + BuildTime /\ pbuild["background"].begun \in Nat
        BY <1>0, <3>2, PipelineTimes DEF P!ReadsInOrder
      <4> QED
        BY <1>0, <1>1, <3>2, <4>1
    <3> QED
      BY <3>1, <3>2
  <2> QED
    BY <1>6, <2>1, <2>2, <2>3, <2>4 DEF P!FollowedUp
<1> QED
  BY <1>0, <1>2, <1>3, <1>4, <1>5, <1>6, MarkedOrDated

LEMMA AnswerNext ==
    ASSUME P!Timely, P!PipelineInv, P!AsksInTurn, P!ReadsInOrder, P!EndedIsRecent,
           P!StoredIsRecent, P!RefreshFollows, P!AnswerIsRecent, [P!Next]_pvars
    PROVE  P!AnswerIsRecent'
<1>0. /\ P!PipelineTypeOK /\ P!QueueIsKept /\ P!PollsInTime
      /\ pnow \in Nat /\ PollInterval \in Nat /\ pmonitor.streak \in Nat /\ "monitor" \in P!Clients
  BY PipelineTimes DEF P!PipelineInv, P!Clients
<1> SUFFICES ASSUME panswer'.payload # Absent, pmonitor'.streak >= 2
             PROVE  \/ panswer'.state = "stale" /\ panswer'.suspect
                    \/ panswer'.payload.built >= pnow' - 2 * PollInterval
  BY DEF P!AnswerIsRecent
<1>1. ~ P!Heard
  BY DEF P!Heard, P!NoAnswer
<1>2. pmonitor.streak >= 2
  BY <1>0, <1>1, MonitorMoves
<1>3. CASE panswer' = panswer
  <2>1. panswer # P!NoAnswer
    BY <1>3 DEF P!NoAnswer
  <2>2. pnow' = pnow
    BY <1>0, <2>1, PipelineSides DEF P!AsksInTurn, P!Tick
  <2> QED
    BY <1>2, <1>3, <2>2 DEF P!AnswerIsRecent
<1>4. CASE P!WaitEnds("monitor") /\ P!Good(pwait["monitor"])
           /\ panswer'.payload = pwait["monitor"].result
  <2>1. pwait["monitor"].result.built = pnow /\ pnow' = pnow
    BY <1>0, <1>4 DEF P!EndedIsRecent, P!WaitEnds
  <2> QED
    BY <1>0, <1>4, <2>1
<1>5. CASE P!GetCached("monitor")
  <2>1. pcache' = P!Consumed /\ pnow' = pnow
    BY <1>5 DEF P!GetCached
  <2> DEFINE state == IF P!IsStale(pcache') THEN "stale" ELSE "fresh"
             suspect == P!Suspect(pcache')
  <2>2. panswer' = [state |-> state, payload |-> pcache'.payload, suspect |-> suspect]
    BY <1>5, <2>1 DEF P!GetCached, P!Answered
  <2>3. P!IsStale(pcache') => state = "stale"
    OBVIOUS
  <2>4. pcache'.error => suspect
    BY DEF P!Suspect
  <2> HIDE DEF state, suspect
  <2>5. panswer'.state = state /\ panswer'.payload = pcache'.payload
    BY <2>2
  <2>6. panswer'.suspect = suspect
    BY <2>2
  <2>7. CASE P!IsStale(pcache') /\ pcache'.error
    BY <2>3, <2>4, <2>5, <2>6, <2>7, Zenon
  <2>8. CASE pcache'.payload.built >= pnow - 2 * PollInterval
    BY <2>1, <2>5, <2>8
  <2> QED
    BY <1>2, <1>5, <2>7, <2>8, CachedIsRecent
<1> QED
  BY <1>0, <1>3, <1>4, <1>5, AnswerMoves

\* A verdict is settled until time passes or the monitor polls again.
LEMMA SettledMoves ==
    ASSUME P!Timely, P!PipelineInv, P!AsksInTurn, [P!Next]_pvars, P!Settles'
    PROVE  P!Heard \/ (P!Settles /\ pnow' = pnow)
<1>0. /\ pmonitor \in P!Monitor /\ pnow \in Nat /\ PollInterval \in Nat /\ 0 < PollInterval
      /\ pmonitor.due \in Nat /\ pmonitor.streak \in Nat
      /\ pmonitor.step = "asking" => pnow = pmonitor.due
  BY PipelineTimes DEF P!Timely, P!PipelineInv, P!PipelineTypeOK, P!PollsInTime
<1>1. pmonitor' = pmonitor /\ pnow' = pnow => P!Settles
  BY DEF P!Settles
<1>2. P!Tick => FALSE
  <2> SUFFICES ASSUME P!Tick PROVE FALSE
    OBVIOUS
  <2>1. pmonitor.streak = 3 /\ pnow + 1 + PollInterval = pmonitor.due
    BY <1>0 DEF P!Tick, P!Settles, P!Settled
  <2>2. /\ pmonitor.heard # Absent /\ pmonitor.failures = 0 /\ pmonitor.heard <= pnow
        /\ pmonitor.heard \in Nat
    BY <2>1, PipelineTimes DEF P!AsksInTurn, P!PipelineInv
  <2>3. pmonitor.due = pmonitor.heard + (pmonitor.failures + 1) * PollInterval
    BY <2>2 DEF P!PipelineInv, P!PollsInTime
  <2>4. (pmonitor.failures + 1) * PollInterval = PollInterval
    BY <1>0, <2>2
  <2> QED
    BY <1>0, <2>1, <2>2, <2>3, <2>4
<1>3. P!StartPoll => FALSE
  <2> SUFFICES ASSUME P!StartPoll PROVE FALSE
    OBVIOUS
  <2>1. pmonitor'.due = pnow /\ pnow' = pnow
    BY <1>0 DEF P!StartPoll, P!Monitor
  <2> QED
    BY <1>0, <2>1 DEF P!Settles
<1>4. P!Unheard => FALSE
  <2> SUFFICES ASSUME P!Unheard PROVE FALSE
    OBVIOUS
  <2>1. CASE pmonitor.attempt < Retries
    <3>1. pmonitor' = [pmonitor EXCEPT !.attempt = @ + 1] /\ pnow' = pnow
          /\ pmonitor.step = "asking"
      BY <2>1 DEF P!Unheard
    <3>2. pmonitor'.due = pnow
      BY <1>0, <3>1 DEF P!Monitor
    <3> QED
      BY <1>0, <3>1, <3>2 DEF P!Settles
  <2>2. CASE ~ (pmonitor.attempt < Retries)
    <3>1. pmonitor'.streak = 0
      BY <1>0, <2>2 DEF P!Unheard, P!Slept, P!Monitor
    <3> QED
      BY <3>1 DEF P!Settles, P!Settled
  <2> QED
    BY <2>1, <2>2
<1>5. ASSUME NEW c \in P!Clients,
             P!GetCached(c) \/ P!GetAndWait(c) \/ P!WaitTimesOut(c) \/ P!WaitEnds(c)
      PROVE  UNCHANGED <<pnow, pmonitor>>
  BY <1>5 DEF P!GetCached, P!GetAndWait, P!WaitTimesOut, P!WaitEnds
<1>6. ASSUME P!Push \/ P!Healthz \/ P!StartRefresh \/ P!Force \/ UNCHANGED pvars
      PROVE  UNCHANGED <<pnow, pmonitor>>
  BY <1>6 DEF P!Push, P!Healthz, P!StartRefresh, P!Force, pvars
<1>7. ASSUME NEW b \in P!Builders,
             (\E lost \in SUBSET Devices : P!ReadPeers(b, lost)) \/ P!BuildEnds(b) \/ P!BuildRaises(b)
      PROVE  UNCHANGED <<pnow, pmonitor>>
  BY <1>7 DEF P!ReadPeers, P!BuildEnds, P!BuildRaises, P!Finish
<1>8. ASSUME NEW d \in Devices, NEW h \in P!Healths, NEW n \in 0..pcanon.snap, P!Publish(d, h, n)
      PROVE  UNCHANGED <<pnow, pmonitor>>
  BY <1>8 DEF P!Publish
<1> QED
  BY <1>1, <1>2, <1>3, <1>4, <1>5, <1>6, <1>7, <1>8 DEF P!Next

\* What a green verdict says of a summary: it was read lately, and nobody the
\* monitor asks about alarms.
LEMMA GreenSummary ==
    ASSUME P!Timely, P!PipelineInv, P!AsksInTurn, P!SummariesAreTruthful,
           P!AnswerIsRecent, P!Heard, P!Settles'
    PROVE  /\ panswer.payload \in P!Payload /\ ~ P!Alert(panswer.payload)
           /\ P!Truthful(panswer.payload)
           /\ panswer.payload.built \in Nat /\ panswer.payload.built <= pnow
           /\ panswer.payload.built >= pnow - 2 * PollInterval
           /\ \A d \in Devices : panswer.payload.peers[d] \in P!Report \cup {P!Unread}
<1> DEFINE p == panswer.payload
<1>1. P!PipelineTypeOK /\ P!PollsInTime
  BY DEF P!PipelineInv
<1>2. /\ pmonitor.streak >= 2 /\ P!Verdict(panswer) = "green"
      /\ panswer.state \in {"fresh", "stale"}
  BY <1>1, HeardInTurn DEF P!Settles, P!Settled
<1>3. p \in P!Payload /\ p # Absent
  BY <1>1, <1>2, PipelineStart DEF P!PipelineTypeOK
<1>4. ~ P!Alert(p) /\ ~ (panswer.state = "stale" /\ panswer.suspect)
  BY <1>2 DEF P!Verdict
<1>5. P!Truthful(p) /\ p.built >= pnow - 2 * PollInterval
  BY <1>2, <1>3, <1>4 DEF P!SummariesAreTruthful, P!AnswerIsRecent
<1>6. p.built \in Nat /\ p.built <= pnow
      /\ \A d \in Devices : p.peers[d] \in P!Report \cup {P!Unread}
  BY <1>3, <1>5 DEF P!Payload, P!Times, P!Truthful
<1> QED
  BY <1>3, <1>4, <1>5, <1>6

\* What the summary showed of a device is what it reports still, or it reported
\* since.
LEMMA GreenSaw ==
    ASSUME P!Timely, P!PipelineTypeOK, NEW p \in P!Payload, P!Truthful(p),
           p.built \in Nat, p.built >= pnow - 2 * PollInterval,
           NEW d \in Devices, p.peers[d] # P!Unread
    PROVE  \/ p.peers[d] = preport[d]
           \/ /\ preport[d] # Absent /\ preport[d].at \in Nat /\ preport[d].snap \in Nat
              /\ P!Since(d) <= P!HiddenFor /\ preport[d].snap >= p.peers[d].snap
<1>1. /\ pnow \in Nat /\ PollInterval \in Nat /\ BuildTime \in Nat
      /\ P!HiddenFor = 2 * PollInterval + BuildTime
  BY PipelineTimes DEF P!HiddenFor
<1>2. \/ p.peers[d] = preport[d]
      \/ /\ preport[d] # Absent /\ preport[d].at >= p.built - BuildTime
         /\ preport[d].snap >= p.peers[d].snap
  BY DEF P!Truthful, P!Saw
<1>3. preport[d] # Absent => preport[d].at \in Nat /\ preport[d].snap \in Nat
  BY PipelineTimes DEF P!Report, P!Times, P!SnapshotIds
<1> QED
  BY <1>1, <1>2, <1>3 DEF P!Since

\* What a green verdict says of a device the monitor inspects.
LEMMA GreenIsTrue ==
    ASSUME P!Timely, P!PipelineInv, P!AsksInTurn, P!ReadsInOrder, P!SummariesAreTruthful,
           P!AnswerIsRecent, P!Heard, P!Settles', NEW d \in Inspected
    PROVE  /\ preport[d] # Absent
           /\ P!Since(d) < DeviceOld + P!HiddenFor
           /\ preport[d].health \in {"red", "conflict"} => P!Since(d) <= P!HiddenFor
           /\ \/ preport[d].snap = pcanon.snap
              \/ pnow - pcanon.at < P!HiddenFor + RefreshInterval
<1> DEFINE p == panswer.payload
<1>1. /\ P!PipelineTypeOK /\ pnow \in Nat /\ pcanon.at \in Nat
      /\ PollInterval \in Nat /\ BuildTime \in Nat /\ RefreshInterval \in Nat
      /\ DeviceOld \in Nat /\ 0 < DeviceOld /\ d \in Devices
      /\ P!HiddenFor = 2 * PollInterval + BuildTime
  BY PipelineTimes, PipelineAssumption DEF P!PipelineInv, P!Timely, P!HiddenFor
<1>2. /\ p \in P!Payload /\ ~ P!Alert(p) /\ P!Truthful(p)
      /\ p.built \in Nat /\ p.built <= pnow /\ p.built >= pnow - 2 * PollInterval
      /\ p.peers[d] \in P!Report \cup {P!Unread}
  BY <1>1, GreenSummary
<1> HIDE DEF p
<1>3. p.peers[d] \in P!Report /\ p.peers[d].health \notin {"red", "conflict"}
  BY <1>1, <1>2 DEF P!Alert, P!Unread
<1>4. /\ p.peers[d].at \in Nat /\ p.peers[d].snap \in Nat /\ p.peers[d] # Absent
      /\ p.peers[d] # P!Unread
  BY <1>3, PipelineStart DEF P!Report, P!Times, P!SnapshotIds, P!Unread
<1>5. p.built - p.peers[d].at < DeviceOld
  BY <1>1, <1>2, <1>4, PipelineStart DEF P!Alert, P!IsOld
<1>6. p.snap # Absent /\ p.snap = p.peers[d].snap
  BY <1>2, <1>4, PipelineStart DEF P!Alert, P!Drifts
<1>7. p.snap = pcanon.snap \/ pnow - pcanon.at < P!HiddenFor + RefreshInterval
  <2>1. p.snap = pcanon.snap \/ p.built - pcanon.at < RefreshInterval
    BY <1>2, <1>6 DEF P!Truthful
  <2> QED
    BY <1>1, <1>2, <2>1
<1>8. CASE p.peers[d] = preport[d]
  BY <1>1, <1>2, <1>3, <1>4, <1>5, <1>6, <1>7, <1>8 DEF P!Since
<1>9. CASE /\ preport[d] # Absent /\ preport[d].at \in Nat /\ preport[d].snap \in Nat
           /\ P!Since(d) <= P!HiddenFor /\ preport[d].snap >= p.peers[d].snap
  <2>1. preport[d].snap <= pcanon.snap /\ pcanon.snap \in Nat
    BY <1>1, <1>9, PipelineTimes DEF P!ReadsInOrder
  <2>2. P!Since(d) < DeviceOld + P!HiddenFor
    BY <1>1, <1>9 DEF P!Since
  <2>3. p.snap = pcanon.snap => preport[d].snap = pcanon.snap
    BY <1>4, <1>6, <1>9, <2>1
  <2> QED
    BY <1>7, <1>9, <2>2, <2>3
<1> QED
  BY <1>1, <1>2, <1>4, <1>8, <1>9, GreenSaw

\* What it says of every device: nothing alarms but beside a review.
LEMMA GreenForAll ==
    ASSUME P!Timely, P!PipelineInv, P!AsksInTurn, P!SummariesAreTruthful,
           P!AnswerIsRecent, P!Heard, P!Settles', \A e \in Devices : ~ P!WaitsOrReported(e),
           NEW d \in Devices
    PROVE  preport[d] # Absent /\ preport[d].health \notin {"red", "conflict"}
<1> DEFINE p == panswer.payload
<1>1. P!PipelineTypeOK
  BY DEF P!PipelineInv
<1>2. /\ p \in P!Payload /\ ~ P!Alert(p) /\ P!Truthful(p)
      /\ p.built \in Nat /\ p.built >= pnow - 2 * PollInterval
      /\ \A e \in Devices : p.peers[e] \in P!Report \cup {P!Unread}
  BY GreenSummary
<1> HIDE DEF p
<1>3. \A e \in Devices : p.peers[e] # P!Unread => p.peers[e] = preport[e]
  <2> SUFFICES ASSUME NEW e \in Devices, p.peers[e] # P!Unread
               PROVE  p.peers[e] = preport[e]
    OBVIOUS
  <2>1. ~ (preport[e] # Absent /\ P!Since(e) <= P!HiddenFor)
    BY DEF P!WaitsOrReported
  <2> QED
    BY <1>1, <1>2, <2>1, GreenSaw
<1>4. P!Unread.health = "red"
  BY DEF P!Unread
<1>5. ASSUME NEW e \in Devices PROVE p.peers[e].health # "waits"
  <2>1. CASE p.peers[e] = P!Unread
    BY <1>4, <2>1
  <2>2. CASE p.peers[e] # P!Unread
    <3>1. preport[e] # Absent /\ p.peers[e] = preport[e]
      BY <1>2, <1>3, <2>2, PipelineStart
    <3> QED
      BY <3>1 DEF P!WaitsOrReported
  <2> QED
    BY <2>1, <2>2
<1>6. p.peers[d].health \notin {"red", "conflict"}
  BY <1>2, <1>5 DEF P!Alert
<1>7. p.peers[d] # P!Unread
  BY <1>4, <1>6
<1>8. p.peers[d] = preport[d] /\ p.peers[d] # Absent
  BY <1>2, <1>3, <1>7, PipelineStart
<1> QED
  BY <1>6, <1>8

\* What reports and time leave of it while the verdict stands.
LEMMA GreenStands ==
    ASSUME P!Timely, P!PipelineTypeOK, P!ReadsInOrder, [P!Next]_pvars, pnow' = pnow,
           NEW d \in Devices
    PROVE  /\ preport[d] # Absent => preport'[d] # Absent
           /\ \/ preport'[d] = preport[d]
              \/ /\ preport'[d] # Absent /\ preport'[d].at = pnow
                 /\ preport'[d].snap \in Nat /\ preport'[d].snap <= pcanon.snap
                 /\ preport[d] # Absent => preport[d].snap <= preport'[d].snap
                 /\ pcanon' = pcanon
           /\ pcanon' = pcanon \/ pcanon'.at = pnow
<1>1. ASSUME NEW e \in Devices, NEW h \in P!Healths, NEW n \in 0..pcanon.snap, P!Publish(e, h, n),
             e = d
      PROVE  /\ preport'[d] # Absent /\ preport'[d].at = pnow /\ preport'[d].snap \in Nat
             /\ preport'[d].snap <= pcanon.snap
             /\ preport[d] # Absent => preport[d].snap <= preport'[d].snap
             /\ pcanon' = pcanon
  <2>1. preport'[d] = [health |-> h, snap |-> n, at |-> pnow] /\ pcanon' = pcanon
    BY <1>1 DEF P!Publish, P!PipelineTypeOK
  <2>2. pcanon.snap \in 0..MaxIndexed /\ MaxIndexed \in Nat /\ pnow \in P!Times
    BY PipelineTimes, PipelineStart DEF P!SnapshotIds, P!PipelineTypeOK
  <2>3. n \in P!SnapshotIds /\ n \in Nat /\ n <= pcanon.snap
    BY <2>2 DEF P!SnapshotIds
  <2>4. preport'[d] \in P!Report
    BY <2>1, <2>2, <2>3 DEF P!Report
  <2>5. preport'[d].at = pnow /\ preport'[d].snap = n
    BY <2>1
  <2>6. preport[d] # Absent => n >= preport[d].snap /\ preport[d].snap \in Nat
    BY <1>1, PipelineTimes DEF P!Publish, P!Report, P!SnapshotIds
  <2> QED
    BY <2>1, <2>3, <2>4, <2>5, <2>6, PipelineStart
<1>2. ASSUME NEW e \in Devices, NEW h \in P!Healths, NEW n \in 0..pcanon.snap, P!Publish(e, h, n),
             e # d
      PROVE  preport'[d] = preport[d]
  BY <1>2 DEF P!Publish, P!PipelineTypeOK
<1>3. pcanon' = pcanon \/ pcanon'.at = pnow
  BY PipelineSides DEF P!Push
<1> QED
  BY <1>1, <1>2, <1>3, PipelineSides

LEMMA GreenNext ==
    ASSUME P!Timely, P!HonestInv, [P!Next]_pvars
    PROVE  P!GreenMeansReported' /\ P!GreenMeansInStep'
<1>0. /\ P!PipelineInv /\ P!PipelineTypeOK /\ P!AsksInTurn /\ P!ReadsInOrder
      /\ P!SummariesAreTruthful /\ P!AnswerIsRecent
      /\ P!GreenMeansReported /\ P!GreenMeansInStep
  BY DEF P!HonestInv, P!PipelineInv
<1>1. /\ pnow \in Nat /\ P!HiddenFor \in Nat /\ DeviceOld \in Nat /\ 0 < DeviceOld
      /\ RefreshInterval \in Nat /\ 0 < RefreshInterval /\ pcanon.at \in Nat
      /\ pcanon.snap \in Nat
      /\ \A d \in Devices : preport[d] # Absent => preport[d].at \in Nat /\ preport[d].snap \in Nat
  BY <1>0, PipelineTimes DEF P!Timely, P!HiddenFor, P!Report, P!Times, P!SnapshotIds
<1>2. Inspected \subseteq Devices
  BY PipelineAssumption
<1>3. ASSUME P!Settles', NEW d \in Inspected
      PROVE  /\ preport'[d] # Absent
             /\ P!Since(d)' < DeviceOld + P!HiddenFor
             /\ preport'[d].health \in {"red", "conflict"} => P!Since(d)' <= P!HiddenFor
             /\ \/ preport'[d].snap = pcanon'.snap
                \/ pnow' - pcanon'.at < P!HiddenFor + RefreshInterval
  <2>1. CASE P!Heard
    <3>1. UNCHANGED <<pnow, preport, pcanon>>
      BY <2>1 DEF P!Heard
    <3>2. /\ preport[d] # Absent
          /\ P!Since(d) < DeviceOld + P!HiddenFor
          /\ preport[d].health \in {"red", "conflict"} => P!Since(d) <= P!HiddenFor
          /\ \/ preport[d].snap = pcanon.snap
             \/ pnow - pcanon.at < P!HiddenFor + RefreshInterval
      BY <1>0, <1>3, <2>1, GreenIsTrue
    <3> QED
      BY <3>1, <3>2 DEF P!Since
  <2>2. CASE P!Settles /\ pnow' = pnow
    <3>1. /\ preport[d] # Absent
          /\ P!Since(d) < DeviceOld + P!HiddenFor
          /\ preport[d].health \in {"red", "conflict"} => P!Since(d) <= P!HiddenFor
      <4>1. \A e \in Inspected :
                /\ preport[e] # Absent
                /\ P!Since(e) < DeviceOld + P!HiddenFor
                /\ preport[e].health \in {"red", "conflict"} => P!Since(e) <= P!HiddenFor
        BY <1>0, <2>2 DEF P!GreenMeansReported
      <4> QED
        BY <4>1, Zenon
    <3>2. preport[d].snap = pcanon.snap \/ pnow - pcanon.at < P!HiddenFor + RefreshInterval
      BY <1>0, <2>2, Zenon DEF P!GreenMeansInStep
    <3>3. /\ \/ preport'[d] = preport[d]
             \/ /\ preport'[d] # Absent /\ preport'[d].at = pnow
                /\ preport'[d].snap \in Nat /\ preport'[d].snap <= pcanon.snap
                /\ preport[d].snap <= preport'[d].snap /\ pcanon' = pcanon
          /\ pcanon' = pcanon \/ pcanon'.at = pnow
      BY <1>0, <1>2, <2>2, <3>1, GreenStands
    <3>4. /\ pnow - preport[d].at < DeviceOld + P!HiddenFor
          /\ preport[d].health \in {"red", "conflict"} => pnow - preport[d].at <= P!HiddenFor
          /\ preport[d].at \in Nat /\ preport[d].snap \in Nat
      BY <1>1, <1>2, <3>1 DEF P!Since
    <3>5. CASE preport'[d] = preport[d]
      <4>1. CASE pcanon' = pcanon
        BY <2>2, <3>1, <3>2, <3>4, <3>5, <4>1 DEF P!Since
      <4>2. CASE pcanon'.at = pnow
        BY <1>1, <2>2, <3>1, <3>4, <3>5, <4>2 DEF P!Since
      <4> QED
        BY <3>3, <4>1, <4>2
    <3>6. CASE preport'[d] # preport[d]
      BY <1>1, <2>2, <3>2, <3>3, <3>4, <3>6 DEF P!Since
    <3> QED
      BY <3>5, <3>6
  <2> QED
    BY <1>0, <1>3, <2>1, <2>2, SettledMoves
<1>4. ASSUME P!Settles', \A e \in Devices : ~ P!WaitsOrReported(e)', NEW d \in Devices
      PROVE  preport'[d] # Absent /\ preport'[d].health \notin {"red", "conflict"}
  <2>1. CASE P!Heard
    <3>1. UNCHANGED <<pnow, preport>>
      BY <2>1 DEF P!Heard
    <3>2. \A e \in Devices : ~ P!WaitsOrReported(e)
      BY <1>4, <3>1 DEF P!WaitsOrReported, P!Since
    <3> QED
      BY <1>0, <1>4, <2>1, <3>1, <3>2, GreenForAll
  <2>2. CASE P!Settles /\ pnow' = pnow
    <3>1. ASSUME NEW e \in Devices PROVE preport'[e] = preport[e]
      <4>1. ~ (preport'[e] # Absent /\ P!Since(e)' <= P!HiddenFor)
        BY <1>4 DEF P!WaitsOrReported
      <4>2. preport'[e] # Absent /\ preport'[e].at = pnow => P!Since(e)' <= P!HiddenFor
        BY <1>1, <2>2 DEF P!Since
      <4> QED
        BY <1>0, <2>2, <4>1, <4>2, GreenStands
    <3>2. \A e \in Devices : ~ P!WaitsOrReported(e)
      BY <1>4, <2>2, <3>1 DEF P!WaitsOrReported, P!Since
    <3>3. preport[d] # Absent /\ preport[d].health \notin {"red", "conflict"}
      <4>1. \A e \in Devices : preport[e] # Absent /\ preport[e].health \notin {"red", "conflict"}
        BY <1>0, <2>2, <3>2 DEF P!GreenMeansReported
      <4> QED
        BY <4>1
    <3> QED
      BY <3>1, <3>3
  <2> QED
    BY <1>0, <1>4, <2>1, <2>2, SettledMoves
<1>5. P!GreenMeansInStep'
  BY <1>3, Zenon DEF P!GreenMeansInStep
<1>6. P!GreenMeansReported'
  BY <1>3, <1>4, Zenon DEF P!GreenMeansReported
<1> QED
  BY <1>5, <1>6

LEMMA HonestInit == P!Init => P!HonestInv
<1> SUFFICES ASSUME P!Init PROVE P!HonestInv
  OBVIOUS
<1>1. P!PipelineInv
  BY PipelineInit
<1>2. /\ P!PipelineTypeOK /\ pnow = 0 /\ pcanon.at = 0 /\ pcanon.snap = 0
      /\ \A d \in Devices : preport[d] # Absent => preport[d].snap = 0
      /\ pheld.snap = Absent /\ pheld.at = 0
      /\ pcache.payload = Absent /\ pcache.updated = 0
      /\ pinflight = Absent /\ pwait = [c \in P!Clients |-> Absent]
      /\ panswer = P!NoAnswer /\ panswer.payload = Absent
      /\ pmonitor.heard = Absent /\ pmonitor.streak = 0
      /\ \A b \in P!Builders : pbuild[b].step = "idle"
  BY <1>1 DEF P!Init, P!PipelineInv, P!NoAnswer, P!Idle
<1>3. P!AsksInTurn /\ P!ReadsInOrder
  BY <1>2 DEF P!AsksInTurn, P!ReadsInOrder, P!Clients
<1>4. P!SummariesAreTruthful /\ P!EndedIsRecent /\ P!StoredIsRecent
  BY <1>2 DEF P!SummariesAreTruthful, P!EndedIsRecent, P!StoredIsRecent, P!Good, P!Done
<1>5. P!RefreshFollows /\ P!AnswerIsRecent
  BY <1>2 DEF P!RefreshFollows, P!AnswerIsRecent
<1>6. P!GreenMeansReported /\ P!GreenMeansInStep
  BY <1>2 DEF P!GreenMeansReported, P!GreenMeansInStep, P!Settles, P!Settled
<1> QED
  BY <1>1, <1>3, <1>4, <1>5, <1>6 DEF P!HonestInv

\* The pipeline's inductive invariant, for a monitor that polls less often than
\* summaries go stale and builds take: summaries are dated as they are read, a
\* poll has what it found stale rebuilt, and the next one is answered from that.
THEOREM HonestInvariance ==
    ASSUME P!Timely
    PROVE  ServiceSpec => []P!HonestInv
<1>1. P!Init => P!HonestInv
  BY HonestInit
<1>2. P!HonestInv /\ [P!Next]_pvars => P!HonestInv'
  <2> SUFFICES ASSUME P!HonestInv, [P!Next]_pvars PROVE P!HonestInv'
    OBVIOUS
  <2>1. P!PipelineTypeOK /\ P!QueueIsKept /\ P!PollsInTime
    BY DEF P!HonestInv, P!PipelineInv
  <2>2. P!PipelineInv' /\ P!AsksInTurn' /\ P!ReadsInOrder'
    BY <2>1, PipelineTypeNext, QueueNext, PollsNext, AsksNext, ReadsNext
       DEF P!HonestInv, P!PipelineInv
  <2>3. P!SummariesAreTruthful' /\ P!EndedIsRecent' /\ P!StoredIsRecent'
    BY <2>1, SummariesNext, EndedNext, StoredNext DEF P!HonestInv
  <2>4. P!RefreshFollows' /\ P!AnswerIsRecent'
    BY <2>1, RefreshNext, AnswerNext DEF P!HonestInv
  <2>5. P!GreenMeansReported' /\ P!GreenMeansInStep'
    BY GreenNext
  <2> QED
    BY <2>2, <2>3, <2>4, <2>5 DEF P!HonestInv
<1>3. ServiceSpec => P!Init /\ [][P!Next]_pvars
  BY DEF ServiceSpec, P!Spec, P!vars, pvars
<1> QED
  BY <1>1, <1>2, <1>3, PTL

\* dashboard.py:161-207, monitor.py:290-300, 355-357, 466-492: for any devices of
\* which the monitor inspects any, and for intervals and limits that fit together
\* so, slow refreshes do not pile up, a settled green verdict hides neither
\* silence, alerts nor drift of a device it inspects for longer than it takes to
\* refresh twice, and an alert means an outage.
THEOREM VerdictIsHonestEver ==
    ASSUME P!Timely
    PROVE  ServiceSpec => VerdictIsHonest
<1>1. P!HonestInv => P!OneRefreshAtATime /\ P!GreenMeansReported /\ P!GreenMeansInStep
  BY RefreshIsAlone DEF P!HonestInv
<1>2. P!HonestInv /\ [P!Next]_pvars =>
        [pmonitor.code # "fetch_failed" /\ pmonitor'.code = "fetch_failed" =>
           pmonitor.heard = Absent \/ pnow - pmonitor.heard >= Threshold * PollInterval]_pvars
  BY AlertsAfterOutage DEF P!HonestInv
<1>3. P!AlertMeansOutage <=>
        [][pmonitor.code # "fetch_failed" /\ pmonitor'.code = "fetch_failed" =>
             pmonitor.heard = Absent \/ pnow - pmonitor.heard >= Threshold * PollInterval]_pvars
  BY DEF P!AlertMeansOutage, P!vars, pvars
<1>4. ServiceSpec => [][P!Next]_pvars
  BY DEF ServiceSpec, P!Spec, P!vars, pvars
<1>5. ServiceSpec => []P!HonestInv
  BY HonestInvariance
<1> QED
  BY <1>1, <1>2, <1>3, <1>4, <1>5, PTL DEF VerdictIsHonest
-----------------------------------------------------------------------------
(* Every component's types *)

LEMMA RestartTypes == R!Spec => []R!RestartTypeOK
<1> USE RestartAssumption DEF R!RestartTypeOK
<1>1. R!Init => R!RestartTypeOK
  BY DEF R!Init
<1>2. ASSUME R!RestartTypeOK, [R!Next]_dvars PROVE R!RestartTypeOK'
  <2>1. CASE R!Launch
    BY <1>2, <2>1 DEF R!Launch
  <2>2. CASE R!Begin
    BY <1>2, <2>2 DEF R!Begin, R!StateWritten
  <2>3. CASE R!End
    <3>1. /\ dstate'.updated = dnow /\ dnow \in 0..MaxNow /\ dwake' = dnow + CycleInterval
          /\ dnow' = dnow /\ dproc' = "sleep" /\ dfirst' = FALSE /\ dtold' = dtold
      BY <1>2, <2>3 DEF R!End, R!StateWritten
    <3>2. dwake' \in 0..(MaxNow + CycleInterval)
      BY <3>1
    <3>3. dstate'.updated \in 0..dnow'
      BY <3>1
    <3>4. /\ dnow' \in 0..MaxNow /\ dproc' \in {"down", "starting", "cycle", "sleep", "ending"}
          /\ dfirst' \in BOOLEAN /\ dtold' \in {Absent} \cup 0..dnow'
      BY <1>2, <3>1
    <3> QED
      BY <3>2, <3>3, <3>4
  <2>4. CASE R!EndBlocked
    <3>1. /\ dstate'.updated = dnow /\ dproc' = "ending" /\ dfirst' = FALSE
          /\ UNCHANGED <<dnow, dwake, dtold>>
      BY <1>2, <2>4 DEF R!EndBlocked, R!StateWritten
    <3>2. dfirst' \in BOOLEAN
      BY <3>1
    <3> QED
      BY <1>2, <3>1, <3>2
  <2>10. CASE R!Complete
    BY <1>2, <2>10 DEF R!Complete, R!StateWritten
  <2>5. CASE R!Tick
    BY <1>2, <2>5 DEF R!Tick
  <2>6. CASE R!Die
    BY <1>2, <2>6 DEF R!Die
  <2>7. CASE R!Ask
    BY <1>2, <2>7 DEF R!Ask
  <2>8. CASE R!Restart
    BY <1>2, <2>8 DEF R!Restart
  <2>9. CASE UNCHANGED dvars
    BY <1>2, <2>9 DEF dvars
  <2> QED
    BY <1>2, <2>1, <2>2, <2>3, <2>4, <2>5, <2>6, <2>7, <2>8, <2>9, <2>10 DEF R!Next
<1>3. R!Spec => R!Init /\ [][R!Next]_dvars
  BY DEF R!Spec, R!vars, dvars
<1> QED
  BY <1>1, <1>2, <1>3, PTL

\* Every component's state keeps its types, whatever fails, dies or comes in
\* between, for any sizes and bounds.
THEOREM ServiceTypesOKEver ==
    ASSUME T!OneWriterPerFile
    PROVE  ServiceSpec => []ServiceTypesOK
<1>1. O!ReleaseInv => O!ReleaseTypeOK
  BY DEF O!ReleaseInv
<1>2. T!TransferInv => T!TransferTypeOK
  BY DEF T!TransferInv
<1>3. M!MaterialInv => M!MaterialTypeOK
  BY DEF M!MaterialInv
<1>4. P!PipelineInv => P!PipelineTypeOK
  BY DEF P!PipelineInv
<1>5. C!ConsoleInv => C!ConsoleTypeOK
  BY DEF C!ConsoleInv
<1>6. Q!ProbeInv => Q!ProbeTypeOK
  BY DEF Q!ProbeInv
<1>7. /\ O!ReleaseTypeOK /\ T!TransferTypeOK /\ M!MaterialTypeOK /\ P!PipelineTypeOK
      /\ C!ConsoleTypeOK /\ R!RestartTypeOK /\ Q!ProbeTypeOK
      => ServiceTypesOK
  BY DEF ServiceTypesOK
<1>8. T!Spec => []T!TransferInv
  BY TransferInvariance
<1> QED
  BY <1>1, <1>2, <1>3, <1>4, <1>5, <1>6, <1>7, <1>8, ReleaseInvariance,
     MaterialInvariance, PipelineInvariance, ConsoleInvariance, ProbeInvariance,
     RestartTypes, PTL DEF ServiceSpec
=============================================================================
