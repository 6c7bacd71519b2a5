------------------------------- MODULE GeoIP ------------------------------
(***************************************************************************)
(* The country library of the attack map: Reader.Load and ReplaceFrom      *)
(* (internal/geoip/reader.go) and the daily update (updater.go), with a    *)
(* failure or the death of the process at every file operation.            *)
(*                                                                         *)
(* A library is its version; ReplaceFrom holds the write lock, so nobody   *)
(* looks an address up between its steps, but the files are seen by the    *)
(* next start.                                                             *)
(***************************************************************************)
EXTENDS Naturals

CONSTANTS MaxVersion,   \* bound: versions published
          MaxGeoFails,  \* bound: operations that fail, deaths
          MaxLosses     \* bound: libraries removed or damaged by somebody else

ASSUME GeoAssumption == MaxVersion \in Nat \ {0} /\ {MaxGeoFails, MaxLosses} \subseteq Nat

Nothing == 0                     \* no file, no reader, no ETag
Bad == MaxVersion + 1          \* a file that does not open, or fails the probe
Versions == 1..MaxVersion

VARIABLES
    path, bak, tmp,  \* the files: db_path, .bak and .tmp
    etag,            \* the version in db_path.state
    db,              \* the version of Reader.db
    server,          \* the version MaxMind offers
    body,            \* the version in hand
    geoAt,           \* where the updater is
    geoFails, losses,
    had              \* a new library has been opened since the last loss

geoVars == <<path, bak, tmp, etag, db, server, body, geoAt, geoFails, losses, had>>
files == <<path, bak, tmp>>
bounds == <<geoFails, losses>>

GeoInit == /\ path = Nothing /\ bak = Nothing /\ tmp = Nothing /\ etag = Nothing /\ db = Nothing
           /\ server = 1 /\ body = Nothing /\ geoAt = "down" /\ geoFails = 0 /\ losses = 0
           /\ had = FALSE

Fails == geoFails < MaxGeoFails /\ geoFails' = geoFails + 1
Opened(f) == IF f \in Versions THEN f ELSE Nothing

-----------------------------------------------------------------------------
(* Outside                                                                 *)

PublishVersion == /\ server < MaxVersion /\ server' = server + 1
                  /\ UNCHANGED <<files, etag, db, body, geoAt, bounds, had>>

\* While the process is down: db_path is removed, or damaged.
LoseLibrary == /\ geoAt = "down" /\ losses < MaxLosses /\ losses' = losses + 1
               /\ path # Nothing /\ path' \in {Nothing, Bad} /\ had' = FALSE
               /\ UNCHANGED <<bak, tmp, etag, db, server, body, geoAt, geoFails>>

\* A half-written .tmp or .state is what a death in the middle leaves.
GeoDies == /\ geoAt # "down" /\ Fails
           /\ geoAt' = "down" /\ db' = Nothing /\ body' = Nothing
           /\ tmp' = IF geoAt = "write" THEN Bad ELSE tmp
           /\ etag' \in (IF geoAt = "save" THEN {etag, Nothing} ELSE {etag})
           /\ UNCHANGED <<path, bak, server, losses, had>>

-----------------------------------------------------------------------------
(* Start and UpdateNow                                                     *)

\* Load; a missing library is fetched at once, a damaged one is not.
GeoStart == /\ geoAt = "down"
            /\ db' = Opened(path)
            /\ geoAt' = IF path = Nothing THEN "fetch" ELSE "idle"
            /\ UNCHANGED <<files, etag, server, body, bounds, had>>

Daily == /\ geoAt = "idle" /\ geoAt' = "fetch"
         /\ UNCHANGED <<files, etag, db, server, body, bounds, had>>

\* Every error ends the attempt, and install removes the .tmp it has written.
GiveUp == geoAt' = "idle" /\ body' = Nothing

\* If-None-Match: 304 when the version on record is the one on offer.
NotModified == /\ geoAt = "fetch" /\ etag = server
               /\ GiveUp
               /\ UNCHANGED <<files, etag, db, server, bounds, had>>

\* 200; what arrives may be unusable.
Download == /\ geoAt = "fetch" /\ etag # server
            /\ geoAt' = "write"
            /\ \/ body' = server /\ UNCHANGED geoFails
               \/ body' = Bad /\ Fails
            /\ UNCHANGED <<files, etag, db, server, losses, had>>

DownloadFails == /\ geoAt = "fetch" /\ Fails
                 /\ GiveUp
                 /\ UNCHANGED <<files, etag, db, server, losses, had>>

-----------------------------------------------------------------------------
(* install and ReplaceFrom                                                 *)

WriteTmp == /\ geoAt = "write"
            /\ \/ tmp' = body /\ geoAt' = "probe" /\ UNCHANGED <<body, geoFails>>
               \/ tmp' = Bad /\ GiveUp /\ Fails
            /\ UNCHANGED <<path, bak, etag, db, server, losses, had>>

\* Mutant: the new library is not opened before it replaces the old one.
ProbeTrusts == /\ geoAt = "probe" /\ geoAt' = "backup"
               /\ UNCHANGED <<files, etag, db, server, body, bounds, had>>

\* The new library must open and know the test address.
ProbeTmp == /\ geoAt = "probe"
            /\ \/ tmp # Bad /\ geoAt' = "backup" /\ UNCHANGED <<tmp, body>>
               \/ tmp = Bad /\ tmp' = Nothing /\ GiveUp
            /\ UNCHANGED <<path, bak, etag, db, server, bounds, had>>

\* Mutant: the old library is removed instead of renamed.
BackupRemoves == /\ geoAt = "backup"
                 /\ db' = Nothing /\ path' = Nothing /\ geoAt' = "rename"
                 /\ UNCHANGED <<bak, tmp, etag, server, body, bounds, had>>

\* The reader is closed first; the old library becomes the .bak.
Backup == /\ geoAt = "backup"
          /\ db' = Nothing
          /\ \/ path = Nothing /\ geoAt' = "rename" /\ UNCHANGED <<files, body, geoFails>>
             \/ /\ path # Nothing /\ bak' = path /\ path' = Nothing /\ geoAt' = "rename"
                /\ UNCHANGED <<tmp, body, geoFails>>
             \/ /\ path # Nothing /\ Fails
                /\ tmp' = Nothing /\ GiveUp /\ UNCHANGED <<path, bak>>
          /\ UNCHANGED <<etag, server, losses, had>>

\* An operation fails, and os.Rename(bak, path) is tried when there is a .bak; path is
\* missing, or has the new library.  The error of that rename is ignored.
Restore == \/ bak # Nothing /\ path' = bak /\ bak' = Nothing /\ Fails
           \/ bak = Nothing /\ UNCHANGED <<path, bak>> /\ Fails
           \/ /\ bak # Nothing /\ UNCHANGED <<path, bak>>
              /\ geoFails + 2 <= MaxGeoFails /\ geoFails' = geoFails + 2

RenameTmp == /\ geoAt = "rename"
             /\ \/ /\ path' = tmp /\ tmp' = Nothing /\ geoAt' = "open"
                   /\ UNCHANGED <<bak, body, geoFails>>
                \/ Restore /\ tmp' = Nothing /\ GiveUp
             /\ UNCHANGED <<etag, db, server, losses, had>>

\* When the new library does not open, the old one is put back and what is at
\* db_path opened, if it can be.
OpenNew == /\ geoAt = "open"
           /\ \/ /\ db' = Opened(path) /\ geoAt' = "save" /\ had' = TRUE
                 /\ UNCHANGED <<path, bak, body, geoFails>>
              \/ /\ Restore /\ GiveUp /\ UNCHANGED had
                 /\ db' \in {Nothing, IF bak = Nothing THEN Nothing ELSE Opened(path')}
           /\ UNCHANGED <<tmp, etag, server, losses>>

\* Mutant: the version on record is that of the request before.
SaveStateOfServer == /\ geoAt = "save" /\ etag' = server /\ GiveUp
                     /\ UNCHANGED <<files, db, server, bounds, had>>

\* saveState ignores its errors.
SaveState == /\ geoAt = "save" /\ GiveUp
             /\ \/ etag' = body /\ UNCHANGED geoFails
                \/ UNCHANGED etag /\ Fails
             /\ UNCHANGED <<files, db, server, losses, had>>

-----------------------------------------------------------------------------
Updater == \/ GeoStart \/ Daily \/ NotModified \/ Download \/ DownloadFails \/ WriteTmp
           \/ ProbeTmp \/ Backup \/ RenameTmp \/ OpenNew \/ SaveState

GeoNext == PublishVersion \/ LoseLibrary \/ GeoDies \/ Updater

GeoSpec == GeoInit /\ [][GeoNext]_geoVars

-----------------------------------------------------------------------------
(* Properties                                                              *)

(* Wherever a replacement fails or the process dies, a library that opens   *)
(* is at db_path or in the .bak: the old one is renamed, and nothing is     *)
(* renamed over the last good one.                                         *)
LibraryKept == had => path \in Versions \/ bak \in Versions

(* What the reader serves is the file at db_path, and never a library that  *)
(* did not pass the probe.                                                 *)
ReaderServesPath == geoAt \in {"idle", "fetch", "save"} /\ db # Nothing => db = path

(* The files and the reader of them.                                       *)
GeoInv == LibraryKept /\ ReaderServesPath

(* A newer version arrives in the end, although operations fail for a time  *)
(* and the process dies: a version is on record only when it is installed,  *)
(* so that no 304 keeps it away.  A library that somebody else has removed  *)
(* or damaged is the exception: its ETag is still on record, and it comes   *)
(* back only with the next version.                                        *)
NewVersionArrives ==
    (geoAt # "down" /\ path # server /\ (path \in Versions \/ etag = Nothing)) ~> path = server
=============================================================================
