---------------------------- MODULE CatalogCache ----------------------------
(***************************************************************************)
(* The signed catalog feed: the network check and the two-file cache of    *)
(* plugin/catalogupdater.cpp, and the catalog that plugin/catalogloader.cpp *)
(* chooses.                                                                *)
(*                                                                         *)
(* A catalog is named by its sequence number.  The cache is a catalog file *)
(* and a metadata file with the sequence and digest of the catalog it      *)
(* belongs to, each replaced atomically, one after the other: the process  *)
(* may die in between, and each write may fail.                            *)
(***************************************************************************)
EXTENDS Integers

CONSTANTS
  MaxSequence,   \* bound: the last catalog published
  MaxChecks,     \* bound: network checks
  MaxFaults,     \* bound: file writes that fail
  MaxCrashes     \* bound: process deaths

ASSUME CatalogAssumption ==
  /\ MaxSequence \in Nat
  /\ MaxChecks \in Nat
  /\ MaxFaults \in Nat
  /\ MaxCrashes \in Nat

Sequences == 1 .. MaxSequence
None == 0            \* no file; for the loader, the packaged catalog

VARIABLES
  published,         \* the newest catalog on the server
  catalog, meta,     \* the cache: catalog file, sequence in the metadata file
  etag, due,         \* the check state file; 24 h have passed since the check
  loaded,            \* the catalog in use: None is the packaged one
  step,              \* where the updater is
  body, previous,    \* the feed being installed, the catalog file it replaces
  status,
  checks, faults, crashes

files == <<catalog, meta>>
bounds == <<checks, faults, crashes>>
vars == <<published, files, etag, due, loaded, step, body, previous, status, bounds>>

Statuses == {"not-configured", "not-due", "checking", "up-to-date", "failed",
             "remote-verified"}
Steps == {"stopped", "idle", "waiting", "received", "metadata", "restore"}

Init ==
  /\ published = None
  /\ catalog = None /\ meta = None
  /\ etag = None /\ due = TRUE
  /\ loaded = None
  /\ step = "stopped"
  /\ body = None /\ previous = None
  /\ status = "not-configured"
  /\ checks = 0 /\ faults = 0 /\ crashes = 0

-----------------------------------------------------------------------------
(* Loading *)

(* verifiedCacheCandidate: the metadata's digest is the catalog's.         *)
Verified == catalog # None /\ meta = catalog

(* Mutant: nothing is loaded when the cache is not verified.               *)
LocatedCacheOnly == IF Verified THEN catalog ELSE -1

(* locateCatalogFile: the cache if it is verified, else what was packaged. *)
Located == IF Verified THEN catalog ELSE None

(* The widget starts: it loads a catalog and checks for an update once.    *)
Start ==
  /\ step = "stopped"
  /\ loaded' = Located
  /\ IF due /\ checks < MaxChecks
     THEN step' = "waiting" /\ status' = "checking" /\ checks' = checks + 1
     ELSE step' = "idle" /\ status' = "not-due" /\ checks' = checks
  /\ UNCHANGED <<published, files, etag, due, body, previous, faults, crashes>>

Stop ==
  /\ step = "idle"
  /\ step' = "stopped"
  /\ status' = "not-configured"
  /\ UNCHANGED <<published, files, etag, due, loaded, body, previous, bounds>>

-----------------------------------------------------------------------------
(* The network check *)

Ends(s) == step' = "idle" /\ status' = s

(* persistCheckState: whether the file could be written is not looked at.  *)
Recorded(tag) ==
  \/ etag' = tag /\ due' = FALSE
  \/ UNCHANGED <<etag, due>>

(* The server, or a cache on the way, still has the version the request    *)
(* names.                                                                  *)
NotModified ==
  /\ step = "waiting"
  /\ etag # None
  /\ Recorded(etag)
  /\ Ends("up-to-date")
  /\ UNCHANGED <<published, files, loaded, body, previous, bounds>>

(* A feed arrives: the newest one, or an older copy from a cache on the    *)
(* way.  The check state is written before the feed is looked at.          *)
FeedArrives(v) ==
  /\ step = "waiting"
  /\ v <= published
  /\ v # etag
  /\ Recorded(v)
  /\ body' = v
  /\ step' = "received"
  /\ UNCHANGED <<published, files, loaded, previous, status, bounds>>

(* An HTTP or network error is a check too; a redirect off the allowlist   *)
(* or an oversized body is not recorded.                                   *)
CheckFails ==
  /\ step = "waiting"
  /\ Recorded(None)
  /\ Ends("failed")
  /\ UNCHANGED <<published, files, loaded, body, previous, bounds>>

-----------------------------------------------------------------------------
(* installSignedFeed *)

(* Mutant: any feed that fits the cache is installed.                      *)
InstallableAgain(v) == catalog = meta /\ v # meta

(* verifyCacheAndRollback: both files or none, in agreement, and a newer   *)
(* sequence than theirs.                                                   *)
Installable(v) ==
  /\ catalog = meta
  /\ v > meta

(* The envelope is refused (signature, schema, expiry, application         *)
(* version), or the cache is.                                              *)
Reject ==
  /\ step = "received"
  /\ Ends("failed")
  /\ UNCHANGED <<published, files, etag, due, loaded, body, previous, bounds>>

WriteCatalog ==
  /\ step = "received"
  /\ Installable(body)
  /\ catalog' = body
  /\ previous' = catalog
  /\ step' = "metadata"
  /\ UNCHANGED <<published, meta, etag, due, loaded, body, status, bounds>>

(* The catalog file could not be written: nothing has changed.             *)
CatalogWriteFails ==
  /\ step = "received"
  /\ Installable(body)
  /\ faults < MaxFaults
  /\ faults' = faults + 1
  /\ Ends("failed")
  /\ UNCHANGED <<published, files, etag, due, loaded, body, previous, checks, crashes>>

(* The metadata is written and catalogInstalled reloads the catalog.       *)
WriteMetadata ==
  /\ step = "metadata"
  /\ meta' = body
  /\ loaded' = body
  /\ Ends("remote-verified")
  /\ UNCHANGED <<published, catalog, etag, due, body, previous, bounds>>

MetadataWriteFails ==
  /\ step = "metadata"
  /\ faults < MaxFaults
  /\ faults' = faults + 1
  /\ step' = "restore"
  /\ UNCHANGED <<published, files, etag, due, loaded, body, previous, status,
                 checks, crashes>>

(* Mutant: only the metadata is put back.                                  *)
RestoreMetadata ==
  /\ step = "restore"
  /\ Ends("failed")
  /\ UNCHANGED <<published, files, etag, due, loaded, body, previous, bounds>>

(* restoreOrCleanupCache: write the previous catalog back, or remove the   *)
(* first one.  Whether that succeeded is not looked at.                    *)
Restore ==
  /\ step = "restore"
  /\ catalog' = previous
  /\ Ends("failed")
  /\ UNCHANGED <<published, meta, etag, due, loaded, body, previous, bounds>>

RestoreFails ==
  /\ step = "restore"
  /\ previous # None
  /\ faults < MaxFaults
  /\ faults' = faults + 1
  /\ Ends("failed")
  /\ UNCHANGED <<published, files, etag, due, loaded, body, previous, checks, crashes>>

-----------------------------------------------------------------------------
(* Environment *)

Publish ==
  /\ published < MaxSequence
  /\ published' = published + 1
  /\ UNCHANGED <<files, etag, due, loaded, step, body, previous, status, bounds>>

DayPasses ==
  /\ ~due
  /\ due' = TRUE
  /\ UNCHANGED <<published, files, etag, loaded, step, body, previous, status, bounds>>

Crash ==
  /\ step # "stopped"
  /\ crashes < MaxCrashes
  /\ crashes' = crashes + 1
  /\ step' = "stopped"
  /\ status' = "not-configured"
  /\ UNCHANGED <<published, files, etag, due, loaded, body, previous, checks, faults>>

Next ==
  \/ Start \/ Stop
  \/ NotModified \/ CheckFails
  \/ \E v \in Sequences : FeedArrives(v)
  \/ Reject
  \/ WriteCatalog \/ CatalogWriteFails
  \/ WriteMetadata \/ MetadataWriteFails
  \/ Restore \/ RestoreFails
  \/ Publish \/ DayPasses \/ Crash

Spec == Init /\ [][Next]_vars

-----------------------------------------------------------------------------
(* Properties *)

(* Every variable stays in its domain; there is always a catalog to use.   *)
TypeOK ==
  /\ published \in 0 .. MaxSequence /\ etag \in 0 .. MaxSequence
  /\ catalog \in 0 .. MaxSequence /\ meta \in 0 .. MaxSequence
  /\ body \in 0 .. MaxSequence /\ previous \in 0 .. MaxSequence
  /\ loaded \in 0 .. MaxSequence
  /\ due \in BOOLEAN
  /\ step \in Steps
  /\ status \in Statuses
  /\ checks \in 0 .. MaxChecks /\ faults \in 0 .. MaxFaults /\ crashes \in 0 .. MaxCrashes

(* The signed catalog in use never goes back to an older one: not by an    *)
(* older copy of the feed, a failed write, a crash or a restart.  (The     *)
(* packaged catalog takes over when the cache cannot be used.)             *)
NeverRollsBack ==
  [][loaded' # None => \A v \in {loaded, meta} : v <= loaded']_vars

(* When no installation runs, the metadata belongs to the catalog file:    *)
(* the cache is verified, or there is none.                                *)
Settled == step \notin {"metadata", "restore"} => catalog = meta

(* One failed write is undone: short of a crash the cache is left verified *)
(* and can be loaded and updated again.                                    *)
OneFaultIsUndone == faults <= 1 /\ crashes = 0 => Settled

(* A failed activation leaves the previous verified cache in place,        *)
(* whatever made it fail.                                                  *)
CacheStaysVerified == crashes = 0 => Settled
=============================================================================
