--------------------------- MODULE CatalogWebState ---------------------------
(***************************************************************************)
(* The read-only web server (amc/web.py): a thread per request, one shared *)
(* CatalogService, one lock, and a file that others replace at any moment. *)
(*                                                                         *)
(* A request brings the snapshot up to date under the lock (current) and   *)
(* renders it without (do_GET).  What it compares is the file's mtime; what *)
(* it loads, it loads by opening the file twice (storage.load).            *)
(***************************************************************************)
EXTENDS Naturals

CONSTANTS
  Threads,
  Catalogs,     \* what valid files hold
  Empty,        \* Catalog(): shown when there is no file
  Bad,          \* the body of a file that no reader accepts
  None,         \* no file, no mtime
  MaxChanges    \* bound: how often the file changes

ASSUME MaxChangesAssumption == MaxChanges \in Nat
ASSUME EmptyAssumption == Empty \notin {Bad, None} /\ Bad \notin Catalogs
ASSUME NoneAssumption == None \notin Threads \union Nat

(* The header decides the reader: native, or the one of the suffix, JSON.  *)
Version == [format : {"json", "native"}, body : Catalogs \union {Bad}, mtime : 0 .. MaxChanges]

VARIABLES
  file,          \* the version at the path, or None
  aside,         \* a version the user has renamed away, or None
  changes,       \* changes of the file so far
  past,          \* history variable: the mtimes of its earlier versions
  early,         \* history variable: the file last changed before the server listened
  serving,       \* CatalogWebState() has returned and the server listens
  catalog,       \* service.catalog
  modified,      \* _modified
  reload_error,  \* reload_error is not None
  lock,          \* the thread that holds _lock, or None
  at,            \* at[t]: the next step of t's request, "idle" or "dropped"
  seen,          \* seen[t]: the mtime that current() got from stat
  prefix,        \* prefix[t]: the format load() found in the first bytes
  warning,       \* warning[t]: the page says that the reload failed
  rows,          \* rows[t]: the catalog that the page lists
  total,         \* total[t]: the catalog that the page counts
  steady         \* history variable: the file has not changed since t's stat

vars == <<file, aside, changes, past, early, serving, catalog, modified, reload_error,
          lock, at, seen, prefix, warning, rows, total, steady>>

disk == <<file, aside, changes, past, early>>
snapshot == <<catalog, modified, reload_error>>
page == <<warning, rows, total>>

ASSUME NoFileAssumption == None \notin Version

Mtime(f) == IF f = None THEN None ELSE f.mtime

(* What `load' makes of a first open that found a header and a second open *)
(* that found this version: a catalog, an exception that current() catches *)
(* (OSError, TypeError, ValueError) or one that it does not (CatalogError).*)
Load(header, f) ==
  IF f = None THEN "caught"
  ELSE IF f.format = header /\ f.body # Bad THEN f.body
  ELSE IF header = "native" THEN "uncaught" ELSE "caught"

Raised == {"caught", "uncaught"}

ASSUME RaisedAssumption == Raised \intersect (Catalogs \union {Empty}) = {}

(* The file as a reader who is not disturbed finds it.                     *)
Shown(f) == IF f = None THEN Empty ELSE Load(f.format, f)

-----------------------------------------------------------------------------
(* __init__ has loaded the catalog and is about to stat the file.  Others  *)
(* may change it in between.                                               *)
Init ==
  /\ file \in {v \in Version : v.mtime = 0 /\ v.body # Bad} \union {None}
  /\ aside = None
  /\ changes = 0
  /\ past = {}
  /\ early = FALSE
  /\ serving = FALSE
  /\ catalog = Shown(file)
  /\ modified = None
  /\ reload_error = FALSE
  /\ lock = None
  /\ at = [t \in Threads |-> "idle"]
  /\ seen = [t \in Threads |-> None]
  /\ prefix = [t \in Threads |-> None]
  /\ warning = [t \in Threads |-> FALSE]
  /\ rows = [t \in Threads |-> None]
  /\ total = [t \in Threads |-> None]
  /\ steady = [t \in Threads |-> FALSE]

Start ==
  /\ ~serving
  /\ serving' = TRUE
  /\ modified' = Mtime(file)
  /\ UNCHANGED <<disk, catalog, reload_error, lock, at, seen, prefix, page, steady>>

Goto(t, step) == at' = [at EXCEPT ![t] = step]

Request(t) ==
  /\ serving
  /\ at[t] = "idle"
  /\ Goto(t, "lock")
  /\ UNCHANGED <<disk, serving, snapshot, lock, seen, prefix, page, steady>>

(* with self._lock                                                         *)
Acquire(t) ==
  /\ at[t] = "lock"
  /\ lock = None
  /\ lock' = t
  /\ Goto(t, "stat")
  /\ UNCHANGED <<disk, serving, snapshot, seen, prefix, page, steady>>

Release(t, step) ==
  /\ lock' = None
  /\ Goto(t, step)

(* A bug to be caught: only a newer file is reloaded.                      *)
NewerOnly(t) ==
  /\ at[t] = "stat"
  /\ seen' = [seen EXCEPT ![t] = Mtime(file)]
  /\ steady' = [steady EXCEPT ![t] = TRUE]
  /\ IF file # None /\ (modified = None \/ file.mtime > modified)
     THEN Goto(t, "exists") /\ UNCHANGED lock
     ELSE Release(t, "warn")
  /\ UNCHANGED <<disk, serving, snapshot, prefix, page>>

(* modified = self._mtime(); if modified != self._modified                 *)
Stat(t) ==
  /\ at[t] = "stat"
  /\ seen' = [seen EXCEPT ![t] = Mtime(file)]
  /\ steady' = [steady EXCEPT ![t] = TRUE]
  /\ IF Mtime(file) # modified
     THEN Goto(t, "exists") /\ UNCHANGED lock
     ELSE Release(t, "warn")
  /\ UNCHANGED <<disk, serving, snapshot, prefix, page>>

(* load(self.path) if self.path.exists() else Catalog()                    *)
Exists(t) ==
  /\ at[t] = "exists"
  /\ IF file = None
     THEN catalog' = Empty /\ Goto(t, "settle")
     ELSE Goto(t, "prefix") /\ UNCHANGED catalog
  /\ UNCHANGED <<disk, serving, modified, reload_error, lock, seen, prefix, page, steady>>

(* The reload raised: current() retains the snapshot and the mtime it had, *)
(* or the exception leaves do_GET and the reader gets no answer.           *)
Fail(t, exception) ==
  /\ IF exception = "caught"
     THEN reload_error' = TRUE /\ Release(t, "warn")
     ELSE UNCHANGED reload_error /\ Release(t, "dropped")
  /\ UNCHANGED <<catalog, modified>>

(* _read_prefix(path)                                                      *)
ReadPrefix(t) ==
  /\ at[t] = "prefix"
  /\ IF file = None
     THEN Fail(t, "caught") /\ UNCHANGED prefix
     ELSE /\ prefix' = [prefix EXCEPT ![t] = file.format]
          /\ Goto(t, "body")
          /\ UNCHANGED <<snapshot, lock>>
  /\ UNCHANGED <<disk, serving, seen, page, steady>>

(* A bug to be caught: the result of load is published before it is known  *)
(* to be a catalog.                                                        *)
UncheckedBody(t) ==
  /\ at[t] = "body"
  /\ catalog' = Load(prefix[t], file)
  /\ Goto(t, "settle")
  /\ UNCHANGED <<disk, serving, modified, reload_error, lock, seen, prefix, page, steady>>

ReadBody(t) ==
  /\ at[t] = "body"
  /\ IF Load(prefix[t], file) \in Raised
     THEN Fail(t, Load(prefix[t], file))
     ELSE /\ catalog' = Load(prefix[t], file)
          /\ Goto(t, "settle")
          /\ UNCHANGED <<modified, reload_error, lock>>
  /\ UNCHANGED <<disk, serving, seen, prefix, page, steady>>

(* A bug to be caught: the file is stat'ed again after it was loaded.      *)
StatAfterLoad(t) ==
  /\ at[t] = "settle"
  /\ modified' = Mtime(file)
  /\ reload_error' = FALSE
  /\ Release(t, "warn")
  /\ UNCHANGED <<disk, serving, catalog, seen, prefix, page, steady>>

(* else: self._modified = modified; self.reload_error = None               *)
Settle(t) ==
  /\ at[t] = "settle"
  /\ modified' = seen[t]
  /\ reload_error' = FALSE
  /\ Release(t, "warn")
  /\ UNCHANGED <<disk, serving, catalog, seen, prefix, page, steady>>

-----------------------------------------------------------------------------
(* render_catalog(service, ..., reload_error=state.reload_error): the      *)
(* argument first, then the rows, then len(service.catalog), all unlocked. *)
ReadWarning(t) ==
  /\ at[t] = "warn"
  /\ warning' = [warning EXCEPT ![t] = reload_error]
  /\ Goto(t, "rows")
  /\ UNCHANGED <<disk, serving, snapshot, lock, seen, prefix, rows, total, steady>>

ReadRows(t) ==
  /\ at[t] = "rows"
  /\ rows' = [rows EXCEPT ![t] = catalog]
  /\ Goto(t, "total")
  /\ UNCHANGED <<disk, serving, snapshot, lock, seen, prefix, warning, total, steady>>

ReadTotal(t) ==
  /\ at[t] = "total"
  /\ total' = [total EXCEPT ![t] = catalog]
  /\ Goto(t, "respond")
  /\ UNCHANGED <<disk, serving, snapshot, lock, seen, prefix, warning, rows, steady>>

(* The answer is sent, or the connection breaks; the thread ends and what  *)
(* was local to it is gone.                                                *)
Respond(t) ==
  /\ at[t] \in {"respond", "dropped"}
  /\ Goto(t, "idle")
  /\ seen' = [seen EXCEPT ![t] = None]
  /\ prefix' = [prefix EXCEPT ![t] = None]
  /\ warning' = [warning EXCEPT ![t] = FALSE]
  /\ rows' = [rows EXCEPT ![t] = None]
  /\ total' = [total EXCEPT ![t] = None]
  /\ steady' = [steady EXCEPT ![t] = FALSE]
  /\ UNCHANGED <<disk, serving, snapshot, lock>>

-----------------------------------------------------------------------------
Change ==
  /\ changes < MaxChanges
  /\ changes' = changes + 1
  /\ past' = past \union {Mtime(file)}
  /\ early' = ~serving
  /\ steady' = [t \in Threads |-> FALSE]
  /\ UNCHANGED <<serving, snapshot, lock, at, seen, prefix, page>>

(* Another process replaces the file.  Every version has an mtime of its   *)
(* own: replacements are further apart than the file system's clock ticks. *)
ReplaceFile(v) ==
  /\ Change
  /\ v.mtime = changes'
  /\ file' = v
  /\ UNCHANGED aside

(* The user deletes the file, or renames it away.                          *)
RenameAway ==
  /\ Change
  /\ file # None
  /\ file' = None
  /\ aside' = file

(* What was renamed away comes back with the mtime it had.                 *)
RenameBack ==
  /\ Change
  /\ aside # None
  /\ file' = aside
  /\ aside' = None

-----------------------------------------------------------------------------
Handle(t) ==
  \/ Acquire(t)
  \/ Stat(t)
  \/ Exists(t)
  \/ ReadPrefix(t)
  \/ ReadBody(t)
  \/ Settle(t)
  \/ ReadWarning(t)
  \/ ReadRows(t)
  \/ ReadTotal(t)
  \/ Respond(t)

Next ==
  \/ Start
  \/ \E t \in Threads : Request(t) \/ Handle(t)
  \/ \E v \in Version : ReplaceFile(v)
  \/ RenameAway
  \/ RenameBack

(* The scheduler runs every handler thread; nobody has to send requests.   *)
Spec == Init /\ [][Next]_vars /\ \A t \in Threads : WF_vars(Handle(t))

-----------------------------------------------------------------------------
Bodies == Catalogs \union {Empty}

TypeOK ==
  /\ file \in Version \union {None}
  /\ aside \in Version \union {None}
  /\ changes \in 0 .. MaxChanges
  /\ past \subseteq 0 .. MaxChanges \union {None}
  /\ early \in BOOLEAN
  /\ serving \in BOOLEAN
  /\ catalog \in Bodies
  /\ modified \in 0 .. MaxChanges \union {None}
  /\ reload_error \in BOOLEAN
  /\ lock \in Threads \union {None}
  /\ at \in [Threads -> {"idle", "lock", "stat", "exists", "prefix", "body", "settle",
                         "warn", "rows", "total", "respond", "dropped"}]
  /\ seen \in [Threads -> 0 .. MaxChanges \union {None}]
  /\ prefix \in [Threads -> {"json", "native", None}]
  /\ warning \in [Threads -> BOOLEAN]
  /\ rows \in [Threads -> Bodies \union {None}]
  /\ total \in [Threads -> Bodies \union {None}]
  /\ steady \in [Threads -> BOOLEAN]

(* A version that comes back under the mtime it had before, or a path that *)
(* is empty once more, cannot be told by stat from no change at all.       *)
FirstOfItsTime == Mtime(file) \notin past

(* Nor can a version that came between the load and the stat with which    *)
(* the server starts (web.py:31-32): its mtime is recorded, unread.        *)
Noticeable == FirstOfItsTime /\ ~early

(* docs/web.md:34-35, "notices when another AMC Python process replaces    *)
(* the catalog and reloads it before the next request": between reloads, a *)
(* noticeable file whose mtime is the recorded one is the file displayed,  *)
(* so a replacement while the server runs can only be missed by not        *)
(* looking, wherever it falls between the steps of a reload.               *)
UnchangedMeansCurrent ==
  serving /\ lock = None /\ Noticeable /\ Mtime(file) = modified
    => catalog = Shown(file)

Honest(t) ==
  /\ rows[t] = total[t]
  /\ IF Shown(file) \in Raised THEN warning[t] ELSE rows[t] = Shown(file)

(* docs/web.md:35-37: a page whose request was not overtaken by another    *)
(* change of the file shows that file, rows and total alike, or shows the  *)
(* last valid snapshot and says that the reload of an invalid file failed. *)
(* It says nothing of a page during whose request the file changed.        *)
StaleIsAdmitted ==
  \A t \in Threads : at[t] = "respond" /\ steady[t] /\ Noticeable => Honest(t)

(* The same of every file that stat can tell from its predecessors, also   *)
(* one that came while the server started: docs/web.md:34-35 has no        *)
(* exception for it.  The code does not keep it (README.md, divergences).  *)
EveryReplacementNoticed ==
  \A t \in Threads : at[t] = "respond" /\ steady[t] /\ FirstOfItsTime => Honest(t)

(* As long as readers keep coming, a valid file that no longer changes and *)
(* that stat can tell from its predecessors, unless it came while the      *)
(* server started, is eventually the one displayed, however loads and      *)
(* replacements crossed.                                                   *)
Asked == \E t \in Threads : at[t] = "stat"
EventuallyCurrent ==
  []<>Asked => <>[](Noticeable /\ Shown(file) \notin Raised => catalog = Shown(file))

(* docs/web.md:35-36, "readers continue seeing the last valid snapshot and *)
(* receive a visible reload warning": no invalid file leaves a reader      *)
(* without a page.                                                         *)
EveryReaderAnswered == \A t \in Threads : at[t] # "dropped"

=============================================================================
