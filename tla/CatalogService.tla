--------------------------- MODULE CatalogService ---------------------------
(***************************************************************************)
(* CatalogService (amc/application.py): one service, single-threaded, over *)
(* files that other AMC Python processes and the user also change.         *)
(*                                                                         *)
(* Every mutation of the service (add, replace, remove, merge, loans,      *)
(* pictures, renumber, sort, ...) goes through _persist, which sees it as  *)
(* a function on an isolated candidate: here any candidate at all.         *)
(***************************************************************************)
EXTENDS CatalogFiles, Integers, SequencesExt

CONSTANT MaxHistoryLimit  \* preferences.MAX_HISTORY_LIMIT

ASSUME HistoryLimitAssumption == MaxHistoryLimit \in Nat \ {0}

VARIABLES
  disk,           \* disk[p]: the file at path p, or Absent
  path,           \* the path the service saves to
  catalog,        \* the catalog the adapters display
  history_limit,
  undo,           \* _undo, the last entry is restored first
  redo,           \* _redo, likewise
  persisted,      \* history variable: catalogs ever read from or written to
                  \* a file by this service
  disturbed       \* history variable: the file at `path' was last changed by
                  \* something other than a successful call of the service

vars == <<disk, path, catalog, history_limit, undo, redo, persisted, disturbed>>
session == <<path, catalog, history_limit, undo, redo, persisted>>

Limits == 1 .. MaxHistoryLimit

(* storage._atomic_text and copy_catalog end in replace_and_sync_directory *)
(* (module AtomicFile has the steps).  They raise with the destination     *)
(* untouched, or, when only the fsync of the directory fails, with the     *)
(* destination already replaced.                                           *)
Results == {"ok", "raised_before_replace", "raised_after_replace"}

Install(p, file, result) ==
  disk' = IF result = "raised_before_replace" THEN disk
          ELSE [disk EXCEPT ![p] = file]

(* Installing a file at `path' counts as a disturbance when it raised.     *)
Disturb(p, result) ==
  disturbed' = IF p = path /\ result # "raised_before_replace"
               THEN result = "raised_after_replace"
               ELSE disturbed

(* A bug to be caught: del stack[history_limit:].                          *)
OldestKept(stack, limit) ==
  IF Len(stack) > limit THEN SubSeq(stack, 1, limit) ELSE stack

(* del stack[:-history_limit]                                              *)
Newest(stack, limit) ==
  IF Len(stack) > limit THEN SubSeq(stack, Len(stack) - limit + 1, Len(stack))
  ELSE stack

(* load(path) if path.exists() else Catalog()                              *)
Opened(p, files) ==
  IF files[p] = Absent THEN Empty ELSE Load(Suffix[p], files[p])

-----------------------------------------------------------------------------
(* A new catalog becomes current and the history of the old one is gone.   *)
Adopt(p, c) ==
  /\ path' = p
  /\ catalog' = c
  /\ undo' = <<>>
  /\ redo' = <<>>
  /\ persisted' = persisted \union {c}
  /\ disturbed' = FALSE

Init ==
  /\ disk \in [Paths -> File \union {Absent}]
  /\ path \in Paths
  /\ catalog = Opened(path, disk)
  /\ catalog # Failure
  /\ history_limit \in Limits
  /\ undo = <<>>
  /\ redo = <<>>
  /\ persisted = {catalog}
  /\ disturbed = FALSE

(* The process ends, or crashes, and another one opens some catalog.       *)
Restart(p) ==
  /\ Opened(p, disk) # Failure
  /\ Adopt(p, Opened(p, disk))
  /\ history_limit' \in Limits
  /\ UNCHANGED disk

(* A bug to be caught: the catalog is assigned whatever load did.          *)
UncheckedReload ==
  /\ Adopt(path, Opened(path, disk))
  /\ UNCHANGED <<disk, history_limit>>

Reload ==
  /\ Opened(path, disk) # Failure
  /\ Adopt(path, Opened(path, disk))
  /\ UNCHANGED <<disk, history_limit>>

Open(p) ==
  /\ disk[p] # Absent
  /\ Opened(p, disk) # Failure
  /\ Adopt(p, Opened(p, disk))
  /\ UNCHANGED <<disk, history_limit>>

(* Bugs to be caught: save_as adopts the path before it saves; save_as does *)
(* not require a working format.                                           *)
AdoptingSaveAs(p, result) ==
  /\ IsWorkingFormat(p)
  /\ Install(p, JsonFile(catalog), result)
  /\ persisted' = persisted \union {catalog}
  /\ path' = p
  /\ Disturb(p, result)
  /\ UNCHANGED <<catalog, history_limit, undo, redo>>

AnySuffixSaveAs(p, result) ==
  /\ Install(p, JsonFile(catalog), result)
  /\ persisted' = persisted \union {catalog}
  /\ path' = IF result = "ok" THEN p ELSE path
  /\ disturbed' = TRUE
  /\ UNCHANGED <<catalog, history_limit, undo, redo>>

(* save_as adopts the new path only after the save and keeps the history.  *)
SaveAs(p, result) ==
  /\ IsWorkingFormat(p)
  /\ Install(p, JsonFile(catalog), result)
  /\ IF result = "ok"
     THEN /\ path' = p
          /\ persisted' = persisted \union {catalog}
          /\ disturbed' = FALSE
     ELSE /\ Disturb(p, result)
          /\ UNCHANGED <<path, persisted>>
  /\ UNCHANGED <<catalog, history_limit, undo, redo>>

Save(result) == SaveAs(path, result)

(* Bugs to be caught: _persist publishes the candidate before it saves; it *)
(* does not clear the redo stack.                                          *)
PublishingPersist(candidate, result) ==
  /\ IsWorkingFormat(path)
  /\ Install(path, JsonFile(candidate), result)
  /\ disturbed' = TRUE
  /\ catalog' = candidate
  /\ IF result = "ok"
     THEN /\ undo' = Newest(Append(undo, catalog), history_limit)
          /\ redo' = <<>>
          /\ persisted' = persisted \union {candidate}
     ELSE UNCHANGED <<undo, redo, persisted>>
  /\ UNCHANGED <<path, history_limit>>

FutureKeepingPersist(candidate, result) ==
  /\ IsWorkingFormat(path)
  /\ Install(path, JsonFile(candidate), result)
  /\ Disturb(path, result)
  /\ IF result = "ok"
     THEN /\ catalog' = candidate
          /\ undo' = Newest(Append(undo, catalog), history_limit)
          /\ persisted' = persisted \union {candidate}
     ELSE UNCHANGED <<catalog, undo, persisted>>
  /\ UNCHANGED <<path, history_limit, redo>>

(* _persist: the candidate is saved before it is published.                *)
Persist(candidate, result) ==
  /\ IsWorkingFormat(path)
  /\ Install(path, JsonFile(candidate), result)
  /\ Disturb(path, result)
  /\ IF result = "ok"
     THEN /\ catalog' = candidate
          /\ undo' = Newest(Append(undo, catalog), history_limit)
          /\ redo' = <<>>
          /\ persisted' = persisted \union {candidate}
     ELSE UNCHANGED <<catalog, undo, redo, persisted>>
  /\ UNCHANGED <<path, history_limit>>

Undo(result) ==
  /\ undo # <<>>
  /\ IsWorkingFormat(path)
  /\ Install(path, JsonFile(Last(undo)), result)
  /\ Disturb(path, result)
  /\ IF result = "ok"
     THEN /\ catalog' = Last(undo)
          /\ undo' = Front(undo)
          /\ redo' = Newest(Append(redo, catalog), history_limit)
     ELSE UNCHANGED <<catalog, undo, redo>>
  /\ UNCHANGED <<path, history_limit, persisted>>

Redo(result) ==
  /\ redo # <<>>
  /\ IsWorkingFormat(path)
  /\ Install(path, JsonFile(Last(redo)), result)
  /\ Disturb(path, result)
  /\ IF result = "ok"
     THEN /\ catalog' = Last(redo)
          /\ redo' = Front(redo)
          /\ undo' = Newest(Append(undo, catalog), history_limit)
     ELSE UNCHANGED <<catalog, undo, redo>>
  /\ UNCHANGED <<path, history_limit, persisted>>

(* The preferences dialog assigns the limit and does not trim the stacks.  *)
SetHistoryLimit(n) ==
  /\ history_limit' = n
  /\ UNCHANGED <<disk, path, catalog, undo, redo, persisted, disturbed>>

-----------------------------------------------------------------------------
Backup(p, result) ==
  /\ p # path
  /\ ValidatedCopy(disk[path])
  /\ Install(p, disk[path], result)
  /\ UNCHANGED <<session, disturbed>>

(* restore copies, then reloads; when the reload raises, the old catalog   *)
(* stays current over a file it no longer describes.                       *)
Restore(p, result) ==
  /\ p # path
  /\ ValidatedCopy(disk[p])
  /\ Install(path, disk[p], result)
  /\ IF result = "ok" /\ Opened(path, disk') # Failure
     THEN Adopt(path, Opened(path, disk')) /\ UNCHANGED history_limit
     ELSE /\ disturbed' = (disturbed \/ disk' # disk)
          /\ UNCHANGED session

(* Exports replace any destination, the service's own path included; a     *)
(* reader of the result may find another catalog in it, since interchange  *)
(* formats do not carry everything.                                        *)
Export(p, format, c, result) ==
  /\ format # "json"
  /\ Install(p, FileOf(format, c), result)
  /\ disturbed' = (disturbed \/ (p = path /\ disk' # disk))
  /\ UNCHANGED session

-----------------------------------------------------------------------------
(* What others do to the files: another service saves a working catalog,   *)
(* the CLI restores or converts into any path (restore_to and convert_to   *)
(* have no format guard), the user deletes a file.                         *)
OtherSaves(p, c) ==
  /\ IsWorkingFormat(p)
  /\ disk' = [disk EXCEPT ![p] = JsonFile(c)]
  /\ disturbed' = (disturbed \/ p = path)
  /\ UNCHANGED session

RestoreTo(source, p) ==
  /\ source # p
  /\ ValidatedCopy(disk[source])
  /\ disk' = [disk EXCEPT ![p] = disk[source]]
  /\ disturbed' = (disturbed \/ p = path)
  /\ UNCHANGED session

ConvertTo(source, p) ==
  /\ disk[source] # Absent
  /\ Load(Suffix[source], disk[source]) # Failure
  /\ disk' = [disk EXCEPT ![p] = JsonFile(Load(Suffix[source], disk[source]))]
  /\ disturbed' = (disturbed \/ p = path)
  /\ UNCHANGED session

Delete(p) ==
  /\ disk[p] # Absent
  /\ disk' = [disk EXCEPT ![p] = Absent]
  /\ disturbed' = (disturbed \/ p = path)
  /\ UNCHANGED session

-----------------------------------------------------------------------------
(* Every mutation of the service is _persist of some candidate.            *)
Edit ==
  \E result \in Results :
    \/ \E c \in Catalogs : Persist(c, result)
    \/ Undo(result)
    \/ Redo(result)

FileOperation ==
  \/ Reload
  \/ \E p \in Paths : Open(p)
  \/ \E result \in Results :
       \/ Save(result)
       \/ \E p \in Paths :
            \/ SaveAs(p, result)
            \/ Backup(p, result)
            \/ Restore(p, result)
            \/ \E f \in Formats, c \in Catalogs : Export(p, f, c, result)

Environment ==
  \E p \in Paths :
    \/ Restart(p)
    \/ Delete(p)
    \/ \E c \in Catalogs : OtherSaves(p, c)
    \/ \E source \in Paths : RestoreTo(source, p) \/ ConvertTo(source, p)

Next ==
  \/ Edit
  \/ FileOperation
  \/ Environment
  \/ \E n \in Limits : SetHistoryLimit(n)

Spec == Init /\ [][Next]_vars

-----------------------------------------------------------------------------
TypeOK ==
  /\ disk \in [Paths -> File \union {Absent}]
  /\ path \in Paths
  /\ catalog \in Catalogs
  /\ history_limit \in Limits
  /\ undo \in Seq(Catalogs)
  /\ redo \in Seq(Catalogs)
  /\ persisted \subseteq Catalogs
  /\ disturbed \in BOOLEAN

(* The two stacks together never hold more than the largest limit, however *)
(* the limit is moved between mutations, undos and redos: raising and      *)
(* lowering it while walking the history cannot make the service retain an *)
(* unbounded number of whole catalogs.                                     *)
HistoryBounded == Len(undo) + Len(redo) <= MaxHistoryLimit

(* Reloading would change nothing, whatever sequence of edits, undos, saves *)
(* that fail with the file untouched, changes of path and restores led     *)
(* here.  Nothing is claimed while the file is disturbed: by another       *)
(* program, by a call that raised after it had replaced the file (a        *)
(* restore whose reload raises is one), or by an export to its own path.   *)
DisplayMatchesFile == ~disturbed => Opened(path, disk) = catalog

(* docs/architecture.md:31: neither the display nor any state undo or redo *)
(* can bring back is one that was never saved.                             *)
PublishedWasPersisted == {catalog} \union Range(undo) \union Range(redo) \subseteq persisted

(* A history exists only over a working file, so undo and redo are never   *)
(* refused by the read-only guard, whatever was opened or saved as.        *)
HistoryIsWritable == undo # <<>> \/ redo # <<>> => IsWorkingFormat(path)

(* The stacks are one timeline with the current catalog on it.             *)
Timeline == Append(undo, catalog) \o Reverse(redo)

Document == INSTANCE UndoableDocument WITH
  Value <- Catalogs,
  MaxCapacity <- MaxHistoryLimit,
  timeline <- Timeline,
  position <- Len(undo) + 1,
  capacity <- history_limit

(* Undo and redo walk one timeline: an undo followed by a redo (or the     *)
(* reverse) is the identity, an edit forgets the future, and no failed     *)
(* save, save_as or limit change moves the user along it.                  *)
BehavesAsDocument == Document!Spec

=============================================================================
