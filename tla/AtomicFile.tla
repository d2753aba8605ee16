----------------------------- MODULE AtomicFile -----------------------------
(***************************************************************************)
(* The writers of amc, step by step, on a POSIX file system that may crash *)
(* (storage.py, native.py, preferences.py, scripts.py, loans.py).          *)
(*                                                                         *)
(* All of them write a temporary file beside the destination, fsync it,    *)
(* replace the destination and fsync the directory.  The native writer     *)
(* first copies an existing destination to its .bak by the same steps.     *)
(*                                                                         *)
(* The file system keeps names and bytes twice: what processes see, and    *)
(* what a crash leaves.  Without an fsync either may reach the disk at any *)
(* time, in any order.                                                     *)
(***************************************************************************)
EXTENDS Naturals, Sequences

CONSTANTS
  Writers,      \* concurrent writers of one destination, one call each
  Native,       \* those that are write_native_catalog
  UniqueNames,  \* unique_temporary_path and mode "x", or ".name.tmp" and "w"
  Chunks,       \* how many writes a document takes
  Original,     \* the document at the destination before any writer
  Hole,         \* bytes never written
  None          \* no such file, no open file

ASSUME NativeAssumption == Native \subseteq Writers
ASSUME UniqueNamesAssumption == UniqueNames \in BOOLEAN
ASSUME ChunksAssumption == Chunks \in Nat \ {0}
ASSUME DocumentAssumption == Original \notin Writers /\ Hole \notin Writers \union {Original}

(* A native writer runs the same steps for its backup as for its document. *)
Stage == {"main", "backup"}

Inode == {<<w, s>> : w \in Writers, s \in Stage} \union {<<Original, "main">>}

ASSUME NoneAssumption == None \notin Inode
ASSUME NamesAssumption == "target" \notin Writers

(* The files a stage replaces: the destination and its .bak.               *)
Target(s) == <<"target", s>>

Destination == Target("main")
Bak == Target("backup")

Temporary(w, s) == IF UniqueNames THEN <<w, s>> ELSE <<"shared", s>>

Targets == {Destination, Bak}
Names == Targets \union {Temporary(w, s) : w \in Writers, s \in Stage}

Contents == [1 .. Chunks -> Writers \union {Original, Hole}]

Blank == [k \in 1 .. Chunks |-> Hole]
Whole(d) == [k \in 1 .. Chunks |-> d]

Steps == {"open", "write", "fsync", "check", "replace", "sync", "unlink"}
Outcomes == {"idle", "ok", "raised", "killed"}


VARIABLES
  cached,     \* cached[i][k]: the bytes of inode i that processes read
  durable,    \* durable[i][k]: the bytes of inode i that a crash leaves
  entry,      \* entry[n]: the inode processes find under name n
  journal,    \* journal[n]: the inode a crash leaves under name n
  at,         \* at[w]: the stage and the step that w is about to do, or
              \* "main" and an outcome
  written,    \* written[w]: chunks written so far in this stage
  fd,         \* fd[w][s]: the temporary file that w has open in stage s
  source,     \* source[w]: the destination that w copies to .bak
  failed,     \* failed[w]: an exception is propagating
  installs    \* history variable: the writers that have replaced the
              \* destination, in order

fileVars == <<cached, durable, entry, journal, at, written, fd, source, failed, installs>>

files == <<cached, durable, entry, journal>>
handles == <<written, fd, source>>

At(w, s, step) == at[w] = <<s, step>>

Active(w) == at[w][2] \notin Outcomes

Goto(w, s, step) == at' = [at EXCEPT ![w] = <<s, step>>]

-----------------------------------------------------------------------------
FileInit ==
  /\ cached = [i \in Inode |-> IF i[1] = Original THEN Whole(Original) ELSE Blank]
  /\ durable = cached
  /\ entry \in {[n \in Names |-> IF n = Destination THEN d ELSE None] :
                  d \in {None, <<Original, "main">>}}
  /\ journal = entry
  /\ at = [w \in Writers |-> <<"main", "idle">>]
  /\ written = [w \in Writers |-> 0]
  /\ fd = [w \in Writers |-> [s \in Stage |-> None]]
  /\ source = [w \in Writers |-> None]
  /\ failed = [w \in Writers |-> FALSE]
  /\ installs = <<>>

Begin(w) ==
  /\ At(w, "main", "idle")
  /\ Goto(w, "main", "open")
  /\ UNCHANGED <<files, handles, failed, installs>>

(* temporary.open("x"), or open("w") which truncates whatever is there.    *)
(* _backup_native_destination opens the destination for reading first.     *)
OpenTemporary(w, s) ==
  /\ At(w, s, "open")
  /\ LET name == Temporary(w, s)
         inode == IF entry[name] = None THEN <<w, s>> ELSE entry[name]
     IN /\ cached' = [cached EXCEPT ![inode] = Blank]
        /\ entry' = [entry EXCEPT ![name] = inode]
        /\ fd' = [fd EXCEPT ![w][s] = inode]
  /\ source' = IF s = "backup" THEN [source EXCEPT ![w] = entry[Destination]] ELSE source
  /\ written' = [written EXCEPT ![w] = 0]
  /\ Goto(w, s, "write")
  /\ UNCHANGED <<durable, journal, failed, installs>>

(* A bug to be caught: a copy loop that reads once more than it should.    *)
WriteOneMore(w, s) ==
  /\ At(w, s, "write")
  /\ LET k == written[w] + 1
     IN /\ cached' = [cached EXCEPT ![fd[w][s]][k] =
                        IF s = "main" THEN w ELSE cached[source[w]][k]]
        /\ written' = [written EXCEPT ![w] = k]
        /\ Goto(w, s, IF k > Chunks THEN "fsync" ELSE "write")
  /\ UNCHANGED <<durable, entry, journal, fd, source, failed, installs>>

(* The document, or shutil.copyfileobj from the destination.               *)
Write(w, s) ==
  /\ At(w, s, "write")
  /\ LET k == written[w] + 1
     IN /\ cached' = [cached EXCEPT ![fd[w][s]][k] =
                        IF s = "main" THEN w ELSE cached[source[w]][k]]
        /\ written' = [written EXCEPT ![w] = k]
        /\ Goto(w, s, IF k = Chunks THEN "fsync" ELSE "write")
  /\ UNCHANGED <<durable, entry, journal, fd, source, failed, installs>>

(* A bug to be caught: flush() without fsync().                            *)
FlushOnly(w, s) ==
  /\ At(w, s, "fsync")
  /\ Goto(w, s, IF s = "main" /\ w \in Native THEN "check" ELSE "replace")
  /\ UNCHANGED <<files, handles, failed, installs>>

Fsync(w, s) ==
  /\ At(w, s, "fsync")
  /\ durable' = [durable EXCEPT ![fd[w][s]] = cached[fd[w][s]]]
  /\ Goto(w, s, IF s = "main" /\ w \in Native THEN "check" ELSE "replace")
  /\ UNCHANGED <<cached, entry, journal, handles, failed, installs>>

(* if path.exists(): _backup_native_destination(path)                      *)
CheckExists(w) ==
  /\ At(w, "main", "check")
  /\ IF entry[Destination] = None
     THEN Goto(w, "main", "replace")
     ELSE Goto(w, "backup", "open")
  /\ UNCHANGED <<files, handles, failed, installs>>

(* source.replace(destination): raises when the temporary file is gone.    *)
Replace(w, s) ==
  /\ At(w, s, "replace")
  /\ entry[Temporary(w, s)] # None
  /\ entry' = [entry EXCEPT ![Target(s)] = entry[Temporary(w, s)],
                            ![Temporary(w, s)] = None]
  /\ installs' = IF s = "main" THEN Append(installs, w) ELSE installs
  /\ Goto(w, s, "sync")
  /\ UNCHANGED <<cached, durable, journal, handles, failed>>

(* A bug to be caught: the directory entry is not made durable.            *)
NoDirectorySync(w, s) ==
  /\ At(w, s, "sync")
  /\ Goto(w, s, "unlink")
  /\ UNCHANGED <<files, handles, failed, installs>>

SyncDirectory(w, s) ==
  /\ At(w, s, "sync")
  /\ journal' = entry
  /\ Goto(w, s, "unlink")
  /\ UNCHANGED <<cached, durable, entry, handles, failed, installs>>

(* Any step but the last may raise; a missing temporary file makes the     *)
(* replacement raise.  finally: follows.                                   *)
Raise(w, s) ==
  /\ \E step \in Steps \ {"unlink"} : At(w, s, step)
  /\ failed' = [failed EXCEPT ![w] = TRUE]
  /\ Goto(w, s, "unlink")
  /\ UNCHANGED <<files, handles, installs>>

(* A backup that raised makes the native writer raise, one that did not    *)
(* lets it replace the destination.                                        *)
AfterUnlink(w, s) ==
  Goto(w, "main", CASE s = "backup" -> IF failed[w] THEN "unlink" ELSE "replace"
                    [] s = "main" -> IF failed[w] THEN "raised" ELSE "ok")

(* A bug to be caught: the temporary file is only removed after success.   *)
UnlinkOnSuccess(w, s) ==
  /\ At(w, s, "unlink")
  /\ entry' = IF failed[w] THEN entry ELSE [entry EXCEPT ![Temporary(w, s)] = None]
  /\ AfterUnlink(w, s)
  /\ UNCHANGED <<cached, durable, journal, handles, failed, installs>>

(* temporary.unlink(missing_ok=True)                                       *)
Unlink(w, s) ==
  /\ At(w, s, "unlink")
  /\ entry' = [entry EXCEPT ![Temporary(w, s)] = None]
  /\ AfterUnlink(w, s)
  /\ UNCHANGED <<cached, durable, journal, handles, failed, installs>>

-----------------------------------------------------------------------------
(* The process of a writer is killed: no finally.                          *)
Kill(w) ==
  /\ Active(w)
  /\ Goto(w, "main", "killed")
  /\ UNCHANGED <<files, handles, failed, installs>>

(* Bytes and directory entries reach the disk when they like.              *)
WriteBack(i, k) ==
  /\ durable' = [durable EXCEPT ![i][k] = cached[i][k]]
  /\ UNCHANGED <<cached, entry, journal, at, handles, failed, installs>>

CommitEntry(n) ==
  /\ journal' = [journal EXCEPT ![n] = entry[n]]
  /\ UNCHANGED <<cached, durable, entry, at, handles, failed, installs>>

(* The machine stops; what is on the disk is what there is.                *)
Crash ==
  /\ cached' = durable
  /\ entry' = journal
  /\ at' = [w \in Writers |-> IF Active(w) THEN <<"main", "killed">> ELSE at[w]]
  /\ UNCHANGED <<durable, journal, handles, failed, installs>>

-----------------------------------------------------------------------------
WriterStep(w) ==
  \/ Begin(w)
  \/ CheckExists(w)
  \/ Kill(w)
  \/ \E s \in Stage :
       \/ OpenTemporary(w, s)
       \/ Write(w, s)
       \/ Fsync(w, s)
       \/ Replace(w, s)
       \/ SyncDirectory(w, s)
       \/ Raise(w, s)
       \/ Unlink(w, s)

FileNext ==
  \/ \E w \in Writers : WriterStep(w)
  \/ \E i \in Inode, k \in 1 .. Chunks : WriteBack(i, k)
  \/ \E n \in Names : CommitEntry(n)
  \/ Crash

FileSpec == FileInit /\ [][FileNext]_fileVars

-----------------------------------------------------------------------------
FileTypeOK ==
  /\ cached \in [Inode -> Contents]
  /\ durable \in [Inode -> Contents]
  /\ entry \in [Names -> Inode \union {None}]
  /\ journal \in [Names -> Inode \union {None}]
  /\ at \in [Writers -> Stage \X (Steps \union Outcomes)]
  /\ written \in [Writers -> 0 .. Chunks]
  /\ fd \in [Writers -> [Stage -> Inode \union {None}]]
  /\ source \in [Writers -> Inode \union {None}]
  /\ failed \in [Writers -> BOOLEAN]
  /\ installs \in Seq(Writers)

Complete(bytes) == \E d \in Writers \union {Original} : bytes = Whole(d)

(* docs/decisions.md:118-119, "must never leave a truncated or half-written *)
(* file in the original path": what a reader finds at the destination and  *)
(* at the backup, now or after a crash, is one writer's whole document.    *)
TargetsComplete ==
  \A n \in Targets :
    /\ entry[n] # None => Complete(cached[entry[n]])
    /\ journal[n] # None => Complete(durable[journal[n]])

(* The document that a crash would leave at the destination.               *)
Surviving(w) ==
  journal[Destination] # None /\ durable[journal[Destination]] = Whole(w)

(* docs/decisions.md:121-128: a writer that returned has its document on   *)
(* the disk, or one that replaced it later; no crash brings back an older. *)
AcknowledgedSurvives ==
  \A w \in Writers :
    At(w, "main", "ok") =>
      \E i, j \in DOMAIN installs : installs[i] = w /\ i <= j /\ Surviving(installs[j])

(* A writer that returned leaves no temporary file, and no crash brings it *)
(* back; after one that raised only a crash may bring it back, because the *)
(* removal itself is not synced.                                           *)
NoDebris ==
  \A w \in Writers, s \in Stage :
    /\ At(w, "main", "ok") => {entry[Temporary(w, s)], journal[Temporary(w, s)]} = {None}
    /\ At(w, "main", "raised") /\ entry[Temporary(w, s)] # None
         => journal[Temporary(w, s)] # None

(* _backup_native_destination: when no other writer came in between, the   *)
(* document that a native writer replaces is durably in the backup at the  *)
(* moment it disappears from the destination.                              *)
ReplacedIsBackedUp ==
  [][\A w \in Native :
       /\ Replace(w, "main")
       /\ entry[Destination] # None
       /\ entry[Destination] = source[w]
       /\ entry[Bak] = fd[w]["backup"]
       => /\ journal[Bak] # None
          /\ durable[journal[Bak]] = cached[entry[Destination]]]_fileVars

=============================================================================
