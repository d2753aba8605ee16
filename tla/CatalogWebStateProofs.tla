------------------------ MODULE CatalogWebStateProofs ------------------------
(***************************************************************************)
(* Proofs about CatalogWebState for any number of handler threads, any     *)
(* catalogs and any number of changes of the file, before and after the    *)
(* server listens: a page is current or says that it is not, unless the    *)
(* file came while the server started.                                     *)
(*                                                                         *)
(* Neither property is inductive.  What they leave out is what a load in   *)
(* progress knows of the file (Loads), that a load which others can        *)
(* disturb was begun before the page was (LaterLoads), and what the page   *)
(* has collected so far (Renders).                                         *)
(***************************************************************************)
EXTENDS CatalogWebState, TLAPS

USE EmptyAssumption, NoneAssumption, NoFileAssumption, RaisedAssumption, MaxChangesAssumption

Loading == {"exists", "prefix", "body", "settle"}
Rendering == {"warn", "rows", "total", "respond"}

(* The recorded mtime was that of the file, now or before.                 *)
KnownTime == serving => modified \in past \union {Mtime(file)}

(* One thread at most is between the two ends of `with self._lock'.        *)
Exclusive == \A t \in Threads : at[t] \in Loading \union {"stat"} <=> lock = t

(* Before the server listens there are no requests, and what it has loaded *)
(* is the file unless that has changed.                                    *)
Starting ==
  ~serving => /\ \A t \in Threads : at[t] = "idle"
              /\ early \/ catalog = Shown(file)

(* The displayed catalog is the file, and the file is valid.               *)
Displayed == catalog = Shown(file) /\ Shown(file) \notin Raised

(* An mtime that is recorded, and was neither another's nor that of a file  *)
(* that came during the start, is that of the catalog displayed.           *)
RecordedIsDisplayed == serving /\ Noticeable /\ modified = Mtime(file) => Displayed

(* A load that nothing disturbed reads the file as it is, one that was     *)
(* disturbed will record an mtime of the past; while it runs the recorded  *)
(* mtime is not that of the file.                                          *)
Undisturbed(t) ==
  /\ seen[t] = Mtime(file)
  /\ at[t] \in {"prefix", "body"} => file # None
  /\ at[t] = "body" => prefix[t] = file.format
  /\ at[t] = "settle" => Displayed

Loads(t) ==
  at[t] \in Loading =>
    /\ IF steady[t] THEN Undisturbed(t) ELSE seen[t] \in past
    /\ Noticeable => modified # Mtime(file)

(* A load in progress beside a page that is steady began after that page   *)
(* had looked at the file, hence is steady itself.                         *)
LaterLoads ==
  \A t, s \in Threads :
    at[t] \in Rendering /\ steady[t] /\ at[s] \in Loading => steady[s]

(* What a page shows so far of an invalid file, and of a valid one.        *)
AdmitsStale(t) ==
  /\ at[t] = "warn" => reload_error
  /\ at[t] \in {"rows", "total", "respond"} => warning[t]
  /\ at[t] = "total" => rows[t] = catalog
  /\ at[t] = "respond" => rows[t] = total[t]

ShowsCurrent(t) ==
  /\ modified = Mtime(file)
  /\ at[t] \in {"total", "respond"} => rows[t] = Shown(file)
  /\ at[t] = "respond" => total[t] = Shown(file)

Renders(t) ==
  at[t] \in Rendering /\ steady[t] /\ Noticeable =>
    IF Shown(file) \in Raised THEN AdmitsStale(t) ELSE ShowsCurrent(t)

WebInv ==
  /\ TypeOK
  /\ Exclusive
  /\ Starting
  /\ KnownTime
  /\ RecordedIsDisplayed
  /\ LaterLoads
  /\ \A t \in Threads : Loads(t) /\ Renders(t)

-----------------------------------------------------------------------------
(* The state of the server stays well formed.                              *)
LEMMA TypeStays == ASSUME TypeOK, [Next]_vars PROVE TypeOK'
<1>1. CASE UNCHANGED vars
  BY <1>1 DEF TypeOK, vars
<1>2. CASE Start
  BY <1>2 DEF TypeOK, Start, Mtime, Version, disk, page
<1>3. ASSUME NEW t \in Threads, Request(t) \/ Acquire(t) PROVE TypeOK'
  BY <1>3 DEF TypeOK, Request, Acquire, Goto, disk, snapshot, page
<1>4. ASSUME NEW t \in Threads, Stat(t) PROVE TypeOK'
  BY <1>4 DEF TypeOK, Stat, Goto, Release, Mtime, Version, disk, snapshot, page
<1>5. ASSUME NEW t \in Threads, Exists(t) PROVE TypeOK'
  BY <1>5 DEF TypeOK, Exists, Goto, Bodies, disk, page
<1>6. ASSUME NEW t \in Threads, ReadPrefix(t) PROVE TypeOK'
  <2>1. CASE file = None
    BY <1>6, <2>1 DEF TypeOK, ReadPrefix, Goto, Fail, Release, disk, page
  <2>2. CASE file # None
    <3>1. file.format \in {"json", "native"}
      BY <2>2 DEF TypeOK, Version
    <3> QED
      BY <1>6, <2>2, <3>1 DEF TypeOK, ReadPrefix, Goto, disk, snapshot, page
  <2> QED
    BY <2>1, <2>2
<1>7. ASSUME NEW t \in Threads, ReadBody(t) PROVE TypeOK'
  <2>1. Load(prefix[t], file) \notin Raised => Load(prefix[t], file) \in Bodies
    BY DEF TypeOK, Load, Raised, Version, Bodies
  <2> QED
    BY <1>7, <2>1 DEF TypeOK, ReadBody, Goto, Fail, Release, disk, page
<1>8. ASSUME NEW t \in Threads, Settle(t) PROVE TypeOK'
  BY <1>8 DEF TypeOK, Settle, Goto, Release, disk, page
<1>9. ASSUME NEW t \in Threads, ReadWarning(t) \/ ReadRows(t) \/ ReadTotal(t) PROVE TypeOK'
  <2>1. CASE ReadWarning(t)
    <3>1. warning' \in [Threads -> BOOLEAN]
      BY <2>1, Zenon DEF TypeOK, ReadWarning
    <3> QED
      BY <2>1, <3>1 DEF TypeOK, ReadWarning, Goto, disk, snapshot
  <2>2. CASE ReadRows(t)
    <3>1. rows' \in [Threads -> Bodies \union {None}]
      BY <2>2 DEF TypeOK, ReadRows
    <3> QED
      BY <2>2, <3>1 DEF TypeOK, ReadRows, Goto, disk, snapshot
  <2>3. CASE ReadTotal(t)
    <3>1. total' \in [Threads -> Bodies \union {None}]
      BY <2>3 DEF TypeOK, ReadTotal
    <3> QED
      BY <2>3, <3>1 DEF TypeOK, ReadTotal, Goto, disk, snapshot
  <2> QED
    BY <1>9, <2>1, <2>2, <2>3
<1>10. ASSUME NEW t \in Threads, Respond(t) PROVE TypeOK'
  BY <1>10 DEF TypeOK, Respond, Goto, disk, snapshot
<1>11. ASSUME Change, file' \in Version \union {None}, aside' \in Version \union {None}
       PROVE TypeOK'
  <2>1. changes' \in 0 .. MaxChanges
    BY <1>11 DEF TypeOK, Change
  <2>2. past' \subseteq 0 .. MaxChanges \union {None}
    BY <1>11 DEF TypeOK, Change, Mtime, Version
  <2> QED
    BY <1>11, <2>1, <2>2 DEF TypeOK, Change, snapshot, page
<1>12. CASE RenameAway \/ RenameBack \/ \E v \in Version : ReplaceFile(v)
  BY <1>11, <1>12 DEF TypeOK, RenameAway, RenameBack, ReplaceFile
<1> QED
  BY <1>1, <1>2, <1>3, <1>4, <1>5, <1>6, <1>7, <1>8, <1>9, <1>10, <1>12 DEF Next, Handle

(* A step of one thread leaves the file, and what is local to the others.  *)
LEMMA OthersStay ==
  ASSUME TypeOK, NEW t \in Threads, Request(t) \/ Handle(t)
  PROVE  /\ UNCHANGED <<file, aside, changes, past, early, serving>>
         /\ \A s \in Threads \ {t} :
              /\ at'[s] = at[s] /\ seen'[s] = seen[s] /\ prefix'[s] = prefix[s]
              /\ warning'[s] = warning[s] /\ rows'[s] = rows[s] /\ total'[s] = total[s]
              /\ steady'[s] = steady[s]
<1>1. CASE Request(t) \/ Acquire(t) \/ Stat(t)
  BY <1>1 DEF TypeOK, Request, Acquire, Stat, Goto, Release, disk, page
<1>2. CASE Exists(t) \/ ReadPrefix(t) \/ ReadBody(t) \/ Settle(t)
  BY <1>2 DEF TypeOK, Exists, ReadPrefix, ReadBody, Settle, Fail, Goto, Release, disk, page
<1>3. CASE ReadWarning(t) \/ ReadRows(t) \/ ReadTotal(t) \/ Respond(t)
  BY <1>3 DEF TypeOK, ReadWarning, ReadRows, ReadTotal, Respond, Goto, disk
<1> QED
  BY <1>1, <1>2, <1>3 DEF Handle

(* What the steps of a thread do to its position and to the lock.          *)
LEMMA Moves ==
  ASSUME TypeOK, NEW t \in Threads, Request(t) \/ Handle(t)
  PROVE  \/ /\ at[t] \in {"idle", "dropped"} \union Rendering
            /\ at'[t] \in {"lock", "idle"} \union Rendering /\ lock' = lock
         \/ at[t] = "lock" /\ lock = None /\ at'[t] = "stat" /\ lock' = t
         \/ /\ at[t] \in Loading \union {"stat"}
            /\ at'[t] \in Loading /\ lock' = lock
         \/ /\ at[t] \in Loading \union {"stat"}
            /\ at'[t] \in {"warn", "dropped"} /\ lock' = None
<1>1. CASE Request(t) \/ Acquire(t) \/ Stat(t)
  BY <1>1 DEF TypeOK, Request, Acquire, Stat, Goto, Release, Loading, Rendering
<1>2. CASE Exists(t) \/ ReadPrefix(t) \/ ReadBody(t) \/ Settle(t)
  BY <1>2 DEF TypeOK, Exists, ReadPrefix, ReadBody, Settle, Fail, Goto, Release, snapshot,
              Loading, Rendering
<1>3. CASE ReadWarning(t) \/ ReadRows(t) \/ ReadTotal(t) \/ Respond(t)
  BY <1>3 DEF TypeOK, ReadWarning, ReadRows, ReadTotal, Respond, Goto, Loading, Rendering
<1> QED
  BY <1>1, <1>2, <1>3 DEF Handle

LEMMA ExclusiveStays ==
  ASSUME TypeOK, Exclusive, NEW t \in Threads, Request(t) \/ Handle(t)
  PROVE  Exclusive'
<1>1. \A s \in Threads \ {t} : at'[s] = at[s]
  BY OthersStay
<1>2. \A s \in Threads : s # None
  OBVIOUS
<1> QED
  BY <1>1, <1>2, Moves DEF Exclusive, Loading, Rendering

-----------------------------------------------------------------------------
(* A change of the file: what was recorded or looked at is of the past, so *)
(* that a file of an mtime never seen is neither.                          *)
LEMMA ChangeKeepsInvariant ==
  ASSUME WebInv, TypeOK', Change
  PROVE  WebInv'
<1>1. /\ UNCHANGED <<serving, catalog, modified, reload_error, lock, at, seen, prefix,
                    warning, rows, total>>
      /\ past' = past \union {Mtime(file)}
      /\ early' = ~serving
      /\ \A t \in Threads : ~steady'[t]
  BY DEF Change, snapshot, page
<1>2. serving => modified \in past'
  BY <1>1 DEF WebInv, KnownTime
<1>3. Noticeable' => modified' # Mtime(file)'
  BY <1>1, <1>2 DEF Noticeable, FirstOfItsTime
<1>4. Exclusive' /\ Starting' /\ KnownTime'
  BY <1>1, <1>2 DEF WebInv, Exclusive, Starting, KnownTime
<1>5. RecordedIsDisplayed' /\ LaterLoads'
  BY <1>1, <1>3 DEF RecordedIsDisplayed, LaterLoads
<1>6. ASSUME NEW t \in Threads PROVE Loads(t)' /\ Renders(t)'
  <2>1. at[t] \in Loading => seen[t] \in past'
    BY <1>1 DEF WebInv, Loads, Undisturbed
  <2> QED
    BY <1>1, <1>3, <2>1 DEF Loads, Renders
<1> QED
  BY <1>4, <1>5, <1>6 DEF WebInv

(* The server looks at the file that it has loaded.                        *)
LEMMA StartKeepsInvariant ==
  ASSUME WebInv, TypeOK', Start
  PROVE  WebInv'
<1>1. /\ ~serving /\ serving' /\ modified' = Mtime(file) /\ \A t \in Threads : at[t] = "idle"
      /\ UNCHANGED <<file, past, early, catalog, reload_error, lock, at, seen, prefix, steady>>
      /\ Noticeable => catalog = Shown(file)
      /\ catalog \in Bodies
  BY DEF WebInv, Starting, Start, Noticeable, disk, TypeOK
<1>2. /\ Mtime(file)' = Mtime(file) /\ Shown(file)' = Shown(file)
      /\ Noticeable' = Noticeable
  BY <1>1 DEF Mtime, Shown, Load, Noticeable, FirstOfItsTime
<1>3. catalog \notin Raised
  BY <1>1 DEF Bodies
<1>4. Exclusive' /\ Starting' /\ KnownTime' /\ RecordedIsDisplayed'
  BY <1>1, <1>2, <1>3 DEF WebInv, Exclusive, Starting, KnownTime, RecordedIsDisplayed, Displayed
<1>5. LaterLoads' /\ \A t \in Threads : Loads(t)' /\ Renders(t)'
  BY <1>1 DEF LaterLoads, Loads, Renders, Loading, Rendering
<1> QED
  BY <1>4, <1>5 DEF WebInv

-----------------------------------------------------------------------------
(* A step of a thread that touches neither the snapshot nor the file.      *)
LEMMA PageStepsKeepInvariant ==
  ASSUME WebInv, TypeOK', NEW t \in Threads,
         \/ Request(t) \/ Acquire(t)
         \/ ReadWarning(t) \/ ReadRows(t) \/ ReadTotal(t) \/ Respond(t)
  PROVE  WebInv'
<1>1. /\ UNCHANGED <<file, past, early, serving, catalog, modified, reload_error>>
      /\ serving /\ at'[t] \notin Loading
  BY DEF WebInv, TypeOK, Starting, Request, Acquire, ReadWarning, ReadRows, ReadTotal, Respond,
         Goto, disk, snapshot, Loading
<1>2. \A s \in Threads \ {t} :
        /\ at'[s] = at[s] /\ seen'[s] = seen[s] /\ prefix'[s] = prefix[s]
        /\ warning'[s] = warning[s] /\ rows'[s] = rows[s] /\ total'[s] = total[s]
        /\ steady'[s] = steady[s]
  BY OthersStay DEF WebInv, Handle
<1>3. Mtime(file)' = Mtime(file) /\ Shown(file)' = Shown(file) /\ Noticeable' = Noticeable
  BY <1>1 DEF Mtime, Shown, Load, Noticeable, FirstOfItsTime
<1>4. Exclusive'
  BY ExclusiveStays DEF WebInv, Handle
<1>5. Starting' /\ KnownTime' /\ RecordedIsDisplayed'
  BY <1>1, <1>3 DEF WebInv, Starting, KnownTime, RecordedIsDisplayed, Displayed
<1>6. at'[t] \in Rendering => at[t] \in Rendering /\ steady'[t] = steady[t]
  BY DEF WebInv, TypeOK, Request, Acquire, ReadWarning, ReadRows, ReadTotal, Respond, Goto,
         Rendering
<1>7. LaterLoads'
  BY <1>1, <1>2, <1>6 DEF WebInv, LaterLoads
<1>8. \A s \in Threads : Loads(s)'
  BY <1>1, <1>2, <1>3 DEF WebInv, Loads, Undisturbed, Displayed
<1>9. \A s \in Threads \ {t} : Renders(s)'
  BY <1>1, <1>2, <1>3 DEF WebInv, Renders, AdmitsStale, ShowsCurrent
<1>10. Renders(t)'
  <2>1. SUFFICES ASSUME at'[t] \in Rendering, steady'[t], Noticeable
                 PROVE  IF Shown(file) \in Raised THEN AdmitsStale(t)' ELSE ShowsCurrent(t)'
    BY <1>3 DEF Renders
  <2>2. IF Shown(file) \in Raised THEN AdmitsStale(t) ELSE ShowsCurrent(t) /\ Displayed
    BY <1>1, <1>6, <2>1 DEF WebInv, Renders, RecordedIsDisplayed, ShowsCurrent
  <2>3. CASE ReadWarning(t)
    BY <1>1, <1>3, <2>2, <2>3 DEF WebInv, TypeOK, ReadWarning, Goto, AdmitsStale, ShowsCurrent
  <2>4. CASE ReadRows(t)
    BY <1>1, <1>3, <2>2, <2>4 DEF WebInv, TypeOK, ReadRows, Goto, AdmitsStale, ShowsCurrent,
                                  Displayed
  <2>5. CASE ReadTotal(t)
    BY <1>1, <1>3, <2>2, <2>5 DEF WebInv, TypeOK, ReadTotal, Goto, AdmitsStale, ShowsCurrent,
                                  Displayed
  <2>6. CASE Request(t) \/ Acquire(t) \/ Respond(t)
    BY <2>1, <2>6 DEF WebInv, TypeOK, Request, Acquire, Respond, Goto, Rendering
  <2> QED
    BY <2>3, <2>4, <2>5, <2>6
<1> QED
  BY <1>4, <1>5, <1>7, <1>8, <1>9, <1>10 DEF WebInv

-----------------------------------------------------------------------------
(* A thread that loads is alone, and what it will do to a file that did    *)
(* not change since it looked.                                             *)
LEMMA LoaderIsAlone ==
  ASSUME WebInv, NEW t \in Threads, at[t] \in Loading \union {"stat"}
  PROVE  lock = t /\ serving /\ \A s \in Threads \ {t} : at[s] \notin Loading \union {"stat"}
BY DEF WebInv, Exclusive, Starting, Loading

(* The steps under the lock, as far as others can tell: the snapshot moves *)
(* towards the file or stays.                                              *)
LEMMA LoadSteps ==
  ASSUME WebInv, NEW t \in Threads,
         Stat(t) \/ Exists(t) \/ ReadPrefix(t) \/ ReadBody(t) \/ Settle(t)
  PROVE  /\ UNCHANGED <<file, past, early, serving>> /\ serving
         /\ at[t] \in Loading \union {"stat"}
         /\ \A s \in Threads \ {t} :
              /\ at'[s] = at[s] /\ seen'[s] = seen[s] /\ prefix'[s] = prefix[s]
              /\ warning'[s] = warning[s] /\ rows'[s] = rows[s] /\ total'[s] = total[s]
              /\ steady'[s] = steady[s]
         /\ Mtime(file)' = Mtime(file) /\ Shown(file)' = Shown(file)
         /\ Noticeable' = Noticeable
<1>1. /\ UNCHANGED <<file, past, early, serving>>
      /\ \A s \in Threads \ {t} :
           /\ at'[s] = at[s] /\ seen'[s] = seen[s] /\ prefix'[s] = prefix[s]
           /\ warning'[s] = warning[s] /\ rows'[s] = rows[s] /\ total'[s] = total[s]
           /\ steady'[s] = steady[s]
  BY OthersStay DEF WebInv, Handle
<1>2. at[t] \in Loading \union {"stat"}
  BY DEF Stat, Exists, ReadPrefix, ReadBody, Settle, Loading
<1>3. serving
  BY <1>2, LoaderIsAlone
<1> QED
  BY <1>1, <1>2, <1>3 DEF Mtime, Shown, Load, Noticeable, FirstOfItsTime

(* What each of them does: a load goes on, succeeds, or fails.             *)
LEMMA StatStep ==
  ASSUME WebInv, NEW t \in Threads, Stat(t)
  PROVE  /\ UNCHANGED <<catalog, modified, reload_error>>
         /\ steady'[t] /\ seen'[t] = Mtime(file)
         /\ \/ at'[t] = "exists" /\ modified # Mtime(file)
            \/ at'[t] = "warn" /\ modified = Mtime(file)
BY DEF WebInv, TypeOK, Stat, Goto, Release, snapshot

LEMMA LoadStep ==
  ASSUME WebInv, NEW t \in Threads,
         Exists(t) \/ ReadPrefix(t) \/ ReadBody(t) \/ Settle(t)
  PROVE  /\ at[t] \in Loading /\ steady'[t] = steady[t] /\ seen'[t] = seen[t]
         /\ \/ /\ at'[t] \in {"prefix", "body", "settle"} /\ modified' = modified
               /\ reload_error' = reload_error
            \/ /\ at'[t] = "warn" /\ modified' = modified /\ catalog' = catalog /\ reload_error'
            \/ /\ at'[t] = "dropped" /\ UNCHANGED <<catalog, modified, reload_error>>
            \/ /\ Settle(t) /\ at'[t] = "warn" /\ modified' = seen[t] /\ catalog' = catalog
<1>1. CASE Exists(t)
  BY <1>1 DEF WebInv, TypeOK, Exists, Goto, Loading
<1>2. CASE ReadPrefix(t)
  BY <1>2 DEF WebInv, TypeOK, ReadPrefix, Fail, Release, Goto, snapshot, Loading
<1>3. CASE ReadBody(t)
  BY <1>3 DEF WebInv, TypeOK, ReadBody, Fail, Release, Goto, Loading
<1>4. CASE Settle(t)
  BY <1>4 DEF WebInv, TypeOK, Settle, Release, Goto, Loading
<1> QED
  BY <1>1, <1>2, <1>3, <1>4

(* A load that nothing disturbed goes where the file sends it.             *)
LEMMA UndisturbedStep ==
  ASSUME WebInv, NEW t \in Threads, steady[t],
         Exists(t) \/ ReadPrefix(t) \/ ReadBody(t) \/ Settle(t)
  PROVE  /\ at'[t] \in {"prefix", "body"} => file # None /\ catalog' = catalog
         /\ at'[t] = "body" => prefix'[t] = file.format
         /\ at'[t] = "settle" => catalog' = Shown(file) /\ Shown(file) \notin Raised
         /\ at'[t] = "warn" /\ ~Settle(t) => Shown(file) \in Raised
         /\ Settle(t) => Displayed
<1>1. at[t] \in Loading => Undisturbed(t)
  BY DEF WebInv, Loads
<1>2. CASE Exists(t)
  BY <1>2 DEF WebInv, TypeOK, Exists, Goto, Settle, Shown
<1>3. CASE ReadPrefix(t)
  <2>1. file # None
    BY <1>1, <1>3 DEF ReadPrefix, Undisturbed, Loading
  <2> QED
    BY <1>3, <2>1 DEF WebInv, TypeOK, ReadPrefix, Goto, Settle, snapshot
<1>4. CASE ReadBody(t)
  <2>1. Load(prefix[t], file) = Shown(file)
    BY <1>1, <1>4 DEF ReadBody, Undisturbed, Loading, Shown
  <2> QED
    BY <1>4, <2>1 DEF WebInv, TypeOK, ReadBody, Fail, Release, Goto, Settle
<1>5. CASE Settle(t)
  BY <1>1, <1>5 DEF WebInv, TypeOK, Settle, Release, Goto, Undisturbed, Loading
<1> QED
  BY <1>2, <1>3, <1>4, <1>5

(* A page that is steady stands while another thread loads.                *)
LEMMA LoadSparesPages ==
  ASSUME WebInv, NEW t \in Threads,
         Stat(t) \/ Exists(t) \/ ReadPrefix(t) \/ ReadBody(t) \/ Settle(t),
         NEW s \in Threads \ {t}
  PROVE  Renders(s)'
<1>1. /\ at'[s] = at[s] /\ warning'[s] = warning[s] /\ rows'[s] = rows[s] /\ total'[s] = total[s]
      /\ steady'[s] = steady[s]
      /\ Mtime(file)' = Mtime(file) /\ Shown(file)' = Shown(file)
      /\ Noticeable' = Noticeable
  BY LoadSteps
<1>2. CASE Stat(t)
  <2>1. UNCHANGED <<catalog, modified, reload_error>>
    BY <1>2, StatStep
  <2>2. ShowsCurrent(s)' <=> ShowsCurrent(s)
    BY <1>1, <2>1 DEF ShowsCurrent
  <2>3. AdmitsStale(s) => AdmitsStale(s)'
    BY <1>1, <2>1 DEF AdmitsStale
  <2> QED
    BY <1>1, <2>2, <2>3 DEF WebInv, Renders
<1>3. CASE ~Stat(t)
  <2>1. SUFFICES ASSUME at[s] \in Rendering, steady[s], Noticeable
                 PROVE  IF Shown(file) \in Raised THEN AdmitsStale(s)' ELSE ShowsCurrent(s)'
    BY <1>1 DEF Renders
  <2>2. Exists(t) \/ ReadPrefix(t) \/ ReadBody(t) \/ Settle(t)
    BY <1>3
  <2>3. at[t] \in Loading /\ steady[t] /\ modified # Mtime(file)
    BY <2>1, <2>2, LoadStep DEF WebInv, LaterLoads, Loads
  <2>4. Shown(file) \in Raised /\ AdmitsStale(s)
    BY <2>1, <2>3 DEF WebInv, Renders, ShowsCurrent
  <2>5. catalog' = catalog /\ (reload_error => reload_error')
    BY <2>2, <2>3, <2>4, LoadStep, UndisturbedStep DEF Displayed
  <2>6. AdmitsStale(s)'
    BY <1>1, <2>4, <2>5 DEF AdmitsStale
  <2> QED
    BY <2>4, <2>6
<1> QED
  BY <1>2, <1>3

(* Looking at the file and loading it keeps the invariant.                 *)
LEMMA LoadStepsKeepInvariant ==
  ASSUME WebInv, TypeOK', NEW t \in Threads,
         Stat(t) \/ Exists(t) \/ ReadPrefix(t) \/ ReadBody(t) \/ Settle(t)
  PROVE  WebInv'
<1>1. /\ UNCHANGED <<file, past, early, serving>> /\ serving
      /\ at[t] \in Loading \union {"stat"}
      /\ \A s \in Threads \ {t} : at'[s] = at[s] /\ steady'[s] = steady[s]
      /\ Mtime(file)' = Mtime(file) /\ Shown(file)' = Shown(file)
      /\ Noticeable' = Noticeable
  BY LoadSteps
<1>2. \A s \in Threads \ {t} : at[s] \notin Loading
  BY <1>1, LoaderIsAlone
<1>3. at[t] \in Loading => IF steady[t] THEN Undisturbed(t) ELSE seen[t] \in past
  BY DEF WebInv, Loads
<1>4. at[t] \in Loading /\ Noticeable => modified # Mtime(file)
  BY DEF WebInv, Loads
<1>5. Exclusive' /\ Starting'
  BY <1>1, ExclusiveStays DEF WebInv, Handle, Starting
<1>6. KnownTime'
  <2>1. modified' = modified \/ (at[t] \in Loading /\ modified' = seen[t])
    BY StatStep, LoadStep
  <2> QED
    BY <1>1, <1>3, <2>1 DEF WebInv, KnownTime, Undisturbed
<1>7. RecordedIsDisplayed'
  <2>1. CASE Stat(t)
    BY <1>1, <2>1, StatStep DEF WebInv, RecordedIsDisplayed, Displayed
  <2>2. CASE Settle(t)
    <3>1. modified' = seen[t] /\ catalog' = catalog /\ at[t] \in Loading
      BY <2>2 DEF WebInv, TypeOK, Settle, Loading
    <3>2. steady[t] => Displayed
      BY <2>2, UndisturbedStep
    <3> QED
      BY <1>1, <1>3, <3>1, <3>2 DEF RecordedIsDisplayed, Displayed, Noticeable, FirstOfItsTime
  <2>3. CASE ~Stat(t) /\ ~Settle(t)
    <3>1. modified' = modified /\ at[t] \in Loading
      BY <2>3, LoadStep
    <3> QED
      BY <1>1, <1>4, <3>1 DEF RecordedIsDisplayed
  <2> QED
    BY <2>1, <2>2, <2>3
<1>8. LaterLoads'
  <2>1. ASSUME NEW s \in Threads, s # t, at'[s] \in Rendering, steady'[s], at'[t] \in Loading
        PROVE  steady'[t]
    <3>1. CASE Stat(t)
      BY <3>1, StatStep
    <3>2. CASE ~Stat(t)
      BY <1>1, <2>1, <3>2, LoadStep DEF WebInv, LaterLoads
    <3> QED
      BY <3>1, <3>2
  <2>2. at'[t] \in Rendering => at'[t] \notin Loading
    BY DEF Rendering, Loading
  <2> QED
    BY <1>1, <1>2, <2>1, <2>2 DEF LaterLoads
<1>9. Loads(t)'
  <2>1. SUFFICES ASSUME at'[t] \in Loading
                 PROVE  /\ IF steady'[t] THEN Undisturbed(t)' ELSE seen'[t] \in past'
                        /\ Noticeable => modified' # Mtime(file)
    BY <1>1 DEF Loads
  <2>2. CASE Stat(t)
    BY <1>1, <2>1, <2>2, StatStep DEF Undisturbed, Loading
  <2>3. CASE ~Stat(t)
    <3>1. /\ at[t] \in Loading /\ steady'[t] = steady[t] /\ seen'[t] = seen[t]
          /\ at'[t] \in {"prefix", "body", "settle"} /\ modified' = modified
      BY <2>1, <2>3, LoadStep DEF Loading
    <3>2. ~steady[t] => seen'[t] \in past'
      BY <1>1, <1>3, <3>1
    <3>3. steady[t] => Undisturbed(t)'
      BY <1>1, <1>3, <2>3, <3>1, UndisturbedStep DEF Undisturbed, Displayed
    <3> QED
      BY <1>1, <1>4, <3>1, <3>2, <3>3
  <2> QED
    BY <2>2, <2>3
<1>10. \A s \in Threads \ {t} : Loads(s)' /\ Renders(s)'
  BY <1>1, <1>2, LoadSparesPages DEF Loads
<1>11. Renders(t)'
  <2>1. SUFFICES ASSUME at'[t] \in Rendering, steady'[t], Noticeable
                 PROVE  IF Shown(file) \in Raised THEN AdmitsStale(t)' ELSE ShowsCurrent(t)'
    BY <1>1 DEF Renders
  <2>2. CASE Stat(t)
    <3>1. at'[t] = "warn" /\ modified' = modified /\ modified = Mtime(file)
      BY <2>1, <2>2, StatStep DEF Rendering
    <3>2. Shown(file) \notin Raised
      BY <1>1, <2>1, <3>1 DEF WebInv, RecordedIsDisplayed, Displayed
    <3> QED
      BY <1>1, <3>1, <3>2 DEF ShowsCurrent
  <2>3. CASE Settle(t)
    <3>1. at'[t] = "warn" /\ modified' = seen[t] /\ steady[t] /\ at[t] \in Loading
      BY <2>1, <2>3 DEF WebInv, TypeOK, Settle, Release, Goto, Loading
    <3>2. Shown(file) \notin Raised
      BY <2>3, <3>1, UndisturbedStep DEF Displayed
    <3> QED
      BY <1>1, <1>3, <3>1, <3>2 DEF ShowsCurrent, Undisturbed
  <2>4. CASE ~Stat(t) /\ ~Settle(t)
    <3>1. at'[t] = "warn" /\ reload_error' /\ steady[t]
      BY <2>1, <2>4, LoadStep DEF Rendering
    <3>2. Shown(file) \in Raised
      BY <2>4, <3>1, UndisturbedStep
    <3> QED
      BY <3>1, <3>2 DEF AdmitsStale
  <2> QED
    BY <2>2, <2>3, <2>4
<1> QED
  BY <1>5, <1>6, <1>7, <1>8, <1>9, <1>10, <1>11 DEF WebInv

-----------------------------------------------------------------------------
LEMMA InitInvariant == Init => WebInv
<1> SUFFICES ASSUME Init PROVE WebInv
  OBVIOUS
<1>1. Shown(file) \in Bodies
  BY DEF Init, Shown, Load, Version, Bodies
<1>2. TypeOK
  <2>1. /\ file \in Version \union {None} /\ aside \in Version \union {None}
        /\ changes \in 0 .. MaxChanges /\ past \subseteq 0 .. MaxChanges \union {None}
        /\ catalog \in Bodies /\ modified \in 0 .. MaxChanges \union {None}
        /\ lock \in Threads \union {None}
    BY <1>1 DEF Init
  <2>2. early \in BOOLEAN /\ serving \in BOOLEAN /\ reload_error \in BOOLEAN
    BY Zenon DEF Init
  <2>3. warning \in [Threads -> BOOLEAN] /\ steady \in [Threads -> BOOLEAN]
    BY DEF Init
  <2>4. /\ at \in [Threads -> {"idle", "lock", "stat", "exists", "prefix", "body", "settle",
                               "warn", "rows", "total", "respond", "dropped"}]
        /\ seen \in [Threads -> 0 .. MaxChanges \union {None}]
        /\ prefix \in [Threads -> {"json", "native", None}]
        /\ rows \in [Threads -> Bodies \union {None}]
        /\ total \in [Threads -> Bodies \union {None}]
    BY DEF Init
  <2> QED
    BY <2>1, <2>2, <2>3, <2>4, Zenon DEF TypeOK
<1>3. Exclusive /\ Starting /\ KnownTime /\ RecordedIsDisplayed
  BY DEF Init, Exclusive, Starting, KnownTime, RecordedIsDisplayed, Loading
<1>4. LaterLoads /\ \A t \in Threads : Loads(t) /\ Renders(t)
  BY DEF Init, LaterLoads, Loads, Renders, Loading, Rendering
<1> QED
  BY <1>2, <1>3, <1>4 DEF WebInv

LEMMA StutterKeepsInvariant == ASSUME WebInv, UNCHANGED vars PROVE WebInv'
<1>1. UNCHANGED <<file, past, early, serving, catalog, modified, reload_error, lock, at, seen, prefix,
                  warning, rows, total, steady>>
  BY DEF vars
<1>2. Mtime(file)' = Mtime(file) /\ Shown(file)' = Shown(file) /\ Noticeable' = Noticeable
  BY <1>1 DEF Mtime, Shown, Load, Noticeable, FirstOfItsTime
<1>3. TypeOK'
  BY TypeStays DEF WebInv
<1>4. Exclusive' /\ Starting' /\ KnownTime' /\ RecordedIsDisplayed' /\ LaterLoads'
  BY <1>1, <1>2 DEF WebInv, Exclusive, Starting, KnownTime, RecordedIsDisplayed, Displayed,
                    LaterLoads
<1>5. \A t \in Threads : Loads(t)' /\ Renders(t)'
  BY <1>1, <1>2 DEF WebInv, Loads, Undisturbed, Displayed, Renders, AdmitsStale, ShowsCurrent
<1> QED
  BY <1>3, <1>4, <1>5 DEF WebInv

(* However requests, loads and changes of the file interleave, and whether *)
(* the file changes before the server listens or after.                    *)
THEOREM WebInvariant == Spec => []WebInv
<1>1. Init => WebInv
  BY InitInvariant
<1>2. WebInv /\ [Next]_vars => WebInv'
  <2> SUFFICES ASSUME WebInv, [Next]_vars PROVE WebInv'
    OBVIOUS
  <2>1. TypeOK'
    BY TypeStays DEF WebInv
  <2>2. CASE Start
    BY <2>1, <2>2, StartKeepsInvariant
  <2>3. ASSUME NEW t \in Threads, Request(t) \/ Handle(t) PROVE WebInv'
    BY <2>1, <2>3, PageStepsKeepInvariant, LoadStepsKeepInvariant DEF Handle
  <2>4. CASE RenameAway \/ RenameBack \/ \E v \in Version : ReplaceFile(v)
    BY <2>1, <2>4, ChangeKeepsInvariant DEF RenameAway, RenameBack, ReplaceFile
  <2>5. CASE UNCHANGED vars
    BY <2>5, StutterKeepsInvariant
  <2> QED
    BY <2>2, <2>3, <2>4, <2>5 DEF Next
<1> QED
  BY <1>1, <1>2, PTL DEF Spec

(* The server's state stays well formed: what is displayed is a catalog,   *)
(* never the result of a load that raised.                                 *)
THEOREM WebTypeCorrect == Spec => []TypeOK
<1>1. WebInv => TypeOK
  BY DEF WebInv
<1> QED
  BY <1>1, WebInvariant, PTL

(* docs/web.md:34-35: for any number of handler threads, a file whose mtime *)
(* is the recorded one is the file that is displayed, unless it came        *)
(* between the load and the stat of the server's start.                     *)
THEOREM UnchangedIsCurrent == Spec => []UnchangedMeansCurrent
<1>1. WebInv => UnchangedMeansCurrent
  BY DEF WebInv, RecordedIsDisplayed, Displayed, UnchangedMeansCurrent
<1> QED
  BY <1>1, WebInvariant, PTL

(* docs/web.md:35-37: for any number of handler threads, a page that no    *)
(* change of the file overtook shows the file, or says that it does not,   *)
(* unless the file came while the server started.                          *)
THEOREM StalePagesAdmitIt == Spec => []StaleIsAdmitted
<1>1. WebInv => StaleIsAdmitted
  BY DEF WebInv, Renders, Rendering, AdmitsStale, ShowsCurrent, StaleIsAdmitted, Honest
<1> QED
  BY <1>1, WebInvariant, PTL

=============================================================================
