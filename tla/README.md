# AMC Python in TLA+

AMC Python (`src/src/amc`) is a movie catalog: a desktop GUI, a command line and
a read-only web server over one application service, which keeps a catalog in a
JSON file and exchanges it with CSV, XML, HTML and the native format of Ant
Movie Catalog. The tree also holds the one piece of the upstream program written in C:
the JPEG library (release 6b, `src/src/original/DelphiFix/src`) behind the pictures of a catalog.
This project models the parts of both in which state, files, processes, threads,
suspended calls and limits meet, checks them with TLC and proves their main
properties with TLAPS.

## The system

| Component | State it keeps | Operations | What is hard about it | What makes it correct |
|---|---|---|---|---|
| `application.py`, `CatalogService` | path, current catalog, undo and redo stacks of whole catalogs, history limit | open, reload, save, save_as, every mutation through `_persist`, undo, redo, backup, restore, conversion, export | calls that fail before or after the file was replaced; long sequences; other processes on the same files | what is displayed was saved; the display is the file; one undo timeline |
| `storage.py` | none; the files | `load` dispatches on header and suffix, savers, `copy_catalog` | the format of a file and its name are independent; `load` opens the file twice | a reader gets a whole catalog or an exception |
| atomic writers: `storage.py`, `native.py`, `preferences.py`, `scripts.py`, `loans.py` | temporary file, destination, `.bak` | write, flush, fsync, rename, fsync of the directory, cleanup | exceptions, kills and crashes between any two steps; concurrent writers | never a partial document; what was acknowledged survives |
| `web.py` | shared service, recorded mtime, reload error, lock | one thread per request: stat, reload, render | the file changes between stat and load; rendering without the lock; failed reloads | a stale page says so; a valid file is eventually displayed |
| `catalog.py` | the list of movies | add, replace, remove, merge, renumber, sort | files repeat or lack numbers; every clone, save and load renumbers | a number identifies a movie; a clone is exact |
| `loans.py` and the loan calls of `application.py` | the borrower of each movie, loan history, list of borrowers | check-out and check-in of groups, add and remove borrower; merging of the two lists | batches that fail half-way; names that files spell differently; edits, merges and renumbering, which change who has a number without an event | the history accounts for every loan that the loan calls make |
| JPEG decompressor: `jdapi*.c`, `jdinput.c`, `jdmarker.c`, `jdmaster.c`, `jdhuff.c`, `jdphuff.c`, `jdcoefct.c`, `jdtrans.c` | a state machine per object, tables, saved markers, coefficient arrays, positions of input and output | read_header, start, read_scanlines, buffered-image passes, read_coefficients, finish, abort | every call may run out of data and be made again; progressive refinement in place; damaged restart markers; reuse after an abort | the image that was encoded, whatever the suspensions; no call without end |
| JPEG compressor: `jcapi*.c`, `jcmaster.c`, `jcmarker.c`, `jchuff.c`, `jcphuff.c`, `jccoefct.c`, `jctrans.c` | a state machine per object, pass and scan, tables sent or not, bit buffer, EOB runs | start, write_scanlines, write_raw_data, write_coefficients, write_tables, finish, abort | a full buffer in the middle of an MCU; statistics passes that must agree with output passes; tables left out as sent | a decoder finds the image in the stream |
| JPEG memory: `jmemmgr.c` | pools with slop, arrays, windows of virtual arrays over backing store | alloc_small, alloc_large, realize, access, free_pool | memory or backing store failing anywhere; dirty and undefined rows of a window (which moves only with another system module than this build's) | pools stay sound; virtual arrays are arrays |
| JPEG rows: `jcprepct.c`, `jcsample.c`, `jcmainct.c`, `jdmainct.c`, `jdsample.c`, `jdmerge.c`, `jdpostct.c` | circular buffers of rows, lists of pointers into them | rows in and out, any number per call | context rows at iMCU boundaries and image edges; suspension; two passes | every row is made of the right rows |
| JPEG transformation: `transupp.c` | none; coefficient arrays | flips, transposition, rotations, trim, grayscale | partial iMCUs, signs, quantization tables | lossless: undone by the inverse, exact in pixels |
| `model.py`, `presentation.py`, `native.py`, `cli.py`, `gui.py`, `preferences.py`, `scripts.py`, `html_template.py`, `media.py`, `inspection.py`, `omdb.py` | none, one settings file, or a window | see "What is not modelled" | | |

The adapters (GUI, command line, web) call the service directly. Processes meet only through files: a
second service, a CLI command or the user changes what the first has loaded, and
the web server polls for it. Within the web server the handler threads share one
service and one lock. A JPEG object is used by one thread; its concurrency is that of
suspension: data source and destination run out in the middle of a call, the
call undoes what it must and returns, and the application makes it again.

## The modules

Python:

* `CatalogFiles`: files, paths, the dispatch of `load`, the validation of
  `copy_catalog`. A file is a format and a catalog, a path is a suffix.
* `CatalogService`: the service over those files. One action is one call; a
  mutation is any candidate catalog (`Persist`), since `_persist` treats it as
  a function on an isolated clone. Each save has a result: it succeeds, raises
  with the destination untouched, or raises after the destination was replaced.
  `OtherSaves`, `RestoreTo`, `ConvertTo`, `Delete` and `Restart` are the other
  processes, the CLI and the user. The history variables are `persisted` (every catalog
  this service read or wrote) and `disturbed` (something other than a
  successful call touched the file last).
* `UndoableDocument`: the abstract specification of the service's history: one
  timeline of values, a cursor and a capacity. `CatalogService!BehavesAsDocument`
  instantiates it with `undo`, `catalog` and the reverse of `redo` put end to end.
* `AtomicFile`: the protocol inside each save, system call by system call, over
  a file system with a page cache: directory entries and bytes that a crash may
  lose until they are fsynced and may reach the disk earlier. `CatalogService`'s `Results` and `Install`
  summarise it: `Raise` before `Replace` leaves the destination untouched, `Raise` at "sync" does not.
* `CatalogWebState`: the web server; every step of a request at which another
  thread or a change of the file can come in is an action, from the server's start on: it loads the file
  and then reads its mtime. The history variable `early` says that the file last changed before
  the server listened; `Noticeable` that stat can tell the file from its predecessors and that it is not such a one.
* `CatalogNumbering`: the movies of a catalog as (number, work) and everything
  that assigns a number. The loops of `Catalog` are folds over the list.
* `Loans`: loans, history and borrowers, a composition with `CatalogNumbering`: the movies and their numbers
  are the variables of that module, its calls (open, add, replace, remove, merge, renumber, sort) are actions of this one too, with what
  they do to the two lists in the metadata (`MergeFile` has the four metadata policies). The loops over a group are
  folds. Of all calls only loans write events: `amc edit --set borrower=...`, a form, a merge that
  replaces a movie and renumbering change who has a number without one. The history variable `since` notes, for each number,
  who had its movie when another call last changed that, and how long the history was: that is where the ledger starts.
* `Lists`: the loops over lists that modules share: `Kept`, the list comprehension that filters a list, which
  both use, and `Total`, the sum.

JPEG library. In the module of a component there is one operator per C function; it takes the object
and returns it changed, and `c.st` is how the function returned: TRUE, suspended, or ERREXIT.

* `JpegMarkerReader`: data source and marker reader, down to the words of a
  segment. `JpegScanDecoder` extends it with the entropy decoders, the
  coefficient controller and the input controller; `JpegDecompressor` with the
  API, the master control and an application in any legal order of calls. A
  call is a sequence of steps, one turn of its loop each, so that a loop
  that does not end is a behaviour (`CallReturns`).
* `JpegMarkerWriter`, `JpegScanEncoder`, `JpegCompressor`: destination and
  marker writer, entropy encoders and coefficient controller, API and pass
  control, in the same way. `JpegStream` is the reference they are checked
  against: a reader written from the coding rules, with none of the encoder's state.
* `VirtualArrays`: the windows, dirty flags and undefined rows of one or more
  virtual arrays over backing store. `PlainArrays` is the abstract
  specification: arrays. `JpegMemory` extends `VirtualArrays` with pools,
  slop, chunked 2-D arrays and a malloc that fails.
* `JpegInputRows`, `JpegOutputRows`, `JpegRows`: rows are labels that travel through the
  buffers of preprocessor, main controller, upsampler and postprocessor; `JpegRows` drives
  them with calls of every size and with suspension. In the properties a row must
  be made of the labels the definition of downsampling and upsampling asks for.
* `JpegTransform`: the transformations as functions on arrays of coefficient
  blocks, applied one after another by a `jpegtran`. The inverse DCT appears only in
  `PixelExact`: as a sum over waves (`Basis`) of which nothing is supposed but that each is symmetric or
  antisymmetric in the block.

`MC*` modules hold the constants for TLC; `CatalogStorageProofs` (of `CatalogService` and of `AtomicFile`),
`CatalogWebStateProofs`, `CatalogNumberingProofs`, `LoansProofs`, `JpegRowsProofs`,
`JpegDecompressorProofs` and `JpegWorkspaceProofs` (of `JpegMemory` and of `JpegTransform`) the proofs, and `LoopTheorems` the lemmas
about loops, lists and sums that those of `CatalogNumbering`, `Loans` and the JPEG modules rest on. Compositions:
`JpegDecompressor` and `JpegCompressor` are each the composition of the parts of one
object; `JpegMemory` of its pools and virtual arrays; `JpegTransform` takes
from decompressor and compressor what it needs (arrays, critical parameters).

In each module the operators under "A bug to be caught" or called a mutant are
plausible errors in the definition next to them. They belong to no
specification: `PROJECT.json` pairs each with a property that rejects it.

## What is checked

| Run | Instance | Shows |
|---|---|---|
| `service_history` | one JSON path, 3 catalogs, limit 1 to 3 | `HistoryBounded`, `PublishedWasPersisted`, `BehavesAsDocument`: limits lowered and raised while undoing and redoing, failed saves and reloads keep one timeline |
| `service_files` | two JSON paths and a CSV path, 2 catalogs, limit 2 | `DisplayMatchesFile`, `HistoryIsWritable` under every file operation of this and other processes |
| `atomic_write` | 2 native writers, documents of 2 chunks | `TargetsComplete`, `AcknowledgedSurvives`, `NoDebris`, `ReplacedIsBackedUp` |
| `web` | 2 handler threads, 3 changes of the file | `UnchangedMeansCurrent`, `StaleIsAdmitted`, `EventuallyCurrent` |
| `web_corrupt` | 1 thread, 1 change to a corrupt file | a violation of `EveryReaderAnswered`, see below |
| `numbering` | catalogs and files of up to 3 movies, numbers to 5, files with numbers 0, 1 and 3 | `NumbersIdentify`, `CloneIsExact`, `MergeFollowsPolicy` |
| `loans` | 2 movies, 2 events, 2 managed names, 4 spellings (empty, `ann`, `ANN`, ` ann`), no file and a file with lists of its own | `LedgerBalanced`, `CheckOutMovesTheGroup`, `ManagedDistinct`, under loans and every other call |
| `jpeg_decompress` | 11 datastreams and one that follows, 2 components (vertical sampling 2 and 1), 3 by 2 blocks | `DecodedAsWritten`, `ShownRowIsReady`, `RestartResync`, `NoDanglingImageMemory`, `CallReturns` in every mode, with all data or 8 words at a time |
| `jpeg_compress` | 10 settings, 2 datastreams, 3 by 3 blocks of 2 components, buffers of 12 and 13 bytes | `StreamDecodes`, `NoUnexpectedError`, `ImageEnds` |
| `jpeg_memory` | 2 virtual arrays of 3 and 2 rows, 55 or 90 units of heap, all or 12 units granted | `PoolsSound`, and `PlainSpec`: virtual arrays refine plain ones |
| `jpeg_rows` | blocks of 4 rows, 11 images to compress and 25 to show, calls of up to 5 rows, 3 output passes | `PreparedRows`, `ShownRows` |
| `jpeg_transform` | 12 images of 1 to 3 components, 8 transformations with and without trimming and graying, two in a row | `Reversible`, `PixelExact` |

### Bounds, and why they are enough

Python. Three catalogs distinguish past, present and future; with a limit of 3
a stack can be trimmed while the other is not empty. Two writers and two chunks
are enough for one writer to meet a partial document of the other; the proofs
cover the rest of its invariants, for any number of writers and chunks. The web run needs two
threads for a page to be torn by another's reload and three changes for a
version to be renamed away, replaced and brought back. Three movies are one
collision, one free number and one that the renumbering moves into. Two movies and
two events: a group, a batch that fails on its second movie, a check-out and the
check-in after it, or after an edit, a merge or a renumbering. The file has a movie on loan to ` ann`, as no loan call would write
it, one that repeats its number, an event and a list: merged, it collides in numbers and in both lists.

JPEG. `jpeg_decompress`: three block rows with a sampling of 2 are a complete and a
partial iMCU row, dummy blocks included; the eleven streams are one component
with restart intervals, two interleaved, several scans with tables redefined
between them, progressive (DC with successive approximation, an end-of-band run,
a component without AC that is smoothed), an AC refinement scan with new
coefficients, correction bits and runs, restart markers lost, doubled and too
far ahead, a file cut off in a scan, tables only, and a frame of more components
than the library takes; one of them has segments with bogus lengths. `Window` = 8 words is less
than a segment with its neighbours and more than any single
indivisible one, so that a source suspends in every place where it may.
Two images per object: one that leaves something behind and one that meets it.
`jpeg_compress`: three by three blocks leave dummy blocks at the right and the bottom; `Band` = 4,
`MaxZeros` = 2, `MaxRun` = 3 and `MaxCorr` = 6 stand for 63, 15, 0x7FFF and 1000 and are all
reached; the settings cover sequential and progressive scripts, optimized
tables, shared tables, restart intervals given in MCUs and in rows, raw data, and two
scripts that must be refused. `jpeg_memory`: heaps that run out in the first pool, in the
middle of the arrays, or never. `jpeg_rows`: heights of one row, one row over and one short of a boundary.
`jpeg_transform`: widths and heights with no, one complete, and complete and partial iMCUs.

The bounds are the constants `MaxHistoryLimit`,
`Chunks`, `MaxChanges`, `MaxBatch`, `MaxMovies`, `MaxNumber`, `MaxEvents`,
`MaxManaged`, `Window`, `MaxImages`, `MaxStreams`, `MaxInUse`, `MaxObjects`, `MaxRows`, `MaxPasses` and `MaxSteps`.
Symmetry is used for the writers of `atomic_write` only.

Deadlock is checked except where the system may stop: the writers of
`AtomicFile` end, after the last change of the file nobody has to send the web
server another request, and a JPEG object is done with after its last image.

### Fairness

`CatalogWebState` assumes weak fairness of each handler thread: the
operating system schedules every runnable thread. A request is not fair, so
`EventuallyCurrent` is conditional on readers that keep coming. Strong fairness of the lock
is not assumed and not needed: whichever thread gets it does the reload.

In `JpegDecompressor` a call is a sequence of turns of its loops, and weak fairness of
`TakeTurn` says that a call in progress takes its next turn: the processor executes the
next statement. Nothing is assumed about the arrival of data nor about the calls an
application makes; a suspended call has returned. In `JpegCompressor`, whose calls
are single steps, `TakeTurn` is any step of an application that has
begun an image and not got an error: it writes the rows it still has, empties a full buffer, and asks for
the next pass. An application that gives an image up does so with `jpeg_abort_compress`,
which ends it as well. Every turn flips the variable `turn`, so that a loop which changes
nothing else still counts as one and does not hide as a stutter. All other modules have safety properties only.

### Where the code does something else than its documents say

`web_corrupt` is a run that TLC finds violated: docs/web.md:35-36 says that after a
change to an invalid file readers see the last valid snapshot and a warning; a
corrupt native file raises `CatalogError`, which web.py:42 does not
catch, and the reader gets no page. The following were found in the same way; they are not part of the runs.

| Document | Code | To see it |
|---|---|---|
| cli.md:66-67: the copied bytes are validated before the destination is replaced | they are validated under the suffix `.tmp` (storage.py:267), so JSON is installed over a `.xml` or `.csv` catalog, which then cannot be read | `CatalogService` with a JSON and an XML path and `RestoreTo` |
| architecture.md:18, gui.md:157-159: mutations are failure-atomic | when the directory cannot be fsynced after the rename (native.py:1022-1030), the call raises and the file is the new one | `Persist` with the result "raised after the replacement" |
| decisions.md:117-119: never a truncated file in the original path, every writer | three writers share one fixed temporary name each (preferences.py:138, scripts.py:332, loans.py:161) | `AtomicFile` with `UniqueNames = FALSE` violates `TargetsComplete` |
| web.md:34-35: a replaced catalog is noticed and reloaded before the next request | the server loads the catalog (web.py:31) and then reads its mtime (web.py:32): a replacement in between is taken for the loaded file, and shown to nobody until the file changes once more | the run `web` with the invariant `EveryReplacementNoticed`, one thread and one change are enough |
| cli.md:116: an active borrower cannot be removed | the movie's borrower is compared unstripped (loans.py:133) while `borrowers()` lists it stripped (loans.py:92): one whose name came with a blank from a file or an edit is removed | the run `loans` with the property `ActiveBorrowerStays` |
| jdpostct.c:218: "We have to check bottom of image here, can't depend on upsampler" | `max_rows` is what the image has left from the start of the strip, not from `next_row` (jdpostct.c:222-225): when the last strip is neither whole nor a single row a two-pass image can get a row too many | `JpegRows` with `Output(<<4, 1>>, <<1, 1>>, 7, 4, FALSE, FALSE, FALSE, {"2pass"})`, `MaxRows = 2` violates `ShownRows` |
| jdapimin.c:291: every possible DSTATE value should be listed | the switch of `jpeg_consume_input` has no DSTATE_RDCOEFS: it is an error during `jpeg_read_coefficients` | the guard of `ConsumeInput` |

The first two are why `DisplayMatchesFile` has its `~disturbed`.
Three more that no document rules out, and that the properties are stated around: a quantization
table whose segment is read in two parts and then given up stays half replaced
(jdmarker.c:489-544); an output pass of buffered-image mode that begins before its
scan may smooth over a coefficient that is exactly zero; and of two
misplaced restart markers within the window of
`jpeg_resync_to_restart` the decoder cannot tell lost data from early data.

## What is proved

All theorems hold for every value of the constants that satisfies the named
assumptions of the modules.

* `CatalogStorageProofs`, first part: `TypeCorrect`, `HistoryStaysBounded`,
  `HistoryStaysWritable`, `OnlyPersistedIsPublished`, `DisplayIsTheFile`. Each
  is inductive together with `TypeOK`, by one step per action of the service.
  The bound holds of the sum of the stacks although the limit moves: an edit
  trims one stack to a limit of at most `MaxHistoryLimit` and empties the other,
  and an undo or redo takes a catalog from one before it adds one to the other.
  `DisplayIsTheFile` rests on what `Load` makes of a JSON file under the
  suffix of a working path, and on `save_as` adopting its path last.
* `CatalogStorageProofs`, second part: `ServiceImplementsDocument`. Each call of the
  service maps to a step of `UndoableDocument` or to a stutter under the mapping
  above. The lemmas are about the timeline: trimming the past end of a stack is
  trimming the end of the timeline it lies at, and neither moves the other side.
* `CatalogStorageProofs`, third part: `WritersTypeCorrect` and `TargetsAlwaysComplete`, under
  `UniqueNames = TRUE` (what `uuid4` provides), for any set of writers and any
  document length. Completeness is not inductive: the invariant `AtomicInv`
  (`AtomicInvariant`) adds that a temporary name leads nowhere or to the inode
  its own writer made, in the cache and on the disk alike (`OwnNames`), that
  what a target leads to will never be written again and is complete and
  durable (`TargetsSafe`), and how far each stage of each writer has come
  (`MainProgress`, `BackupProgress`). A backup copies from an inode that was
  already safe when it was opened, which is why the copy is complete whatever
  replaces the destination meanwhile. Without the assumption the theorem is false.
* `CatalogStorageProofs`, fourth part: `AcknowledgedAlwaysSurvives` and `NoDebrisEver`, under
  the same assumption. `DurableInv` (`DurableInvariant`) adds to `AtomicInv` that what was
  ever installed stays as it was (`InstalledStay`) and, per writer, that its
  bytes are its document once it goes on to fsync (`DocumentWritten`), which of its names
  are gone at each of the last steps (`Clean`), and that from its directory sync on
  both the destination and what a crash would leave there lead to its document or
  a later one (`Acknowledging`). The directory sync is where the last two meet:
  it makes the replacement and the absence of the temporary name durable at once.
* `CatalogStorageProofs`, fifth part: `ReplacedAlwaysBackedUp`, under the same assumption. `BackupInv`
  (`BackupInvariant`) follows the copy of a native writer on its way to the disk: a writer that
  has reached the fsync of its copy has written what it read from the destination it found, its copy is
  safe from the rename on, and when the backup call has returned its directory entry
  is on the disk too unless another writer's backup has taken its place.
* `CatalogWebStateProofs`: `WebTypeCorrect`, `UnchangedIsCurrent` and
  `StalePagesAdmitIt`, for any number of handler threads,
  catalogs and changes of the file, also while the server starts: of a file that came then (`early`) the two properties say
  nothing, until the file changes again. `WebInv` (`WebInvariant`) says what a request in
  the middle of its steps relies on: only one thread loads at a time (`Exclusive`);
  a load that no change disturbed agrees with the file in all it has read, and one
  that was disturbed will record a time of the past (`Loads`); a load in progress beside
  a page that is still steady began after that page looked (`LaterLoads`), so it cannot
  tear the page; and each step of a page has collected the file or the warning (`Renders`).
* `LoopTheorems`: what the loops of `CatalogNumbering`, `Loans`, `JpegMemory`, `JpegRows` and `JpegDecompressor` and the sums of `JpegTransform` need. The folds of the
  community modules are defined over sets of positions with a `CHOOSE`; `FoldExists` shows that
  there is such a function, by well-founded induction on the natural numbers, and
  `FoldIsLoop` that a fold over `1 .. n` is a loop: a sequence of values, each made by the body from
  the one before. `LoopInduction` is the induction over it, with a set in place of
  a predicate. On these rest the facts about `Kept` (it embeds in the list in order,
  keeps exactly the members of the set, twice is the intersection) and about sums (`TotalOfAppend`, `TotalScaled`,
  and `TotalExchanged`: by rows or by columns).
* `CatalogNumberingProofs`: `TypeCorrect`, `NumbersAlwaysIdentify`, `CloneAlwaysExact`,
  `MergeAlwaysFollowsPolicy`, for any works, files and bounds. `IsCatalog` says that the numbers are positive
  and distinct; each loop keeps it after every turn, since a number is taken over only if it is
  positive and unused and a fresh one is past all others. The loop of merge also keeps that the
  numbers of its result are among those it has noted as used (`Merges`), and after each turn it is, policy by policy,
  what the policy says of the movies met so far (`ByPolicy`): this is where "used" has
  to be exactly the numbers of the catalog before the merge and of those movies. A replacement
  that removes an earlier incoming movie is impossible because incoming movies are a catalog of their own.
  Sorting is a bijection because `Before` is a strict total order (`PlaceIsBijection`).
* `LoansProofs`: `LoanTypeCorrect`, `LedgerAlwaysBalanced`, `GroupAlwaysMoves` and `ManagedAlwaysDistinct`, for any names, labels, works,
  files and bounds; from the invariant of `CatalogNumberingProofs` (numbers are positive and distinct) come that a number has one movie
  and that each call leaves a catalog. Managed names are distinct inductively only because `AddBorrower`
  strips what it adds and compares it with everything listed; a merge takes one list or the other, and a file's list is
  distinct by itself (`ArchivesAssumption`). The ledger is inductive together with the fact that no number is accounted for from
  after the end of the history (`LedgerInv`): a new event is then the last of one movie and of no other. `Recorded`
  starts the ledger anew for the numbers whose borrower another call has changed, and for all when it has changed the history; what is proved
  of loans therefore survives edits, merges and renumbering, of which nothing is claimed.
  `GroupAlwaysMoves` follows the batch turn by turn: what it has moved, and one event for each movie of it that was free.
* `JpegWorkspaceProofs`, first part: `VirtualArraysSound` and `VirtualArraysArePlain`, for any arrays, heights,
  access sizes and grants. That virtual arrays implement
  arrays is not inductive in terms of what a caller sees. `ArraysSound` says where
  each row lives: nothing is dirty or defined before the array is realized; a
  realized window is big enough for an access or holds the whole array, and holds it when there is no
  backing store; a clean window agrees with the file in the rows defined so far (`BufferSound`); and the strip a caller holds lies in the
  window, which is dirty, and the strip defined, if the caller may write to it (`StripSound`). The refinement
  mapping reads a row from where the invariant says it is.
* `JpegWorkspaceProofs`, second part: `MemoryKeepsArraysSound` and `MemoryKeepsPlainArrays`: each
  step of the whole memory manager, failures and aborts in the middle of realization included, is a step of
  `VirtualArrays` or a stutter, so both results carry over.
* `JpegWorkspaceProofs`, third part: `PoolsAlwaysSound`, for any sizes of chunk, header and object, any slop and
  any memory. `Sound` is about a manager in any of its intermediate states, since a request for a strip buffer
  or a realization is a loop of allocations, each of which may be the one that fails: it has `PoolsSound` for that
  manager, the type of its parts, and that every segment is filled up to an aligned place, which is what makes the
  next object aligned. `Descendants(q)` are the sound managers that a call may make of `q`; an allocation leads from
  a sound manager to one of its descendants (`AllocSmallSound`, `AllocLargeSound`, `AllocArraySound`), and so does a
  loop of them (`AllocBuffersSound`). The sums over segments change by what is added to the last one
  (`TotalOfAppend`) and not at all by dividing a segment otherwise (`SmallSpacesOfTaken`). That a
  backing store is closed by free_pool needs that every array that is requested or open is in the list (`Listed`).
  Assumed of the constants: alignment to 1, 2, 4 or 8 divides chunk and header, and sizes are natural numbers.
* `JpegWorkspaceProofs`, fourth part: `FilesStaySound` and `AlwaysReversible`, for any image with legal parameters,
  any block size and any number of steps: a transformation that does not trim is undone by its inverse. The lemmas
  are about the arithmetic of the mirrored part (the complete iMCUs of an image are the
  same number before and after a transposition, and mirroring stays among them),
  then about one block and one coefficient for each of the transformations.
* `JpegWorkspaceProofs`, fifth part: `AlwaysPixelExact`, for any block size and any waves with the symmetry of cosines.
  The invariant is that the file is what its last transformation makes of the
  one before (`PixelInvariant`). Changing the signs of odd coefficients turns a row of samples round, because
  that is what odd waves do (`IdctMirrored`, `SignedSample`); transposing block and table transposes the samples, because
  a sum over a square does not depend on the order (`TransposedSample`). `Adjusted` says which blocks of the source the complete iMCUs of
  the destination come from, after graying, transposing and trimming, and under which table; `Positions`
  is the arithmetic of a mirrored sample, `SamplesMoved` puts them together. What `PixelExact` supposes of an image to be made
  gray, that no colour component is sampled more finely than its luminance (`FullLuminance`), is needed: the code sets the sampling
  factors to 1 without a look at them, and an image without it would be continued with padding.

* `JpegRowsProofs`: `RowsPrepared`, for images of any height, any sampling factors up to 4 whose ratios are whole (`InputsAssumption`: what
  `jinit_downsampler` does not refuse) and calls of any number of rows that suspend anywhere. `PreparedRows` says nothing of the color
  buffer, so it is not inductive. `InputsRight` says between two calls (`Between`) what is in each buffer: without context the
  color buffer starts with the rows of the row group that is being filled (`Strip`); with context it is a ring of three
  row groups, in which row `w` of the image lies at `w` modulo the size of the ring and what would lie above or below the image is its
  first or last row (`Ring`); the first row groups of the iMCU row are made of the right rows (`GroupsRight`); and the application
  has been told of all rows that were read, but for the one it has to offer again after a suspension (`Owed`). Since
  `jpeg_write_scanlines` runs three nested loops, the same holds after each turn (`Call`): a strip or the
  ring advances by what one colour conversion takes (`StripStep`, `RingStep`), a row group of the ring is
  downsampled from the right rows although its neighbours wrap round (`SentRight`), a full iMCU row goes to the coefficient
  controller or stays where it is (`Compressed`), and a call ends at an iMCU row that was not taken or when its rows are used up (`ImageStep`,
  `ImageWritten`). That no iMCU row is missing at the end follows from the padding: when the last image row has been read the call goes on
  until the last iMCU row is full.
* `JpegRowsProofs`, second part: `RowsShown`, for images of any height, sampling factors up to 4 whose ratios are whole and any size of the
  scaled block (`OutputsAssumption`: what `jinit_upsampler` does not refuse, and what `use_merged_upsample` asks for), fancy or
  plain, merged or separate upsampling, each quantizer, any number of passes cut off anywhere, and calls of any
  number of rows that suspend anywhere. One condition is needed that the code does not guarantee: of an image quantized in
  two passes the last row group is whole or a single row (`StripsFit`; so it is whenever a row group has at most two rows). Without it the theorem
  is false: that is the disagreement at `jdpostct.c:218` in the table above. The condition excludes nothing else: when the last row group is
  cut and has two rows or more, calls of one and then two rows get a row too many. Every image of the run meets it.
  The invariant is `OutputsRight`. It says between two calls at which row group of the image the upsampler is (`GroupAt`), how much
  of it has been shown and that the rest of it is ready (`Upsampling`), and what the workspace holds. Without context an iMCU row lies in the
  workspace whole (`SimpleMain`). With context the two lists of pointers are those of `make_funny_pointers`, wrapped or not
  (`Pointing`), and there are three situations: at the top of an iMCU row (`AtTop`), within it, where every row group
  that may be shown already has the neighbours it is interpolated from (`Within`), and at its last row group, whose lower neighbour belongs
  to the next iMCU row and whose rows must therefore outlive the decoding of that one (`AtLast`, `Saved`). That the decoder writes over no row
  still to be shown is `DecodedView`: through one list it sees the workspace in order, and what the other list shows
  above the new iMCU row is where `Saved` says. In the first of two passes the virtual array holds the rows of the image up to
  the one the pass has come to (`Storing`), in the second it holds all (`Cranking`).
  `SepUpsamples`, `MergedUpsamples`, `PostRows`, `ProcessesImcu` and `PassGoesOn` follow a call from the inside to the outside.
* `JpegDecompressorProofs`: `CallsStaySound`, `ObjectTyped` and `NothingDangles`, for any image size and sampling factors, any
  datastreams (sequences of words, damaged or cut off wherever they are), any window of a suspending source and any number of images.
  Assumed of the constants: the named assumptions of `JpegScanDecoder` and `JpegDecompressor` (a geometry of
  positive sizes, words and limits of saved markers that are natural numbers, at least one image).
  The inductive invariant is `CallsSound`. That a counter stays in the image or that no pointer outlives it is not inductive:
  which step may come next depends on which of its phases the object is in, and what is true of the object in one phase rests on
  what the earlier phases have left. `Sound` therefore says, by `global_state`, what each phase relies on: a header being read has
  nothing of an earlier image (`Heading`); behind the header the frame has been read and scans are of its components (`Running`,
  which is what the latching of tables and the controllers index by); once a pass is set up there are coefficient
  arrays wherever the input can run ahead of the output, and where there are none input and output are in the same
  iMCU row and the input controller consumes nothing of its own before the last one (`Passing`); and while rows are put out the
  controllers and the application agree on the row (`Putting`). `Typed` holds in every phase, after errors too.
  A call works on the object through a chain of functions, so most lemmas say which fields a function leaves alone
  (`Changes`) and that it never steps back in the datastream (`Advances`); the loops of the decoders (`Turns`) and of `jpeg_fill_bit_buffer`
  are followed turn by turn with the lemmas of `LoopTheorems`. Where a
  call suspends in the middle, `Works` says that the working state it drops differs from the object in nothing the invariant speaks of.
  Two faults of the model came to light when the invariant would not go through, both of inputs the run did not have then: a
  length word too short for itself, which the code guards against in `save_marker` and `get_interesting_appn`, and a frame with more
  components than `initial_setup` admits. Both are now modelled, and the run has datastreams with them.

Only model-checked:

* `DecodedAsWritten`, `ShownRowIsReady` and `RestartResync` of the decompressor, and `StreamDecodes` of the compressor: they compare coefficients with what
  a writer of the datastream meant, so a proof would be an induction over the data of the stream.
* `TypeOK` and `NoUnexpectedError` of the compressor: its module extends `JpegStream`, whose reader is made of recursive operators, and
  from such a module the prover cannot be used.
* `EventuallyCurrent`, `CallReturns` and `ImageEnds`: liveness, beyond the prover.

## What is abstracted

Python.

* A catalog in `CatalogService` is a value. `dirty` is never true between two
  calls and is left out. A crash in the middle of `_persist` is `Persist` with the
  matching result followed by `Restart`; another process between the copy and the reload of
  `restore` is `Restore`, `OtherSaves`, `Reload`.
* The file system is a POSIX one: rename is atomic, fsync does what it says, unlink
  does not raise. On Windows the code does not fsync directories.
* The `.bak` file of a native export is in `AtomicFile`, not in `CatalogService`, where no path is a `.bak`.
* In `CatalogWebState` every version of the file has an mtime of its own; a
  version renamed back has the one it had, and the properties say what then
  cannot be expected (`FirstOfItsTime`, `Noticeable`). A page during whose request the file changes may be
  torn; `StaleIsAdmitted` is about those that were not overtaken (`steady`). Only the index page is modelled.
* In `CatalogNumbering` a movie is a number and a work; metadata are left out. `Movie` rejects negative numbers, so files have 0 at the least.
* In `Loans` a request is a list of distinct numbers: a repeated one is a
  `ValueError` before anything happens. A label stands for all its spellings. A work is what loans look at: label,
  native number and borrower. Of the metadata there are the loan history and the list of borrowers, well-formed as
  the program writes them; other keys can raise a conflict of the same kind. Undo, redo and restore exchange the whole catalog, as opening a
  file does. A batch that raises changes nothing,
  which is `CatalogService`'s `Persist`.

JPEG.

* Decompressor: a datastream is a sequence of words, one per marker, length, parameter or
  entropy coded symbol, so a length counts words. Two AC
  coefficients of a block, as two decimal digits, are enough for a refinement scan to skip, to correct and to add; a
  correction bit is a word. Horizontal sampling factors are 1. Past its end a file goes on with the
  fake EOI markers of `fill_input_buffer`, as many as a call can look ahead.
* Compressor: one row of samples is one row of blocks; a symbol is a run and a
  number of bits; a Huffman table is the set of symbols it has codes for; two
  codes fill a byte. Byte stuffing, JFIF and Adobe markers, color conversion and the range check
  of coefficients are left out. The picture is a constant, of which `saved` rows have arrived.
* The application keeps the contract of libjpeg.doc: calls in the documented
  order; `write_all_tables` FALSE only if nothing it sent was lost (`stale`); a suspending
  destination for single-pass images only, its buffer emptied before the call is made again; markers before the first data.
* Memory: an address is a segment and an offset, sizes are small units. The
  system module in this build, `jmemnobs.c`, grants all memory that is asked for and has no backing store; the
  window logic is modelled against the interface `jmemsys.h`, so grants are arbitrary.
* Rows: a row is a label; a row that a suspended call decoded in part is `Torn`.
  Widths matter only through the choice of a method (`downsampled_width > 2` is assumed). Two-pass
  images are those in which the divergence above does not show.
* Transformation: arrays hold the blocks of the image, what lies beyond is `Padding`; `PixelExact`
  is about samples in exact arithmetic (the decoder's DCTs round), in integer units of the cosines. The run has the two-point DCT, in which the
  signs under mirroring are those of the eight-point one; the theorem any. Of an image made gray it speaks when the first component has
  the largest sampling factors.

## What is not modelled

* `native.py`, `media.py`, `inspection.py`, `omdb.py`, `html_template.py`, `presentation.py`,
  `model.py`, the parsers of `scripts.py` and `preferences.py`: functions from bytes or
  values to values, without state from one call to the next. Their writers are in `AtomicFile`.
* `gui.py`: which window gets the next event, and what a nested event loop lets through, is decided by
  the toolkit; every command ends in one service call. `cli.py`: one service call
  per process, which `CatalogService` has as the actions of others.
* The picture mutations, and what merge does to metadata other than the two lists: a picture is part of a movie's value in `CatalogService`.
* Colour conversion, DCT, quantization (`jccolor.c`, `jdcolor.c`, `jfdct*.c`, `jidct*.c`,
  `jquant*.c`): fixed-point arithmetic on samples whose control does not depend on state.
  Construction of Huffman codes (`jpeg_gen_optimal_table`, `jpeg_make_c_derived_tbl`): what matters
  here, which symbols have a code, is modelled. Messages (`jerror.c`).

## What could come next

1. Invariants of the compressor and of the rows on their way out, with proofs. For the compressor, the reader of
   `JpegStream` has to be taken out of the modules that `JpegCompressor` extends.
2. A composition in which the service's save is the protocol of `AtomicFile`,
   to derive `Install` and `Results` instead of stating them.
3. The decompressor's memory: its virtual arrays as those of `JpegMemory` in place of plain functions.
4. The limit counters of `native.py` and its 32-bit fields, and the several files of a template export.
