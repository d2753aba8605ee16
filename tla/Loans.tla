-------------------------------- MODULE Loans --------------------------------
(***************************************************************************)
(* Loans: who has which movie, the history of the loans and the list of    *)
(* borrowers (src/src/amc/loans.py and the loan calls of application.py),  *)
(* in a catalog whose movies and numbers are those of CatalogNumbering.    *)
(*                                                                         *)
(* One action is one call of CatalogService on a clone of the catalog that *)
(* is published only when the call returns: a batch that raises changes    *)
(* nothing (CatalogService.tla).  Inside it the loop over the movies is    *)
(* modelled step by step.  The loan calls are not alone in changing the    *)
(* borrower behind a number: opening a file, merging one, an edit, adding, *)
(* removing and renumbering do too, and write no event.  Undo, redo and    *)
(* restore exchange the whole catalog, history and all, as opening does.   *)
(*                                                                         *)
(* Labels are compared without case in the code: a label here stands for   *)
(* all its spellings.  Names keep their spelling, because the code         *)
(* compares some of them as they are, some stripped and some folded.       *)
(***************************************************************************)
EXTENDS CatalogNumbering

CONSTANTS
    Names,      \* the spellings of borrower names met in arguments and files
    Strip,      \* Strip[n]: n without the blanks around it
    Fold,       \* Fold[n]: n without case
    NoOne,      \* the empty name
    Labels,     \* media labels
    NoLabel,    \* the empty media label
    Natives,    \* numbers movies had in a native AMC catalog
    Entered,    \* the works that forms, edits and look-ups enter
    Archives,   \* the catalog files there are to open and to merge
    MaxEvents,  \* bound: events in the history
    MaxManaged  \* bound: names in the list of borrowers

ASSUME NamesAssumption ==
    /\ NoOne \in Names /\ NoLabel \in Labels
    /\ Strip \in [Names -> Names]
    /\ Fold \in [Names -> Names]
    /\ Strip[NoOne] = NoOne
    /\ \A n \in Names : Strip[Strip[n]] = Strip[n]
ASSUME NativesAssumption == Natives \subseteq Nat
ASSUME WorksAssumption ==
    /\ Works = [label : Labels, native : Natives \cup {None}, borrower : Names]
    /\ Entered \subseteq Works
ASSUME LoanBoundsAssumption == MaxEvents \in Nat /\ MaxManaged \in Nat

LoanEvent == [action : {"out", "in"}, number : Nat, borrower : Names \ {NoOne}]

\* No two names of a list are spellings of one borrower.
DistinctNames(list) ==
    \A i, j \in DOMAIN list : Fold[Strip[list[i]]] = Fold[Strip[list[j]]] => i = j

\* The keys of the metadata.
HistoryKey == "amc_python_loan_history"
BorrowersKey == "amc_python_borrowers"

\* What a file holds: its rows, the keys its metadata have and the lists under
\* them, as the program writes them.
ASSUME ArchivesAssumption ==
    \A f \in Archives :
        /\ f \in [rows : Files, keys : SUBSET {HistoryKey, BorrowersKey},
                  history : Seq(LoanEvent), managed : Seq(Names \ {NoOne})]
        /\ HistoryKey \notin f.keys => f.history = <<>>
        /\ BorrowersKey \notin f.keys => f.managed = <<>>
        /\ DistinctNames(f.managed)

VARIABLES
    history,    \* metadata[HistoryKey], or the empty list
    managed,    \* metadata[BorrowersKey], or the empty list
    keys,       \* which of the two the metadata have
    since       \* history variable: for each number, who had its movie when
                \* another call than a loan last changed that, and how long
                \* the history was

loanVars == <<movies, outcome, history, managed, keys, since>>

MetadataPolicies == {"error", "keep", "replace", "namespace"}

Numbers == 1..MaxNumber

Present == NumbersOf(movies)

\* The movie with each number, and the numbers in the order of the catalog.
works == [n \in Present |->
              (CHOOSE movie \in ToSet(movies) : movie.number = n).work]

order == [i \in DOMAIN movies |-> movies[i].number]

OnLoan(work) == work.borrower # NoOne

LoanRaises == UNCHANGED <<movies, history, managed, keys, since>> /\ outcome' = "raised"

-----------------------------------------------------------------------------
(* _expand_loan_groups *)

\* movie.extras.get("native_movie_number", movie.number)
NativeNumber(n) == IF works[n].native = None THEN n ELSE works[n].native

\* Groups of movies that all lack a label (a mutant of SameGroup).
LabelsOfNoneGroup(n, selected, byLabel, byNative) ==
    \/ byLabel /\ \E s \in selected : works[s].label = works[n].label
    \/ byNative /\ \E s \in selected : NativeNumber(s) = NativeNumber(n)

\* n shares a label, or a native number, with a selected movie.
SameGroup(n, selected, byLabel, byNative) ==
    \/ /\ byLabel
       /\ works[n].label # NoLabel
       /\ \E s \in selected : works[s].label = works[n].label
    \/ byNative /\ \E s \in selected : NativeNumber(s) = NativeNumber(n)

\* The numbers a loan call works on, in the order it does.
Expanded(requested, byLabel, byNative) ==
    LET selected == ToSet(requested)
    IN  IF ~byLabel /\ ~byNative
        THEN requested
        ELSE Kept(order,
                 {n \in Present : n \in selected \/ SameGroup(n, selected, byLabel, byNative)})

-----------------------------------------------------------------------------
(* check_out_many and check_in_many: b is the batch so far, on the clone. *)

Batch == [works |-> works, history |-> history, raised |-> FALSE]

WithEvent(b, action, n, borrower) ==
    [b EXCEPT !.history = Append(@, [action |-> action, number |-> n,
                                     borrower |-> borrower])]

\* An event for every call, repeated or not (a mutant of CheckOutOne).
RepeatingCheckOutOne(b, n, borrower) ==
    LET current == b.works[n].borrower
        lent == [b EXCEPT !.works[n].borrower = borrower]
    IN  IF b.raised \/ (current # NoOne /\ current # borrower)
        THEN [b EXCEPT !.raised = TRUE]
        ELSE WithEvent(lent, "out", n, borrower)

CheckOutOne(b, n, borrower) ==
    LET current == b.works[n].borrower
        lent == [b EXCEPT !.works[n].borrower = borrower]
    IN  IF b.raised \/ (current # NoOne /\ current # borrower)
        THEN [b EXCEPT !.raised = TRUE]
        ELSE IF current # NoOne THEN lent ELSE WithEvent(lent, "out", n, borrower)

\* An event built from the movie after its borrower is cleared (a mutant of
\* CheckInOne).
LateCheckInOne(b, n) ==
    IF b.raised \/ b.works[n].borrower = NoOne
    THEN [b EXCEPT !.raised = TRUE]
    ELSE WithEvent([b EXCEPT !.works[n].borrower = NoOne], "in", n, NoOne)

CheckInOne(b, n) ==
    LET current == b.works[n].borrower
    IN  IF b.raised \/ current = NoOne
        THEN [b EXCEPT !.raised = TRUE]
        ELSE WithEvent([b EXCEPT !.works[n].borrower = NoOne], "in", n, current)

\* The loops of the two calls.
LentBatch(list, borrower) == FoldLeft(LAMBDA b, n : CheckOutOne(b, n, borrower), Batch, list)

ReturnedBatch(list) == FoldLeft(CheckInOne, Batch, list)

\* The batch is persisted if the loop went through.
Persist(b) ==
    IF b.raised
    THEN LoanRaises
    ELSE /\ Len(b.history) <= MaxEvents
         /\ movies' = [i \in DOMAIN movies |->
                          [movies[i] EXCEPT !.work = b.works[movies[i].number]]]
         /\ history' = b.history
         /\ keys' = IF b.history = history THEN keys ELSE keys \cup {HistoryKey}
         /\ outcome' = "ok"
         /\ UNCHANGED <<managed, since>>

CheckOutMany(requested, name, byLabel, byNative) ==
    LET borrower == Strip[name]
    IN  IF borrower = NoOne \/ ~(ToSet(requested) \subseteq Present)
        THEN LoanRaises
        ELSE Persist(LentBatch(Expanded(requested, byLabel, byNative), borrower))

CheckInMany(requested, byLabel, byNative) ==
    IF ~(ToSet(requested) \subseteq Present)
    THEN LoanRaises
    ELSE Persist(ReturnedBatch(Expanded(requested, byLabel, byNative)))

-----------------------------------------------------------------------------
(* The list of borrowers. *)

InUse == {works[n].borrower : n \in {m \in Present : OnLoan(works[m])}}

\* borrowers() raises on a name that is all blanks.
Unlistable == \E name \in ToSet(managed) \cup InUse : Strip[name] = NoOne

\* What borrowers() returns, without case.
Listed == {Fold[Strip[name]] : name \in ToSet(managed) \cup InUse}

\* A name that is compared with its case (a mutant of AddBorrower).
CaseKeepingAddBorrower(name) ==
    LET stripped == Strip[name]
    IN  IF stripped = NoOne \/ Unlistable \/ stripped \in ToSet(managed)
        THEN LoanRaises
        ELSE /\ Len(managed) < MaxManaged
             /\ managed' = Append(managed, stripped)
             /\ outcome' = "ok"
             /\ keys' = keys \cup {BorrowersKey}
             /\ UNCHANGED <<movies, history, since>>

AddBorrower(name) ==
    LET stripped == Strip[name]
    IN  IF stripped = NoOne \/ Unlistable \/ Fold[stripped] \in Listed
        THEN LoanRaises
        ELSE /\ Len(managed) < MaxManaged
             /\ managed' = Append(managed, stripped)
             /\ outcome' = "ok"
             /\ keys' = keys \cup {BorrowersKey}
             /\ UNCHANGED <<movies, history, since>>

RemoveBorrower(name) ==
    LET stripped == Strip[name]
        matches == Kept(managed, {item \in ToSet(managed) : Fold[item] = Fold[stripped]})
    IN  IF \/ stripped = NoOne
           \/ Unlistable
           \/ matches = <<>>
           \/ \E n \in Present : Fold[works[n].borrower] = Fold[stripped]
        THEN LoanRaises
        ELSE /\ managed' = Kept(managed, ToSet(managed) \ {Head(matches)})
             /\ outcome' = "ok"
             /\ keys' = keys \cup {BorrowersKey}
             /\ UNCHANGED <<movies, history, since>>

-----------------------------------------------------------------------------
(* The other calls of CatalogService: what they do to the movies is in      *)
(* CatalogNumbering, what they do to the metadata is here.                  *)

\* A number whose borrower the call has changed, and every number if it has
\* changed the history, is accounted for from here on.
Recorded ==
    since' = [n \in Present' |->
        IF n \in Present /\ history' = history /\ works'[n].borrower = works[n].borrower
        THEN since[n]
        ELSE [at |-> Len(history'), borrower |-> works'[n].borrower]]

\* The metadata stay.
OfMovies(call) == call /\ UNCHANGED <<history, managed, keys>> /\ Recorded

\* __init__, open, reload
OpenFile(f) ==
    /\ Load(f.rows)
    /\ history' = f.history
    /\ managed' = f.managed
    /\ keys' = f.keys
    /\ Recorded

\* A key that both catalogs have, with different values.
Conflicts(f) ==
    \/ HistoryKey \in f.keys \cap keys /\ f.history # history
    \/ BorrowersKey \in f.keys \cap keys /\ f.managed # managed

\* The keys whose values the merged catalog takes from the incoming one.
\* namespace puts them all under a key of their own.
Taken(f, policy) ==
    CASE policy = "replace" -> f.keys
      [] policy = "namespace" -> {}
      [] OTHER -> f.keys \ keys

\* A merge of metadata that joins the two lists (a mutant of MergedManaged).
JoinedManaged(f, policy) == managed \o f.managed

MergedManaged(f, policy) == IF BorrowersKey \in Taken(f, policy) THEN f.managed ELSE managed

\* import_from, merge
MergeFile(f, collision, policy) ==
    IF (policy = "error" /\ Conflicts(f)) \/ Merged(movies, Incoming(f.rows), collision).raised
    THEN LoanRaises
    ELSE /\ Merge(f.rows, collision)
         /\ history' = IF HistoryKey \in Taken(f, policy) THEN f.history ELSE history
         /\ managed' = MergedManaged(f, policy)
         /\ keys' = keys \cup Taken(f, policy)
         /\ Recorded

\* add
Enter(work) == OfMovies(AddMany(<<[number |-> 0, work |-> work]>>))

\* replace: `amc edit --set borrower=...' may enter any borrower.
EditMovie(n, work) == OfMovies(Replace(n, work))

\* remove, remove_many: the history keeps the events of the movies.
RemoveMovies(requested) == OfMovies(RemoveMany(requested))

\* renumber: the events keep the numbers the movies had.
RenumberMovies(start) == OfMovies(Renumber(start))

SortMovies(reverse) == OfMovies(Sort(reverse))

LoanInit ==
    \E f \in Archives :
        /\ movies = CatalogOf(f.rows)
        /\ Within(movies)
        /\ outcome = "ok"
        /\ history = f.history
        /\ managed = f.managed
        /\ keys = f.keys
        /\ since = [n \in Present |-> [at |-> Len(history), borrower |-> works[n].borrower]]

\* A selection of movies: distinct numbers, in any order.
Requests == {s \in BoundedSeq(Numbers, MaxMovies) : s # <<>> /\ IsInjective(s)}

LoanNext ==
    \/ \E requested \in Requests, name \in Names, byLabel, byNative \in BOOLEAN :
           CheckOutMany(requested, name, byLabel, byNative)
    \/ \E requested \in Requests, byLabel, byNative \in BOOLEAN :
           CheckInMany(requested, byLabel, byNative)
    \/ \E name \in Names : AddBorrower(name) \/ RemoveBorrower(name)
    \/ \E f \in Archives : OpenFile(f)
    \/ \E f \in Archives, collision \in Policies, policy \in MetadataPolicies :
           MergeFile(f, collision, policy)
    \/ \E work \in Entered : Enter(work)
    \/ \E n \in Numbers, work \in Entered : EditMovie(n, work)
    \/ \E requested \in SUBSET Numbers \ {{}} : RemoveMovies(requested)
    \/ \E start \in 0..MaxNumber : RenumberMovies(start)
    \/ \E reverse \in BOOLEAN : SortMovies(reverse)

LoanSpec == LoanInit /\ [][LoanNext]_loanVars

-----------------------------------------------------------------------------
(* Properties. *)

\* Every event names a borrower and every number in the catalog has a movie:
\* what check_in writes once the movie is back is still who had it.
LoanTypeOK ==
    /\ movies \in Seq(Movie)
    /\ history \in Seq(LoanEvent)
    /\ managed \in Seq(Names \ {NoOne})
    /\ keys \subseteq {HistoryKey, BorrowersKey}
    /\ HistoryKey \notin keys => history = <<>>
    /\ BorrowersKey \notin keys => managed = <<>>
    /\ since \in [Present -> [at : Nat, borrower : Names]]
    /\ outcome \in {"ok", "raised"}

\* The events of movie n since it was last accounted for, by their place in the
\* history.
EventsOf(n) == {i \in since[n].at + 1 .. Len(history) : history[i].number = n}

\* Who had movie n before the i-th event of the history.
HolderBefore(n, i) ==
    LET earlier == {j \in EventsOf(n) : j < i}
        last == history[Max(earlier)]
    IN  IF earlier = {} THEN since[n].borrower
        ELSE IF last.action = "out" THEN last.borrower ELSE NoOne

\* The history accounts for what the loan calls do (docs/cli.md:92-96), batch by
\* batch and whatever groups they expand to.  Starting from who had the movie of
\* a number when another call last changed that, or the history, the events
\* with the number lend it only while nobody has it, take it back only from the
\* one who has it, and end with its borrower.  Of the other calls nothing is
\* claimed: an edit, a merge or renumber changes the borrower behind a number
\* and writes no event.
LedgerBalanced ==
    \A n \in Present :
        /\ works[n].borrower = HolderBefore(n, Len(history) + 1)
        /\ \A i \in EventsOf(n) :
              HolderBefore(n, i) = IF history[i].action = "out" THEN NoOne ELSE history[i].borrower

\* The movies a loan call is documented to move (docs/cli.md:97-104).
Group(requested, byLabel, byNative) ==
    LET selected == ToSet(requested)
        labels == {works[s].label : s \in selected} \ {NoLabel}
        natives == {NativeNumber(s) : s \in selected}
    IN  selected
        \cup {n \in Present : byLabel /\ works[n].label \in labels}
        \cup {n \in Present : byNative /\ NativeNumber(n) \in natives}

\* The batch of a check-out, as a whole.
LendsGroup(requested, borrower, byLabel, byNative) ==
    LET group == Group(requested, byLabel, byNative)
        free == {n \in group : ~OnLoan(works[n])}
        b == LentBatch(Expanded(requested, byLabel, byNative), borrower)
        events == SubSeq(b.history, Len(history) + 1, Len(b.history))
    IN  /\ b.raised <=> \E n \in group : works[n].borrower \notin {NoOne, borrower}
        /\ ~b.raised =>
            /\ b.works = [n \in Present |->
                    IF n \in group THEN [works[n] EXCEPT !.borrower = borrower]
                                   ELSE works[n]]
            /\ IsPrefix(history, b.history)
            /\ {events[i].number : i \in DOMAIN events} = free
            /\ Len(events) = Cardinality(free)

\* A batch lends all of a group or none of it: it raises just when somebody
\* else has one of them, and otherwise every one ends with the borrower, no
\* other movie changes, and the history grows by one event for each movie that
\* nobody had, none for those the borrower already has.
CheckOutMovesTheGroup ==
    \A requested \in Requests, name \in Names, byLabel, byNative \in BOOLEAN :
        ToSet(requested) \subseteq Present /\ Strip[name] # NoOne =>
            LendsGroup(requested, Strip[name], byLabel, byNative)

\* The managed names are distinct, whatever their case and the blanks around
\* them, with whatever names movies and files bring in between, and after every
\* merge of metadata, provided that the lists of the files are: a merge takes
\* one list or the other and never joins them.
ManagedDistinct == DistinctNames(managed)

\* "An active borrower cannot be removed" (docs/cli.md:116): a borrower is what
\* borrowers() lists, managed or on an active loan, so no call of
\* remove_borrower returns while it lists the name for a movie.  The code does
\* not keep it (README.md, divergences).
ActiveBorrowerStays ==
    [][\A name \in Names : RemoveBorrower(name) /\ outcome' = "ok" =>
          \A n \in Present : Fold[Strip[works[n].borrower]] # Fold[Strip[name]]]_loanVars

=============================================================================
