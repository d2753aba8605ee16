-------------------------- MODULE CatalogNumbering --------------------------
(***************************************************************************)
(* The movies of a catalog and the numbers they are known by               *)
(* (src/src/amc/catalog.py, and the calls of application.py that lead      *)
(* there).  A catalog is a list; a movie is found by its number, and the   *)
(* loops that hand out numbers (add, the constructor, merge) are modelled  *)
(* step by step.  What a movie holds besides its number is its work.       *)
(*                                                                         *)
(* One action is one call of CatalogService: it works on a clone, and a    *)
(* loop that raises leaves the catalog as it was (CatalogService.tla shows *)
(* that of _persist).  `outcome' is what the last call ended with.         *)
(***************************************************************************)
EXTENDS Lists

CONSTANTS
    Works,      \* what a movie holds besides its number
    Key,        \* Key[w]: the value of w that sort orders by, or None
    None,       \* no value
    RawNumbers, \* the numbers the rows of a file carry, 0 for a blank one
    MaxBatch,   \* bound: the longest file, or batch of new movies
    MaxMovies,  \* bound: the largest catalog
    MaxNumber   \* bound: the largest number handed out

ASSUME KeyAssumption == Key \in [Works -> Nat \cup {None}] /\ None \notin Nat
ASSUME RawAssumption == RawNumbers \subseteq Nat
ASSUME BoundsAssumption == MaxBatch \in Nat /\ MaxMovies \in Nat /\ MaxNumber \in Nat

VARIABLES
    movies,     \* Catalog._movies
    outcome     \* "ok" or "raised": how the last call ended

vars == <<movies, outcome>>

Policies == {"error", "skip", "replace", "renumber"}

Movie == [number : 1..MaxNumber, work : Works]

\* The movies of a file, as its rows have them.
Files == BoundedSeq([number : RawNumbers, work : Works], MaxBatch)

NumbersOf(list) == {list[i].number : i \in DOMAIN list}

WorksOf(list) == [i \in DOMAIN list |-> list[i].work]

\* The movies of a list whose number is not one of these.
Without(list, numbers) == Kept(list, {movie \in ToSet(list) : movie.number \notin numbers})

\* max(used, default=0) + 1
Fresh(used) == IF used = {} THEN 1 ELSE Max(used) + 1

Numbered(movie, number) == [movie EXCEPT !.number = number]

-----------------------------------------------------------------------------
(* The loops of Catalog. *)

\* A constructor that closes the gaps in the numbers (a mutant of AddOne).
CompactingAddOne(list, movie, renumber) ==
    Append(list, Numbered(movie, Fresh(NumbersOf(list))))

\* A constructor that looks for repeated numbers only (a mutant of AddOne).
ZeroKeepingAddOne(list, movie, renumber) ==
    LET used == NumbersOf(list)
    IN  IF renumber \/ movie.number \in used
        THEN Append(list, Numbered(movie, Fresh(used)))
        ELSE Append(list, movie)

\* Catalog.add
AddOne(list, movie, renumber) ==
    LET used == NumbersOf(list)
        taken == movie.number <= 0 \/ movie.number \in used
    IN  Append(list, IF renumber \/ taken
                     THEN Numbered(movie, Fresh(used))
                     ELSE movie)

\* The rows added one after the other.
Added(base, rows, renumber) ==
    FoldLeft(LAMBDA list, movie : AddOne(list, movie, renumber), base, rows)

\* Catalog(rows): the number of a row is kept if it is free.
CatalogOf(rows) == Added(<<>>, rows, FALSE)

\* result.append(movie); used.add(movie.number), under a number.
Grown(m, kept, movie, number) ==
    [m EXCEPT !.list = Append(kept, Numbered(movie, number)), !.used = m.used \cup {number}]

\* A loop that forgets which numbers it has handed out (a mutant of MergeOne).
ForgetfulMergeOne(m, movie, collision) ==
    LET duplicate == movie.number > 0 /\ movie.number \in m.used
    IN  IF m.raised \/ (duplicate /\ collision = "error")
        THEN [m EXCEPT !.raised = TRUE]
        ELSE IF duplicate /\ collision = "skip" THEN m
        ELSE IF duplicate /\ collision = "replace"
        THEN [m EXCEPT !.list = Append(Without(m.list, {movie.number}), movie)]
        ELSE [m EXCEPT !.list = Append(@,
                 IF duplicate THEN Numbered(movie, Fresh(m.used)) ELSE movie)]

\* The body of the loop of Catalog.merge, on m = its result, used and whether
\* it has raised.
MergeOne(m, movie, collision) ==
    LET duplicate == movie.number > 0 /\ movie.number \in m.used
        overwrites == duplicate /\ collision = "replace"
        kept == IF overwrites THEN Without(m.list, {movie.number}) ELSE m.list
        number == IF ~overwrites /\ (movie.number <= 0 \/ duplicate)
                  THEN Fresh(m.used) ELSE movie.number
    IN  IF m.raised \/ (duplicate /\ collision = "error")
        THEN [m EXCEPT !.raised = TRUE]
        ELSE IF duplicate /\ collision = "skip"
        THEN m
        ELSE Grown(m, kept, movie, number)

Merged(list, incoming, collision) ==
    FoldLeft(LAMBDA m, movie : MergeOne(m, movie, collision),
             [list |-> list, used |-> NumbersOf(list), raised |-> FALSE],
             incoming)

HasKey(movie) == Key[movie.work] # None

\* sort_movies puts the i-th movie before the j-th: a stable sort of the movies
\* that have a value, in either direction, and after them those that have none,
\* in their order.
Before(list, reverse, i, j) ==
    LET x == Key[list[i].work]
        y == Key[list[j].work]
    IN  \/ HasKey(list[i]) /\ ~HasKey(list[j])
        \/ ~HasKey(list[i]) /\ ~HasKey(list[j]) /\ i < j
        \/ /\ HasKey(list[i]) /\ HasKey(list[j])
           /\ \/ IF reverse THEN x > y ELSE x < y
              \/ x = y /\ i < j

Place(list, reverse, i) == 1 + Cardinality({j \in DOMAIN list : Before(list, reverse, j, i)})

Sorted(list, reverse) ==
    [k \in DOMAIN list |-> list[CHOOSE i \in DOMAIN list : Place(list, reverse, i) = k]]

-----------------------------------------------------------------------------
(* The calls of CatalogService. *)

\* A catalog with numbers up to MaxNumber is within the bounds.
Within(list) == Len(list) <= MaxMovies /\ \A n \in NumbersOf(list) : n <= MaxNumber

Becomes(list) == Within(list) /\ movies' = list /\ outcome' = "ok"

Raises == UNCHANGED movies /\ outcome' = "raised"

\* open, reload: the catalog is what the file holds.
Load(rows) == Becomes(CatalogOf(rows))

\* add, add_many: each movie gets a number of its own.
AddMany(batch) == Becomes(Added(movies, batch, TRUE))

\* replace (an edit of the movie with that number)
Replace(number, work) ==
    IF number \in NumbersOf(movies)
    THEN Becomes([i \in DOMAIN movies |->
             IF movies[i].number = number THEN [number |-> number, work |-> work]
                                          ELSE movies[i]])
    ELSE Raises

\* remove, remove_many
RemoveMany(requested) ==
    IF requested \subseteq NumbersOf(movies)
    THEN Becomes(Without(movies, requested))
    ELSE Raises

\* A service that merges the rows of the file as they are (a mutant of Incoming).
RawIncoming(rows) == rows

\* import_from and merge: the incoming movies are a catalog of their own, by
\* load or by the isolating copy, before the first of them is merged.
Incoming(rows) == CatalogOf(rows)

\* merge, import_from
Merge(rows, collision) ==
    LET m == Merged(movies, Incoming(rows), collision)
    IN  IF m.raised THEN Raises ELSE Becomes(m.list)

Renumber(start) ==
    IF start < 1
    THEN Raises
    ELSE Becomes([i \in DOMAIN movies |-> Numbered(movies[i], start + i - 1)])

Sort(reverse) == Becomes(Sorted(movies, reverse))

Init ==
    /\ movies \in {CatalogOf(rows) : rows \in Files}
    /\ Within(movies)
    /\ outcome = "ok"

Next ==
    \/ \E rows \in Files : Load(rows)
    \/ \E batch \in Files \ {<<>>} : AddMany(batch)
    \/ \E number \in 1..MaxNumber, work \in Works : Replace(number, work)
    \/ \E requested \in SUBSET (1..MaxNumber) \ {{}} : RemoveMany(requested)
    \/ \E rows \in Files, collision \in Policies : Merge(rows, collision)
    \/ \E start \in 0..MaxNumber : Renumber(start)
    \/ \E reverse \in BOOLEAN : Sort(reverse)

Spec == Init /\ [][Next]_vars

-----------------------------------------------------------------------------
(* Properties. *)

\* The catalog is a list of movies with positive numbers: a row of a file with
\* no number, or 0, has been given one by the time it is in a catalog.
TypeOK ==
    /\ movies \in Seq(Movie)
    /\ outcome \in {"ok", "raised"}

\* A number identifies a movie.  Every other operation (get, remove, replace,
\* the loans, the selection of the GUI) finds a movie by its number and takes
\* the first it meets, so a repeated number would hide a movie from all of
\* them.  It takes a load or a merge, and files repeat numbers.
NumbersIdentify ==
    \A i, j \in DOMAIN movies : movies[i].number = movies[j].number => i = j

\* _clone, the file written by save and the file read by load all go through
\* the constructor again.  None of them changes a number, whatever gaps the
\* numbers have and in whatever order they stand: the catalog a mutation works
\* on, the one undo restores and the one reload reads are the current one.
CloneIsExact == CatalogOf(movies) = movies

\* The catalog a merge of incoming is documented to result in.
FollowsPolicy(incoming, result, collision) ==
    LET taken == NumbersOf(movies)
        news == Without(incoming, taken)
        olds == Without(movies, NumbersOf(incoming))
        collide == news # incoming
    IN  /\ result.raised <=> (collision = "error" /\ collide)
        /\ collision = "skip" => result.list = movies \o news
        /\ collision = "replace" => result.list = olds \o incoming
        /\ (collision = "error" /\ ~collide) => result.list = movies \o incoming
        /\ collision = "renumber" =>
            /\ WorksOf(result.list) = WorksOf(movies) \o WorksOf(incoming)
            /\ IsPrefix(movies, result.list)
            /\ \A i \in DOMAIN incoming :
                  LET number == result.list[Len(movies) + i].number
                  IN  \/ number = incoming[i].number /\ number \notin taken
                      \/ \A n \in taken : number > n

\* A merge does what README.md:180-183 says, as one comparison of the catalog
\* with the incoming one, with no loop.  A movie collides if the catalog had its
\* number before the merge.
MergeFollowsPolicy ==
    \A rows \in Files, collision \in Policies :
        FollowsPolicy(CatalogOf(rows), Merged(movies, Incoming(rows), collision), collision)

=============================================================================
