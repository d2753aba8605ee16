------------------------ MODULE CatalogStorageProofs ------------------------
(***************************************************************************)
(* Proofs about the files of a catalog: what CatalogService keeps of them  *)
(* between its calls, and what the writers of AtomicFile do to them within *)
(* one.                                                                    *)
(***************************************************************************)
EXTENDS CatalogService, AtomicFile, SequenceTheorems, TLAPS

-----------------------------------------------------------------------------
(***************************************************************************)
(* Proofs about CatalogService, for every set of paths and catalogs and    *)
(* every history limit.                                                    *)
(***************************************************************************)

(* A subsequence inside a sequence: what it is made of, pointwise.         *)
LEMMA SubSeqInside ==
  ASSUME NEW S, NEW s \in Seq(S), NEW m \in Nat \ {0}, NEW n \in Nat,
         m <= n + 1, n <= Len(s)
  PROVE  /\ SubSeq(s, m, n) \in Seq(S)
         /\ Len(SubSeq(s, m, n)) = n - m + 1
         /\ \A i \in 1 .. n - m + 1 :
              m + i - 1 \in 1 .. Len(s) /\ SubSeq(s, m, n)[i] = s[m + i - 1]
<1>1. \A i \in m .. n : s[i] \in S
  <2> TAKE i \in m .. n
  <2>1. i \in 1 .. Len(s)
    BY LenProperties
  <2> QED
    BY <2>1, ElementOfSeq
<1>2. m \in Int /\ n \in Int
  OBVIOUS
<1>3. /\ SubSeq(s, m, n) \in Seq(S)
      /\ Len(SubSeq(s, m, n)) = IF m <= n THEN n - m + 1 ELSE 0
      /\ \A i \in 1 .. n - m + 1 : SubSeq(s, m, n)[i] = s[m + i - 1]
  BY <1>1, <1>2, SubSeqProperties
<1>4. \A i \in 1 .. n - m + 1 : m + i - 1 \in 1 .. Len(s)
  BY LenProperties
<1> QED
  BY <1>3, <1>4

(* Newest keeps a suffix as long as the limit allows.                      *)
LEMMA NewestProperties ==
  ASSUME NEW S, NEW s \in Seq(S), NEW limit \in Nat
  PROVE  LET kept == IF Len(s) > limit THEN limit ELSE Len(s)
         IN /\ kept \in Nat
            /\ Newest(s, limit) \in Seq(S)
            /\ Len(Newest(s, limit)) = kept
            /\ \A i \in 1 .. kept :
                 /\ Len(s) - kept + i \in 1 .. Len(s)
                 /\ Newest(s, limit)[i] = s[Len(s) - kept + i]
<1>1. Len(s) \in Nat
  BY LenProperties
<1>2. CASE Len(s) > limit
  <2> DEFINE m == Len(s) - limit + 1
  <2>1. m \in Nat \ {0} /\ m <= Len(s) + 1 /\ Len(s) <= Len(s)
    BY <1>1, <1>2
  <2>2. Newest(s, limit) = SubSeq(s, m, Len(s))
    BY <1>2 DEF Newest
  <2> HIDE DEF m
  <2>3. /\ SubSeq(s, m, Len(s)) \in Seq(S)
        /\ Len(SubSeq(s, m, Len(s))) = Len(s) - m + 1
        /\ \A i \in 1 .. Len(s) - m + 1 :
             m + i - 1 \in 1 .. Len(s) /\ SubSeq(s, m, Len(s))[i] = s[m + i - 1]
    BY <1>1, <2>1, SubSeqInside
  <2>4. Len(s) - m + 1 = limit /\ \A i \in 1 .. limit : m + i - 1 = Len(s) - limit + i
    BY <1>1 DEF m
  <2> QED
    BY <1>2, <2>2, <2>3, <2>4
<1>3. CASE ~(Len(s) > limit)
  BY <1>1, <1>3 DEF Newest
<1> QED
  BY <1>2, <1>3

(* What a stack gives back and what is left of it.                         *)
LEMMA FrontLastProperties ==
  ASSUME NEW S, NEW s \in Seq(S), s # <<>>
  PROVE  /\ Len(s) \in Nat \ {0}
         /\ Last(s) \in S
         /\ Front(s) \in Seq(S)
         /\ Len(Front(s)) = Len(s) - 1
         /\ \A i \in 1 .. Len(s) - 1 : i \in 1 .. Len(s) /\ Front(s)[i] = s[i]
<1>1. Len(s) \in Nat \ {0}
  BY EmptySeq
<1>2. Last(s) \in S
  BY <1>1, ElementOfSeq DEF Last
<1> DEFINE n == Len(s) - 1
<1>3. n \in Nat /\ 1 \in Nat \ {0} /\ 1 <= n + 1 /\ n <= Len(s) /\ n - 1 + 1 = n
  BY <1>1
<1>4. Front(s) = SubSeq(s, 1, n)
  BY DEF Front
<1> HIDE DEF n
<1>5. /\ SubSeq(s, 1, n) \in Seq(S)
      /\ Len(SubSeq(s, 1, n)) = n
      /\ \A i \in 1 .. n : 1 + i - 1 \in 1 .. Len(s) /\ SubSeq(s, 1, n)[i] = s[1 + i - 1]
  BY <1>3, SubSeqInside
<1>6. \A i \in 1 .. n : 1 + i - 1 = i
  BY <1>3
<1> QED
  BY <1>1, <1>2, <1>4, <1>5, <1>6 DEF n

(* Reading any file gives a catalog or fails.                              *)
LEMMA OpenedInRange ==
  ASSUME NEW p \in Paths, NEW store \in [Paths -> File \union {Absent}]
  PROVE  Opened(p, store) \in Catalogs \union {Failure}
BY CatalogAssumption DEF Opened, Load, File

(* Loading a file under any suffix gives a catalog or fails.              *)
LEMMA LoadInRange ==
  ASSUME NEW p \in Paths, NEW file \in File
  PROVE  Load(Suffix[p], file) \in Catalogs \union {Failure}
BY CatalogAssumption DEF Load, File

(* A working path that has just been saved to reads back what was saved.   *)
LEMMA SavedReadsBack ==
  ASSUME NEW p \in Paths, NEW c \in Catalogs, IsWorkingFormat(p),
         NEW store \in [Paths -> File \union {Absent}], store[p] = JsonFile(c)
  PROVE  Opened(p, store) = c
<1>1. JsonFile(c) \in File
  BY DEF JsonFile, FileOf, File, Formats
<1>2. store[p] # Absent
  BY <1>1, AbsentAssumption
<1> QED
  BY <1>2 DEF Opened, Load, IsWorkingFormat, JsonFile, FileOf

(* Whatever is installed at a path, the disk stays a disk.                 *)
LEMMA InstallType ==
  ASSUME disk \in [Paths -> File \union {Absent}],
         NEW p \in Paths, NEW file \in File, NEW result, Install(p, file, result)
  PROVE  disk' \in [Paths -> File \union {Absent}]
BY DEF Install

(* A catalog written in any format is a file.                              *)
LEMMA FileOfType ==
  ASSUME NEW f \in Formats, NEW c \in Catalogs
  PROVE  FileOf(f, c) \in File
BY DEF FileOf, File

(* A catalog saved as JSON is a file.                                      *)
LEMMA JsonFileType ==
  ASSUME NEW c \in Catalogs
  PROVE  JsonFile(c) \in File
BY FileOfType DEF JsonFile, Formats

(* Pushing the current catalog on a stack and trimming it.                 *)
LEMMA PushProperties ==
  ASSUME NEW S, NEW stack \in Seq(S), NEW c \in S, NEW limit \in Nat
  PROVE  /\ Newest(Append(stack, c), limit) \in Seq(S)
         /\ Len(Newest(Append(stack, c), limit)) <= limit
         /\ Len(Newest(Append(stack, c), limit)) <= Len(stack) + 1
<1> DEFINE longer == Append(stack, c)
<1>1. longer \in Seq(S) /\ Len(longer) = Len(stack) + 1 /\ Len(stack) \in Nat
  BY AppendProperties, LenProperties
<1> HIDE DEF longer
<1>2. limit \in Nat /\ longer \in Seq(S)
  BY <1>1
<1> DEFINE kept == IF Len(longer) > limit THEN limit ELSE Len(longer)
<1>3. /\ kept \in Nat
      /\ Newest(longer, limit) \in Seq(S)
      /\ Len(Newest(longer, limit)) = kept
      /\ \A i \in 1 .. kept :
           /\ Len(longer) - kept + i \in 1 .. Len(longer)
           /\ Newest(longer, limit)[i] = longer[Len(longer) - kept + i]
  BY <1>2, NewestProperties
<1>4. kept <= limit /\ kept <= Len(stack) + 1
  BY <1>1
<1> HIDE DEF kept
<1> QED
  BY <1>1, <1>3, <1>4 DEF longer

(* A history limit is a positive number.                                   *)
LEMMA LimitsAreNat == Limits \subseteq Nat \ {0}
BY HistoryLimitAssumption DEF Limits

-----------------------------------------------------------------------------
(* Adopting a catalog gives a session with no history.                     *)
LEMMA AdoptType ==
  ASSUME TypeOK, NEW p \in Paths, NEW c \in Catalogs, Adopt(p, c)
  PROVE  /\ path' \in Paths
         /\ catalog' \in Catalogs
         /\ undo' \in Seq(Catalogs)
         /\ redo' \in Seq(Catalogs)
         /\ persisted' \subseteq Catalogs
         /\ disturbed' \in BOOLEAN
BY EmptySeq DEF TypeOK, Adopt

(* Mutations, undo and redo preserve the types.                            *)
LEMMA EditType ==
  ASSUME TypeOK, Edit
  PROVE  TypeOK'
<1> USE DEF TypeOK
<1>1. history_limit \in Nat
  BY LimitsAreNat
<1>2. ASSUME NEW result \in Results, NEW c \in Catalogs, Persist(c, result)
      PROVE  TypeOK'
  <2>1. disk' \in [Paths -> File \union {Absent}]
    BY <1>2, JsonFileType, InstallType DEF Persist
  <2>2. disturbed' \in BOOLEAN
    BY <1>2 DEF Persist, Disturb
  <2>3. Newest(Append(undo, catalog), history_limit) \in Seq(Catalogs)
    BY <1>1, PushProperties
  <2> QED
    BY <1>2, <2>1, <2>2, <2>3, EmptySeq DEF Persist
<1>3. ASSUME NEW result \in Results, Undo(result)
      PROVE  TypeOK'
  <2>1. Last(undo) \in Catalogs /\ Front(undo) \in Seq(Catalogs)
    BY <1>3, FrontLastProperties DEF Undo
  <2>2. disk' \in [Paths -> File \union {Absent}]
    BY <1>3, <2>1, JsonFileType, InstallType DEF Undo
  <2>3. disturbed' \in BOOLEAN
    BY <1>3 DEF Undo, Disturb
  <2>4. Newest(Append(redo, catalog), history_limit) \in Seq(Catalogs)
    BY <1>1, PushProperties
  <2> QED
    BY <1>3, <2>1, <2>2, <2>3, <2>4 DEF Undo
<1>4. ASSUME NEW result \in Results, Redo(result)
      PROVE  TypeOK'
  <2>1. Last(redo) \in Catalogs /\ Front(redo) \in Seq(Catalogs)
    BY <1>4, FrontLastProperties DEF Redo
  <2>2. disk' \in [Paths -> File \union {Absent}]
    BY <1>4, <2>1, JsonFileType, InstallType DEF Redo
  <2>3. disturbed' \in BOOLEAN
    BY <1>4 DEF Redo, Disturb
  <2>4. Newest(Append(undo, catalog), history_limit) \in Seq(Catalogs)
    BY <1>1, PushProperties
  <2> QED
    BY <1>4, <2>1, <2>2, <2>3, <2>4 DEF Redo
<1> QED
  BY <1>2, <1>3, <1>4 DEF Edit

(* So do the operations on whole files.                                    *)
LEMMA FileOperationType ==
  ASSUME TypeOK, FileOperation
  PROVE  TypeOK'
<1> USE DEF TypeOK
<1>1. ASSUME Reload
      PROVE  TypeOK'
  BY <1>1, OpenedInRange, AdoptType DEF Reload
<1>2. ASSUME NEW p \in Paths, Open(p)
      PROVE  TypeOK'
  BY <1>2, OpenedInRange, AdoptType DEF Open
<1>3. ASSUME NEW p \in Paths, NEW result \in Results, SaveAs(p, result)
      PROVE  TypeOK'
  <2>1. disk' \in [Paths -> File \union {Absent}]
    BY <1>3, JsonFileType, InstallType DEF SaveAs
  <2>2. disturbed' \in BOOLEAN
    BY <1>3 DEF SaveAs, Disturb
  <2> QED
    BY <1>3, <2>1, <2>2 DEF SaveAs
<1>4. ASSUME NEW p \in Paths, NEW result \in Results, Backup(p, result)
      PROVE  TypeOK'
  <2>1. disk[path] \in File
    BY <1>4 DEF Backup, ValidatedCopy
  <2>2. disk' \in [Paths -> File \union {Absent}]
    BY <1>4, <2>1, InstallType DEF Backup
  <2> QED
    BY <1>4, <2>2 DEF Backup, session
<1>5. ASSUME NEW p \in Paths, NEW result \in Results, Restore(p, result)
      PROVE  TypeOK'
  <2>1. disk[p] \in File
    BY <1>5 DEF Restore, ValidatedCopy
  <2>2. disk' \in [Paths -> File \union {Absent}]
    BY <1>5, <2>1, InstallType DEF Restore
  <2>3. CASE result = "ok" /\ Opened(path, disk') # Failure
    <3>1. Opened(path, disk') \in Catalogs
      BY <2>2, <2>3, OpenedInRange
    <3> QED
      BY <1>5, <2>2, <2>3, <3>1, AdoptType DEF Restore
  <2>4. CASE ~(result = "ok" /\ Opened(path, disk') # Failure)
    BY <1>5, <2>2, <2>4 DEF Restore, session
  <2> QED
    BY <2>3, <2>4
<1>6. ASSUME NEW p \in Paths, NEW result \in Results,
             NEW f \in Formats, NEW c \in Catalogs, Export(p, f, c, result)
      PROVE  TypeOK'
  <2>1. disk' \in [Paths -> File \union {Absent}]
    BY <1>6, FileOfType, InstallType DEF Export
  <2> QED
    BY <1>6, <2>1 DEF Export, session
<1> QED
  BY <1>1, <1>2, <1>3, <1>4, <1>5, <1>6 DEF FileOperation, Save

(* So does everything other processes and the user do.                     *)
LEMMA EnvironmentType ==
  ASSUME TypeOK, Environment
  PROVE  TypeOK'
<1> USE DEF TypeOK
<1>1. ASSUME NEW p \in Paths, Restart(p)
      PROVE  TypeOK'
  BY <1>1, OpenedInRange, AdoptType DEF Restart
<1>2. ASSUME NEW p \in Paths, Delete(p)
      PROVE  TypeOK'
  BY <1>2 DEF Delete, session
<1>3. ASSUME NEW p \in Paths, NEW c \in Catalogs, OtherSaves(p, c)
      PROVE  TypeOK'
  BY <1>3, JsonFileType DEF OtherSaves, session
<1>4. ASSUME NEW p \in Paths, NEW origin \in Paths, RestoreTo(origin, p)
      PROVE  TypeOK'
  BY <1>4 DEF RestoreTo, session
<1>5. ASSUME NEW p \in Paths, NEW origin \in Paths, ConvertTo(origin, p)
      PROVE  TypeOK'
  <2>1. disk[origin] \in File
    BY <1>5 DEF ConvertTo
  <2>2. Load(Suffix[origin], disk[origin]) \in Catalogs
    BY <1>5, <2>1, LoadInRange DEF ConvertTo
  <2> QED
    BY <1>5, <2>2, JsonFileType DEF ConvertTo, session
<1> QED
  BY <1>1, <1>2, <1>3, <1>4, <1>5 DEF Environment

(* Every variable of the service has its type in every reachable state.    *)
THEOREM TypeCorrect == Spec => []TypeOK
<1>1. Init => TypeOK
  <2> SUFFICES ASSUME Init
               PROVE  TypeOK
    OBVIOUS
  <2>1. catalog \in Catalogs
    BY OpenedInRange DEF Init
  <2> QED
    BY <2>1, EmptySeq DEF Init, TypeOK
<1>2. TypeOK /\ [Next]_vars => TypeOK'
  <2> SUFFICES ASSUME TypeOK, [Next]_vars
               PROVE  TypeOK'
    OBVIOUS
  <2>1. CASE Edit
    BY <2>1, EditType
  <2>2. CASE FileOperation
    BY <2>2, FileOperationType
  <2>3. CASE Environment
    BY <2>3, EnvironmentType
  <2>4. ASSUME NEW n \in Limits, SetHistoryLimit(n)
        PROVE  TypeOK'
    BY <2>4 DEF SetHistoryLimit, TypeOK
  <2>5. CASE UNCHANGED vars
    BY <2>5 DEF vars, TypeOK
  <2> QED
    BY <2>1, <2>2, <2>3, <2>4, <2>5 DEF Next
<1> QED
  BY <1>1, <1>2, PTL DEF Spec

-----------------------------------------------------------------------------
(* What a step can do to the session: an edit, an undo, a redo, the        *)
(* adoption of another catalog, or nothing to the catalog and its history. *)
LEMMA SessionStep ==
  ASSUME TypeOK, [Next]_vars
  PROVE  \/ \E c \in Catalogs, result \in Results : Persist(c, result)
         \/ \E result \in Results : Undo(result)
         \/ \E result \in Results : Redo(result)
         \/ \E p \in Paths, c \in Catalogs : Adopt(p, c) /\ history_limit' \in Limits
         \/ /\ UNCHANGED <<catalog, undo, redo>>
            /\ persisted \subseteq persisted'
            /\ path' = path \/ IsWorkingFormat(path')
            /\ history_limit' \in Limits
<1> DEFINE Adopts == \E p \in Paths, c \in Catalogs : Adopt(p, c) /\ history_limit' \in Limits
           Quiet == /\ UNCHANGED <<catalog, undo, redo>>
                    /\ persisted \subseteq persisted'
                    /\ path' = path \/ IsWorkingFormat(path')
                    /\ history_limit' \in Limits
<1>1. TypeOK /\ TypeOK'
  BY EditType, FileOperationType, EnvironmentType DEF Next, vars, SetHistoryLimit, TypeOK
<1>2. CASE FileOperation
  <2>1. ASSUME Reload
        PROVE  Adopts
    BY <1>1, <2>1, OpenedInRange DEF Reload, TypeOK
  <2>2. ASSUME NEW p \in Paths, Open(p)
        PROVE  Adopts
    BY <1>1, <2>2, OpenedInRange DEF Open, TypeOK
  <2>3. ASSUME NEW p \in Paths, NEW result \in Results, SaveAs(p, result)
        PROVE  Quiet
    BY <1>1, <2>3 DEF SaveAs, TypeOK
  <2>4. ASSUME NEW p \in Paths, NEW result \in Results, Backup(p, result)
        PROVE  Quiet
    BY <1>1, <2>4 DEF Backup, session, TypeOK
  <2>5. ASSUME NEW p \in Paths, NEW result \in Results, Restore(p, result)
        PROVE  Adopts \/ Quiet
    <3>1. CASE result = "ok" /\ Opened(path, disk') # Failure
      BY <1>1, <2>5, <3>1, OpenedInRange DEF Restore, TypeOK
    <3>2. CASE ~(result = "ok" /\ Opened(path, disk') # Failure)
      BY <1>1, <2>5, <3>2 DEF Restore, session, TypeOK
    <3> QED
      BY <3>1, <3>2
  <2>6. ASSUME NEW p \in Paths, NEW result \in Results,
               NEW f \in Formats, NEW c \in Catalogs, Export(p, f, c, result)
        PROVE  Quiet
    BY <1>1, <2>6 DEF Export, session, TypeOK
  <2> HIDE DEF Adopts, Quiet
  <2>7. Adopts \/ Quiet
    BY <1>1, <1>2, <2>1, <2>2, <2>3, <2>4, <2>5, <2>6 DEF FileOperation, Save, TypeOK
  <2> QED
    BY <2>7 DEF Adopts, Quiet
<1>3. CASE Environment
  <2>1. ASSUME NEW p \in Paths, Restart(p)
        PROVE  Adopts
    BY <1>1, <2>1, OpenedInRange DEF Restart, TypeOK
  <2>2. ASSUME NEW p \in Paths, NEW origin \in Paths, NEW c \in Catalogs,
               Delete(p) \/ OtherSaves(p, c) \/ RestoreTo(origin, p) \/ ConvertTo(origin, p)
        PROVE  Quiet
    BY <1>1, <2>2 DEF Delete, OtherSaves, RestoreTo, ConvertTo, session, TypeOK
  <2>3. \A p \in Paths : \E c \in Catalogs : TRUE
    BY <1>1 DEF TypeOK
  <2> HIDE DEF Adopts, Quiet
  <2>4. Adopts \/ Quiet
    BY <1>3, <2>1, <2>2, <2>3 DEF Environment
  <2> QED
    BY <2>4 DEF Adopts, Quiet
<1>4. CASE Edit
  BY <1>4 DEF Edit
<1>5. CASE \E n \in Limits : SetHistoryLimit(n)
  BY <1>5 DEF SetHistoryLimit
<1>6. CASE UNCHANGED vars
  BY <1>1, <1>6 DEF vars, TypeOK
<1> QED
  BY <1>2, <1>3, <1>4, <1>5, <1>6 DEF Next

(* However the limit is moved, the two stacks together stay within the     *)
(* largest one: del self._undo[: -self.history_limit] after every push is  *)
(* enough, although nothing trims the stacks when the limit is lowered.    *)
THEOREM HistoryStaysBounded == Spec => []HistoryBounded
<1>1. Init => HistoryBounded
  BY HistoryLimitAssumption, EmptySeq DEF Init, HistoryBounded
<1>2. TypeOK /\ HistoryBounded /\ [Next]_vars => HistoryBounded'
  <2> SUFFICES ASSUME TypeOK, HistoryBounded, [Next]_vars
               PROVE  HistoryBounded'
    OBVIOUS
  <2>1. /\ Len(undo) \in Nat /\ Len(redo) \in Nat /\ Len(<<>>) = 0
        /\ history_limit \in Nat /\ history_limit <= MaxHistoryLimit
        /\ MaxHistoryLimit \in Nat
    BY LenProperties, EmptySeq, HistoryLimitAssumption DEF TypeOK, Limits
  <2>2. ASSUME NEW c \in Catalogs, NEW result \in Results, Persist(c, result)
        PROVE  HistoryBounded'
    <3>1. /\ Len(Newest(Append(undo, catalog), history_limit)) \in Nat
          /\ Len(Newest(Append(undo, catalog), history_limit)) <= history_limit
      BY <2>1, PushProperties, LenProperties DEF TypeOK
    <3> QED
      BY <2>1, <2>2, <3>1 DEF Persist, HistoryBounded
  <2>3. ASSUME NEW result \in Results, Undo(result)
        PROVE  HistoryBounded'
    <3>1. /\ Len(Newest(Append(redo, catalog), history_limit)) \in Nat
          /\ Len(Newest(Append(redo, catalog), history_limit)) <= Len(redo) + 1
      BY <2>1, PushProperties, LenProperties DEF TypeOK
    <3>2. Len(Front(undo)) = Len(undo) - 1
      BY <2>3, FrontLastProperties DEF Undo, TypeOK
    <3> QED
      BY <2>1, <2>3, <3>1, <3>2 DEF Undo, HistoryBounded
  <2>4. ASSUME NEW result \in Results, Redo(result)
        PROVE  HistoryBounded'
    <3>1. /\ Len(Newest(Append(undo, catalog), history_limit)) \in Nat
          /\ Len(Newest(Append(undo, catalog), history_limit)) <= Len(undo) + 1
      BY <2>1, PushProperties, LenProperties DEF TypeOK
    <3>2. Len(Front(redo)) = Len(redo) - 1
      BY <2>4, FrontLastProperties DEF Redo, TypeOK
    <3> QED
      BY <2>1, <2>4, <3>1, <3>2 DEF Redo, HistoryBounded
  <2>5. ASSUME NEW p \in Paths, NEW c \in Catalogs, Adopt(p, c)
        PROVE  HistoryBounded'
    BY <2>1, <2>5 DEF Adopt, HistoryBounded
  <2>6. CASE UNCHANGED <<catalog, undo, redo>>
    BY <2>6 DEF HistoryBounded
  <2> QED
    BY <2>2, <2>3, <2>4, <2>5, <2>6, SessionStep
<1> QED
  BY <1>1, <1>2, TypeCorrect, PTL DEF Spec

(* Undo and redo are never refused because of the format of the path: a    *)
(* history exists only over a working file, whatever was opened, restored  *)
(* or saved as since.                                                      *)
THEOREM HistoryStaysWritable == Spec => []HistoryIsWritable
<1>1. Init => HistoryIsWritable
  BY DEF Init, HistoryIsWritable
<1>2. TypeOK /\ HistoryIsWritable /\ [Next]_vars => HistoryIsWritable'
  <2> SUFFICES ASSUME TypeOK, HistoryIsWritable, [Next]_vars
               PROVE  HistoryIsWritable'
    OBVIOUS
  <2>1. ASSUME NEW c \in Catalogs, NEW result \in Results,
               Persist(c, result) \/ Undo(result) \/ Redo(result)
        PROVE  HistoryIsWritable'
    BY <2>1 DEF Persist, Undo, Redo, HistoryIsWritable, IsWorkingFormat
  <2>2. ASSUME NEW p \in Paths, NEW c \in Catalogs, Adopt(p, c)
        PROVE  HistoryIsWritable'
    BY <2>2 DEF Adopt, HistoryIsWritable
  <2>3. CASE UNCHANGED <<catalog, undo, redo>> /\ (path' = path \/ IsWorkingFormat(path'))
    BY <2>3 DEF HistoryIsWritable, IsWorkingFormat
  <2>4. catalog \in Catalogs
    BY DEF TypeOK
  <2> QED
    BY <2>1, <2>2, <2>3, <2>4, SessionStep
<1> QED
  BY <1>1, <1>2, TypeCorrect, PTL DEF Spec

(* PublishedWasPersisted, place by place.                                  *)
LEMMA PublishedPointwise ==
  ASSUME TypeOK
  PROVE  PublishedWasPersisted <=>
           /\ catalog \in persisted
           /\ \A i \in 1 .. Len(undo) : undo[i] \in persisted
           /\ \A i \in 1 .. Len(redo) : redo[i] \in persisted
<1>1. DOMAIN undo = 1 .. Len(undo) /\ DOMAIN redo = 1 .. Len(redo)
  BY LenProperties DEF TypeOK
<1>2. /\ Range(undo) \subseteq persisted <=> \A i \in 1 .. Len(undo) : undo[i] \in persisted
      /\ Range(redo) \subseteq persisted <=> \A i \in 1 .. Len(redo) : redo[i] \in persisted
  BY <1>1, Zenon DEF Range
<1> QED
  BY <1>2 DEF PublishedWasPersisted

(* A push keeps a stack inside the set of persisted catalogs.              *)
LEMMA PushedArePersisted ==
  ASSUME NEW S, NEW stack \in Seq(S), NEW c \in S, NEW limit \in Nat, NEW P,
         c \in P, \A i \in 1 .. Len(stack) : stack[i] \in P
  PROVE  \A i \in 1 .. Len(Newest(Append(stack, c), limit)) :
           Newest(Append(stack, c), limit)[i] \in P
<1> DEFINE longer == Append(stack, c)
<1>1. longer \in Seq(S) /\ \A j \in 1 .. Len(longer) : longer[j] \in P
  BY AppendProperties, LenProperties
<1> HIDE DEF longer
<1> DEFINE kept == IF Len(longer) > limit THEN limit ELSE Len(longer)
<1>2. /\ Len(Newest(longer, limit)) = kept
      /\ \A i \in 1 .. kept :
           /\ Len(longer) - kept + i \in 1 .. Len(longer)
           /\ Newest(longer, limit)[i] = longer[Len(longer) - kept + i]
  BY <1>1, NewestProperties
<1> HIDE DEF kept
<1> QED
  BY <1>1, <1>2 DEF longer

(* docs/architecture.md:31: the candidate is published only after it was   *)
(* saved, so neither the display nor the history holds a catalog that no   *)
(* file of this service ever held.                                         *)
THEOREM OnlyPersistedIsPublished == Spec => []PublishedWasPersisted
<1>1. Init => PublishedWasPersisted
  BY DEF Init, PublishedWasPersisted, Range
<1>2. TypeOK /\ PublishedWasPersisted /\ [Next]_vars => PublishedWasPersisted'
  <2> SUFFICES ASSUME TypeOK, PublishedWasPersisted, [Next]_vars
               PROVE  PublishedWasPersisted'
    OBVIOUS
  <2> DEFINE AllPersisted == /\ catalog \in persisted
                             /\ \A i \in 1 .. Len(undo) : undo[i] \in persisted
                             /\ \A i \in 1 .. Len(redo) : redo[i] \in persisted
  <2>1. AllPersisted /\ history_limit \in Nat
    BY PublishedPointwise, LimitsAreNat DEF TypeOK
  <2>2. TypeOK'
    BY EditType, FileOperationType, EnvironmentType DEF Next, vars, SetHistoryLimit, TypeOK
  <2>3. AllPersisted' => PublishedWasPersisted'
    BY <2>2, PublishedPointwise, PTL
  <2>4. Len(<<>>) = 0
    OBVIOUS
  <2>5. ASSUME NEW c \in Catalogs, NEW result \in Results, Persist(c, result)
        PROVE  AllPersisted'
    <3>1. \A i \in 1 .. Len(Newest(Append(undo, catalog), history_limit)) :
            Newest(Append(undo, catalog), history_limit)[i] \in persisted
      BY <2>1, PushedArePersisted DEF TypeOK
    <3> QED
      BY <2>1, <2>4, <2>5, <3>1 DEF Persist
  <2>6. ASSUME NEW result \in Results, Undo(result)
        PROVE  AllPersisted'
    <3>1. \A i \in 1 .. Len(Newest(Append(redo, catalog), history_limit)) :
            Newest(Append(redo, catalog), history_limit)[i] \in persisted
      BY <2>1, PushedArePersisted DEF TypeOK
    <3>2. /\ Len(undo) \in Nat \ {0}
          /\ Len(Front(undo)) = Len(undo) - 1
          /\ \A i \in 1 .. Len(undo) - 1 : i \in 1 .. Len(undo) /\ Front(undo)[i] = undo[i]
      BY <2>6, FrontLastProperties DEF Undo, TypeOK
    <3>3. Last(undo) \in persisted
      BY <2>1, <3>2 DEF Last
    <3>4. \A i \in 1 .. Len(Front(undo)) : Front(undo)[i] \in persisted
      BY <2>1, <3>2
    <3> QED
      BY <2>1, <2>6, <3>1, <3>3, <3>4 DEF Undo
  <2>7. ASSUME NEW result \in Results, Redo(result)
        PROVE  AllPersisted'
    <3>1. \A i \in 1 .. Len(Newest(Append(undo, catalog), history_limit)) :
            Newest(Append(undo, catalog), history_limit)[i] \in persisted
      BY <2>1, PushedArePersisted DEF TypeOK
    <3>2. /\ Len(redo) \in Nat \ {0}
          /\ Len(Front(redo)) = Len(redo) - 1
          /\ \A i \in 1 .. Len(redo) - 1 : i \in 1 .. Len(redo) /\ Front(redo)[i] = redo[i]
      BY <2>7, FrontLastProperties DEF Redo, TypeOK
    <3>3. Last(redo) \in persisted
      BY <2>1, <3>2 DEF Last
    <3>4. \A i \in 1 .. Len(Front(redo)) : Front(redo)[i] \in persisted
      BY <2>1, <3>2
    <3> QED
      BY <2>1, <2>7, <3>1, <3>3, <3>4 DEF Redo
  <2>8. ASSUME NEW p \in Paths, NEW c \in Catalogs, Adopt(p, c)
        PROVE  AllPersisted'
    BY <2>4, <2>8 DEF Adopt
  <2>9. ASSUME UNCHANGED <<catalog, undo, redo>>, persisted \subseteq persisted'
        PROVE  AllPersisted'
    BY <2>1, <2>9
  <2> HIDE DEF AllPersisted
  <2> QED
    BY <2>3, <2>5, <2>6, <2>7, <2>8, <2>9, SessionStep
<1> QED
  BY <1>1, <1>2, TypeCorrect, PTL DEF Spec

-----------------------------------------------------------------------------
(* A call that saves to the service's path displays what it saved, or      *)
(* leaves the display and the file alone, or admits to have disturbed it.  *)
LEMMA SavingMatches ==
  ASSUME TypeOK, NEW c \in Catalogs, NEW result \in Results,
         DisplayMatchesFile, IsWorkingFormat(path), UNCHANGED path,
         Install(path, JsonFile(c), result), Disturb(path, result),
         catalog' = IF result = "ok" THEN c ELSE catalog
  PROVE  DisplayMatchesFile'
<1>1. CASE result = "ok"
  <2>1. disk'[path] = JsonFile(c) /\ disk' \in [Paths -> File \union {Absent}]
    BY <1>1, JsonFileType DEF Install, TypeOK
  <2>2. Opened(path, disk') = c
    BY <2>1, SavedReadsBack DEF TypeOK
  <2> QED
    BY <1>1, <2>2 DEF DisplayMatchesFile
<1>2. CASE result = "raised_before_replace"
  BY <1>2 DEF Install, Disturb, DisplayMatchesFile
<1>3. CASE result = "raised_after_replace"
  BY <1>3 DEF Disturb, DisplayMatchesFile
<1> QED
  BY <1>1, <1>2, <1>3 DEF Results

(* A write to another path does not matter to the display.                 *)
LEMMA ElsewhereMatches ==
  ASSUME TypeOK, DisplayMatchesFile, disk'[path] = disk[path],
         UNCHANGED <<path, catalog>>, disturbed' = disturbed
  PROVE  DisplayMatchesFile'
BY DEF DisplayMatchesFile, Opened

(* What is displayed is what the file says, unless something else changed  *)
(* the file or a call that raised had already replaced it.                 *)
THEOREM DisplayIsTheFile == Spec => []DisplayMatchesFile
<1>1. Init => DisplayMatchesFile
  BY DEF Init, DisplayMatchesFile
<1>2. TypeOK /\ DisplayMatchesFile /\ [Next]_vars => DisplayMatchesFile'
  <2> SUFFICES ASSUME TypeOK, DisplayMatchesFile, [Next]_vars
               PROVE  DisplayMatchesFile'
    OBVIOUS
  <2>1. CASE Edit
    <3>1. ASSUME NEW result \in Results, NEW c \in Catalogs, Persist(c, result)
          PROVE  DisplayMatchesFile'
      BY <3>1, SavingMatches DEF Persist
    <3>2. ASSUME NEW result \in Results, Undo(result)
          PROVE  DisplayMatchesFile'
      <4>1. Last(undo) \in Catalogs
        BY <3>2, FrontLastProperties DEF Undo, TypeOK
      <4> QED
        BY <3>2, <4>1, SavingMatches DEF Undo
    <3>3. ASSUME NEW result \in Results, Redo(result)
          PROVE  DisplayMatchesFile'
      <4>1. Last(redo) \in Catalogs
        BY <3>3, FrontLastProperties DEF Redo, TypeOK
      <4> QED
        BY <3>3, <4>1, SavingMatches DEF Redo
    <3> QED
      BY <2>1, <3>1, <3>2, <3>3 DEF Edit
  <2>2. CASE FileOperation
    <3>1. CASE Reload
      BY <3>1 DEF Reload, Adopt, DisplayMatchesFile
    <3>2. ASSUME NEW p \in Paths, Open(p)
          PROVE  DisplayMatchesFile'
      BY <3>2 DEF Open, Adopt, DisplayMatchesFile
    <3>3. ASSUME NEW p \in Paths, NEW result \in Results, SaveAs(p, result)
          PROVE  DisplayMatchesFile'
      <4>1. CASE result = "ok"
        <5>1. disk'[p] = JsonFile(catalog) /\ disk' \in [Paths -> File \union {Absent}]
          BY <3>3, <4>1, JsonFileType DEF SaveAs, Install, TypeOK
        <5>2. Opened(p, disk') = catalog
          BY <3>3, <5>1, SavedReadsBack DEF SaveAs, TypeOK
        <5> QED
          BY <3>3, <4>1, <5>2 DEF SaveAs, DisplayMatchesFile
      <4>2. CASE result # "ok" /\ p = path
        BY <3>3, <4>2, SavingMatches DEF SaveAs, TypeOK
      <4>3. CASE result # "ok" /\ p # path
        BY <3>3, <4>3, ElsewhereMatches DEF SaveAs, Install, Disturb, TypeOK
      <4> QED
        BY <4>1, <4>2, <4>3
    <3>4. ASSUME NEW p \in Paths, NEW result \in Results, Backup(p, result)
          PROVE  DisplayMatchesFile'
      BY <3>4, ElsewhereMatches DEF Backup, Install, session, TypeOK
    <3>5. ASSUME NEW p \in Paths, NEW result \in Results, Restore(p, result)
          PROVE  DisplayMatchesFile'
      <4>1. CASE result = "ok" /\ Opened(path, disk') # Failure
        BY <3>5, <4>1 DEF Restore, Adopt, DisplayMatchesFile
      <4>2. CASE ~(result = "ok" /\ Opened(path, disk') # Failure)
        BY <3>5, <4>2 DEF Restore, session, DisplayMatchesFile
      <4> QED
        BY <4>1, <4>2
    <3>6. ASSUME NEW p \in Paths, NEW result \in Results,
                 NEW f \in Formats, NEW c \in Catalogs, Export(p, f, c, result)
          PROVE  DisplayMatchesFile'
      BY <3>6 DEF Export, Install, session, DisplayMatchesFile, Opened, TypeOK
    <3> QED
      BY <2>2, <3>1, <3>2, <3>3, <3>4, <3>5, <3>6 DEF FileOperation, Save, TypeOK
  <2>3. CASE Environment
    <3>1. ASSUME NEW p \in Paths, Restart(p)
          PROVE  DisplayMatchesFile'
      BY <3>1 DEF Restart, Adopt, DisplayMatchesFile
    <3>2. ASSUME NEW p \in Paths, NEW origin \in Paths, NEW c \in Catalogs,
                 Delete(p) \/ OtherSaves(p, c) \/ RestoreTo(origin, p) \/ ConvertTo(origin, p)
          PROVE  DisplayMatchesFile'
      <4>1. CASE p = path
        BY <3>2, <4>1 DEF Delete, OtherSaves, RestoreTo, ConvertTo, DisplayMatchesFile
      <4>2. CASE p # path
        BY <3>2, <4>2, ElsewhereMatches
           DEF Delete, OtherSaves, RestoreTo, ConvertTo, session, TypeOK
      <4> QED
        BY <4>1, <4>2
    <3>3. catalog \in Catalogs
      BY DEF TypeOK
    <3> QED
      BY <2>3, <3>1, <3>2, <3>3 DEF Environment
  <2>4. ASSUME NEW n \in Limits, SetHistoryLimit(n)
        PROVE  DisplayMatchesFile'
    BY <2>4 DEF SetHistoryLimit, DisplayMatchesFile
  <2>5. CASE UNCHANGED vars
    BY <2>5 DEF vars, DisplayMatchesFile
  <2> QED
    BY <2>1, <2>2, <2>3, <2>4, <2>5 DEF Next
<1> QED
  BY <1>1, <1>2, TypeCorrect, PTL DEF Spec

-----------------------------------------------------------------------------
(***************************************************************************)
(* Proof that the two stacks of the service implement one undoable         *)
(* document, for every set of catalogs and paths and every history limit.  *)
(*                                                                         *)
(* Sequences are compared place by place.  Line is the timeline that two   *)
(* stacks and a current value stand for; Agrees says which stack each of   *)
(* its places comes from, and NearestPast what trimming a stack leaves.    *)
(***************************************************************************)

Line(u, c, r) == Append(u, c) \o Reverse(r)

Agrees(t, u, c, r) ==
  /\ Len(t) = Len(u) + 1 + Len(r)
  /\ \A i \in 1 .. Len(u) : t[i] = u[i]
  /\ t[Len(u) + 1] = c
  /\ \A i \in 1 .. Len(r) : t[Len(u) + 1 + i] = r[Len(r) - i + 1]

NearestPast(past, u, c) ==
  /\ Len(past) <= Len(u) + 1
  /\ \A i \in 1 .. Len(past) : past[i] = Append(u, c)[Len(u) + 1 - Len(past) + i]

(* A stack with the current value pushed on it is one side of the line.    *)
Sides(t, u, c, r) ==
  /\ \A k \in 1 .. Len(u) + 1 : Append(u, c)[k] = t[k]
  /\ \A k \in 1 .. Len(r) + 1 : Append(r, c)[k] = t[Len(u) + Len(r) + 2 - k]

-----------------------------------------------------------------------------
(* A reversed sequence, place by place.                                    *)
LEMMA ReverseProperties ==
  ASSUME NEW S, NEW r \in Seq(S)
  PROVE  /\ Reverse(r) \in Seq(S)
         /\ Len(Reverse(r)) = Len(r)
         /\ \A i \in 1 .. Len(r) : Reverse(r)[i] = r[Len(r) - i + 1]
<1>1. Len(r) \in Nat /\ \A i \in 1 .. Len(r) : r[Len(r) - i + 1] \in S
  <2>1. \A i \in 1 .. Len(r) : Len(r) - i + 1 \in 1 .. Len(r)
    BY LenProperties
  <2> QED
    BY <2>1, LenProperties, ElementOfSeq
<1> QED
  BY <1>1 DEF Reverse

(* Each place of the line comes from the stack Agrees says it does.        *)
LEMMA LineProperties ==
  ASSUME NEW S, NEW u \in Seq(S), NEW c \in S, NEW r \in Seq(S)
  PROVE  /\ Line(u, c, r) \in Seq(S)
         /\ Agrees(Line(u, c, r), u, c, r)
<1> DEFINE a == Append(u, c)
           b == Reverse(r)
<1>1. /\ a \in Seq(S) /\ Len(a) = Len(u) + 1
      /\ \A i \in 1 .. Len(u) : a[i] = u[i]
      /\ a[Len(u) + 1] = c
      /\ Len(u) \in Nat /\ Len(r) \in Nat
  BY AppendProperties, LenProperties
<1>2. /\ b \in Seq(S) /\ Len(b) = Len(r)
      /\ \A i \in 1 .. Len(r) : b[i] = r[Len(r) - i + 1]
  BY ReverseProperties
<1>3. Line(u, c, r) = a \o b
  BY DEF Line
<1> HIDE DEF a, b
<1>4. /\ a \o b \in Seq(S)
      /\ Len(a \o b) = Len(a) + Len(b)
      /\ \A i \in 1 .. Len(a) + Len(b) : (a \o b)[i] = IF i <= Len(a) THEN a[i] ELSE b[i - Len(a)]
  <2>1. a \in Seq(S) /\ b \in Seq(S)
    BY <1>1, <1>2
  <2> QED
    BY <2>1, ConcatProperties
<1>5. \A i \in 1 .. Len(u) : i \in 1 .. Len(a) + Len(b) /\ i <= Len(a)
  BY <1>1, <1>2
<1>6. Len(u) + 1 \in 1 .. Len(a) + Len(b) /\ Len(u) + 1 <= Len(a)
  BY <1>1, <1>2
<1>7. \A i \in 1 .. Len(r) : /\ Len(u) + 1 + i \in 1 .. Len(a) + Len(b)
                             /\ ~(Len(u) + 1 + i <= Len(a))
                             /\ Len(u) + 1 + i - Len(a) = i
  BY <1>1, <1>2
<1>8. /\ \A i \in 1 .. Len(u) : (a \o b)[i] = u[i]
      /\ (a \o b)[Len(u) + 1] = c
  BY <1>1, <1>4, <1>5, <1>6
<1>9. \A i \in 1 .. Len(r) : (a \o b)[Len(u) + 1 + i] = r[Len(r) - i + 1]
  BY <1>2, <1>4, <1>7
<1>10. Agrees(a \o b, u, c, r)
  BY <1>1, <1>2, <1>4, <1>8, <1>9 DEF Agrees
<1> QED
  BY <1>3, <1>4, <1>10

(* Two timelines are equal when they agree on past, present and future.    *)
LEMMA LineEqual ==
  ASSUME NEW S, NEW u \in Seq(S), NEW c \in S, NEW r \in Seq(S), NEW t \in Seq(S),
         Agrees(t, u, c, r)
  PROVE  Line(u, c, r) = t
<1> DEFINE l == Line(u, c, r)
<1>1. l \in Seq(S) /\ Agrees(l, u, c, r) /\ Len(u) \in Nat /\ Len(r) \in Nat
  BY LineProperties, LenProperties
<1> HIDE DEF l
<1>2. ASSUME NEW i \in 1 .. Len(l)
      PROVE  l[i] = t[i]
  <2>1. CASE i <= Len(u)
    BY <1>1, <2>1 DEF Agrees
  <2>2. CASE i = Len(u) + 1
    BY <1>1, <2>2 DEF Agrees
  <2>3. CASE i > Len(u) + 1
    <3> DEFINE k == i - (Len(u) + 1)
    <3>1. k \in 1 .. Len(r) /\ i = Len(u) + 1 + k
      BY <1>1, <2>3 DEF Agrees
    <3> HIDE DEF k
    <3> QED
      BY <1>1, <3>1 DEF Agrees
  <2> QED
    BY <1>1, <2>1, <2>2, <2>3
<1>3. Len(l) = Len(t)
  BY <1>1 DEF Agrees
<1>4. l = t
  BY <1>1, <1>2, <1>3, SeqEqual
<1> QED
  BY <1>4 DEF l

(* A stack with the current value pushed on it reads one side of the line. *)
LEMMA SidesOfLine ==
  ASSUME NEW S, NEW u \in Seq(S), NEW c \in S, NEW r \in Seq(S)
  PROVE  Sides(Line(u, c, r), u, c, r)
<1> DEFINE l == Line(u, c, r)
<1>1. Len(u) \in Nat /\ Len(r) \in Nat /\ Agrees(l, u, c, r)
  BY LenProperties, LineProperties
<1> HIDE DEF l
<1>2. ASSUME NEW k \in 1 .. Len(u) + 1
      PROVE  Append(u, c)[k] = l[k]
  <2>1. CASE k = Len(u) + 1
    <3>1. Append(u, c)[Len(u) + 1] = c
      BY AppendProperties
    <3> QED
      BY <1>1, <2>1, <3>1 DEF Agrees
  <2>2. CASE k \in 1 .. Len(u)
    <3>1. Append(u, c)[k] = u[k]
      BY <2>2, AppendProperties
    <3> QED
      BY <1>1, <2>2, <3>1 DEF Agrees
  <2> QED
    BY <1>1, <2>1, <2>2
<1>3. ASSUME NEW k \in 1 .. Len(r) + 1
      PROVE  Append(r, c)[k] = l[Len(u) + Len(r) + 2 - k]
  <2>1. CASE k = Len(r) + 1
    <3>1. Len(u) + Len(r) + 2 - k = Len(u) + 1
      BY <1>1, <2>1
    <3>2. Append(r, c)[Len(r) + 1] = c
      BY AppendProperties
    <3> QED
      BY <1>1, <2>1, <3>1, <3>2 DEF Agrees
  <2>2. CASE k \in 1 .. Len(r)
    <3> DEFINE i == Len(r) + 1 - k
    <3>1. i \in 1 .. Len(r) /\ Len(u) + 1 + i = Len(u) + Len(r) + 2 - k /\ Len(r) - i + 1 = k
      BY <1>1, <2>2
    <3> HIDE DEF i
    <3>2. l[Len(u) + 1 + i] = r[Len(r) - i + 1]
      BY <1>1, <3>1 DEF Agrees
    <3>3. Append(r, c)[k] = r[k]
      BY <2>2, AppendProperties
    <3> QED
      BY <3>1, <3>2, <3>3
  <2> QED
    BY <1>1, <2>1, <2>2
<1>4. Sides(l, u, c, r)
  BY <1>2, <1>3 DEF Sides
<1> QED
  BY <1>4 DEF l

(* Pushing and trimming keeps the nearest past, as much of it as the       *)
(* document does.                                                          *)
Kept(stack, n) == Document!AtMost(Len(stack) + 1, n)

(* The stack _persist leaves has the nearest past, newest last.            *)
LEMMA PushedIsNearest ==
  ASSUME NEW S, NEW stack \in Seq(S), NEW c \in S, NEW n \in Nat \ {0}
  PROVE  /\ Newest(Append(stack, c), n) \in Seq(S)
         /\ Len(Newest(Append(stack, c), n)) = Kept(stack, n)
         /\ NearestPast(Newest(Append(stack, c), n), stack, c)
<1> DEFINE longer == Append(stack, c)
           kept == IF Len(longer) > n THEN n ELSE Len(longer)
           pushed == Newest(longer, n)
<1>1. longer \in Seq(S) /\ Len(longer) = Len(stack) + 1 /\ Len(stack) \in Nat /\ n \in Nat
  BY AppendProperties, LenProperties
<1> HIDE DEF longer
<1>2. kept \in Nat /\ kept <= Len(stack) + 1 /\ kept = Kept(stack, n)
  BY <1>1 DEF Kept, Document!AtMost
<1>3. pushed \in Seq(S) /\ Len(pushed) = kept
  BY <1>1, NewestProperties
<1>4. \A i \in 1 .. kept : pushed[i] = longer[Len(longer) - kept + i]
  BY <1>1, NewestProperties
<1> HIDE DEF kept, pushed
<1>5. \A i \in 1 .. Len(pushed) : pushed[i] = longer[Len(stack) + 1 - Len(pushed) + i]
  BY <1>1, <1>2, <1>3, <1>4
<1>6. Len(pushed) <= Len(stack) + 1
  BY <1>2, <1>3
<1> QED
  BY <1>2, <1>3, <1>5, <1>6 DEF longer, pushed, NearestPast

-----------------------------------------------------------------------------
(* An edit cuts the future off the line.                                   *)
LEMMA EditOfLine ==
  ASSUME NEW S, NEW u \in Seq(S), NEW c \in S, NEW r \in Seq(S),
         NEW past \in Seq(S), NearestPast(past, u, c), NEW v \in S
  PROVE  Line(past, v, <<>>)
           = Append(SubSeq(Line(u, c, r), Len(u) + 1 - Len(past) + 1, Len(u) + 1), v)
<1> DEFINE line == Line(u, c, r)
           m == Len(u) + 1 - Len(past) + 1
           k == Len(u) + 1
           t == SubSeq(line, m, k)
<1>1. /\ Len(u) \in Nat /\ Len(r) \in Nat /\ Len(past) \in Nat
      /\ Len(past) <= Len(u) + 1
  BY LenProperties DEF NearestPast
<1>2. line \in Seq(S) /\ Agrees(line, u, c, r) /\ Sides(line, u, c, r)
  BY LineProperties, SidesOfLine
<1> HIDE DEF line
<1>3. t \in Seq(S) /\ Len(t) = Len(past)
      /\ \A i \in 1 .. Len(past) : t[i] = line[Len(u) + 1 - Len(past) + i]
  <2>1. /\ m \in Nat \ {0} /\ k \in Nat /\ m <= k + 1 /\ k <= Len(line) /\ k - m + 1 = Len(past)
        /\ \A i \in 1 .. Len(past) : m + i - 1 = Len(u) + 1 - Len(past) + i
    BY <1>1, <1>2 DEF Agrees
  <2> HIDE DEF m, k
  <2>2. /\ SubSeq(line, m, k) \in Seq(S) /\ Len(SubSeq(line, m, k)) = k - m + 1
        /\ \A i \in 1 .. k - m + 1 : SubSeq(line, m, k)[i] = line[m + i - 1]
    BY <1>2, <2>1, SubSeqInside
  <2> QED
    BY <2>1, <2>2
<1> HIDE DEF t, m, k
<1>4. ASSUME NEW i \in 1 .. Len(t)
      PROVE  t[i] = past[i]
  <2>1. i \in 1 .. Len(past) /\ Len(u) + 1 - Len(past) + i \in 1 .. Len(u) + 1
    BY <1>1, <1>3
  <2>2. past[i] = Append(u, c)[Len(u) + 1 - Len(past) + i]
    BY <2>1 DEF NearestPast
  <2> QED
    BY <1>2, <1>3, <2>1, <2>2 DEF Sides
<1>5. t = past
  BY <1>3, <1>4, SeqEqual
<1>6. Reverse(<<>>) = <<>>
  BY DEF Reverse
<1>7. Line(past, v, <<>>) = Append(past, v)
  BY <1>6, AppendProperties, ConcatEmptySeq DEF Line
<1> QED
  BY <1>5, <1>7 DEF t, line, m, k

(* An undo moves one place back and keeps the nearest future: the redo     *)
(* stack is the future, nearest last, so it too keeps a NearestPast.       *)
LEMMA UndoOfLine ==
  ASSUME NEW S, NEW u \in Seq(S), NEW c \in S, NEW r \in Seq(S), u # <<>>,
         NEW future \in Seq(S), NearestPast(future, r, c)
  PROVE  Line(Front(u), Last(u), future) = SubSeq(Line(u, c, r), 1, Len(u) + Len(future))
<1> DEFINE line == Line(u, c, r)
           k == Len(u) + Len(future)
           t == SubSeq(line, 1, k)
           v == Last(u)
           rest == Front(u)
<1>1. /\ Len(u) \in Nat \ {0} /\ Len(r) \in Nat /\ Len(future) \in Nat
      /\ Len(future) <= Len(r) + 1
  BY LenProperties, FrontLastProperties DEF NearestPast
<1>2. line \in Seq(S) /\ Agrees(line, u, c, r) /\ Sides(line, u, c, r)
  BY LineProperties, SidesOfLine
<1>3. /\ v \in S /\ rest \in Seq(S) /\ Len(rest) = Len(u) - 1
      /\ \A i \in 1 .. Len(u) - 1 : rest[i] = u[i]
  BY FrontLastProperties
<1>4. v = u[Len(u)]
  BY DEF Last
<1> HIDE DEF line, v, rest
<1>5. t \in Seq(S) /\ Len(t) = k /\ \A i \in 1 .. k : t[i] = line[i]
  <2>1. 1 \in Nat \ {0} /\ k \in Nat /\ 1 <= k + 1 /\ k <= Len(line) /\ k - 1 + 1 = k
        /\ \A i \in 1 .. k : 1 + i - 1 = i
    BY <1>1, <1>2 DEF Agrees
  <2> HIDE DEF k
  <2>2. /\ SubSeq(line, 1, k) \in Seq(S) /\ Len(SubSeq(line, 1, k)) = k - 1 + 1
        /\ \A i \in 1 .. k - 1 + 1 : SubSeq(line, 1, k)[i] = line[1 + i - 1]
    BY <1>2, <2>1, SubSeqInside
  <2> QED
    BY <2>1, <2>2
<1> HIDE DEF t
<1>6. Len(t) = Len(rest) + 1 + Len(future)
  BY <1>1, <1>3, <1>5
<1>7. ASSUME NEW i \in 1 .. Len(rest)
      PROVE  t[i] = rest[i]
  <2>1. i \in 1 .. Len(u) - 1 /\ i \in 1 .. Len(u) /\ i \in 1 .. k
    BY <1>1, <1>3
  <2> QED
    BY <1>2, <1>3, <1>5, <2>1 DEF Agrees
<1>8. t[Len(rest) + 1] = v
  <2>1. Len(rest) + 1 = Len(u) /\ Len(u) \in 1 .. Len(u) /\ Len(u) \in 1 .. k
    BY <1>1, <1>3
  <2> QED
    BY <1>2, <1>4, <1>5, <2>1 DEF Agrees
<1>9. ASSUME NEW i \in 1 .. Len(future)
      PROVE  t[Len(rest) + 1 + i] = future[Len(future) - i + 1]
  <2> DEFINE j == Len(future) - i + 1
             l == Len(r) + 1 - Len(future) + j
  <2>1. Len(rest) + 1 + i = Len(u) + i /\ Len(u) + i \in 1 .. k
    BY <1>1, <1>3
  <2>2. t[Len(u) + i] = line[Len(u) + i]
    BY <1>5, <2>1
  <2>3. j \in 1 .. Len(future)
    BY <1>1
  <2>4. l \in 1 .. Len(r) + 1 /\ Len(u) + Len(r) + 2 - l = Len(u) + i
    BY <1>1
  <2> HIDE DEF j
  <2>5. future[j] = Append(r, c)[l]
    BY <2>3 DEF NearestPast
  <2> HIDE DEF l
  <2>6. Append(r, c)[l] = line[Len(u) + i]
    BY <1>2, <2>4 DEF Sides
  <2> QED
    BY <2>1, <2>2, <2>5, <2>6 DEF j
<1>10. Agrees(t, rest, v, future)
  BY <1>6, <1>7, <1>8, <1>9 DEF Agrees
<1>11. Line(rest, v, future) = t
  BY <1>3, <1>5, <1>10, LineEqual
<1> QED
  BY <1>11 DEF t, line, v, rest

(* A redo moves one place forward and keeps the nearest past.              *)
LEMMA RedoOfLine ==
  ASSUME NEW S, NEW u \in Seq(S), NEW c \in S, NEW r \in Seq(S), r # <<>>,
         NEW past \in Seq(S), NearestPast(past, u, c)
  PROVE  Line(past, Last(r), Front(r))
           = SubSeq(Line(u, c, r), Len(u) + 1 - Len(past) + 1, Len(u) + 1 + Len(r))
<1> DEFINE line == Line(u, c, r)
           m == Len(u) + 1 - Len(past) + 1
           k == Len(u) + 1 + Len(r)
           t == SubSeq(line, m, k)
           v == Last(r)
           rest == Front(r)
<1>1. /\ Len(u) \in Nat /\ Len(r) \in Nat \ {0} /\ Len(past) \in Nat
      /\ Len(past) <= Len(u) + 1
  BY LenProperties, FrontLastProperties DEF NearestPast
<1>2. line \in Seq(S) /\ Agrees(line, u, c, r) /\ Sides(line, u, c, r)
  BY LineProperties, SidesOfLine
<1>3. /\ v \in S /\ rest \in Seq(S) /\ Len(rest) = Len(r) - 1
      /\ \A i \in 1 .. Len(r) - 1 : rest[i] = r[i]
  BY FrontLastProperties
<1>4. v = r[Len(r)]
  BY DEF Last
<1> HIDE DEF line, v, rest
<1>5. t \in Seq(S) /\ Len(t) = Len(past) + Len(r)
      /\ \A i \in 1 .. Len(past) + Len(r) : t[i] = line[Len(u) + 1 - Len(past) + i]
  <2>1. /\ m \in Nat \ {0} /\ k \in Nat /\ m <= k + 1 /\ k <= Len(line)
        /\ k - m + 1 = Len(past) + Len(r)
        /\ \A i \in 1 .. Len(past) + Len(r) : m + i - 1 = Len(u) + 1 - Len(past) + i
    BY <1>1, <1>2 DEF Agrees
  <2> HIDE DEF m, k
  <2>2. /\ SubSeq(line, m, k) \in Seq(S) /\ Len(SubSeq(line, m, k)) = k - m + 1
        /\ \A i \in 1 .. k - m + 1 : SubSeq(line, m, k)[i] = line[m + i - 1]
    BY <1>2, <2>1, SubSeqInside
  <2> QED
    BY <2>1, <2>2
<1> HIDE DEF t, m, k
<1>6. Len(t) = Len(past) + 1 + Len(rest)
  BY <1>1, <1>3, <1>5
<1>7. ASSUME NEW i \in 1 .. Len(past)
      PROVE  t[i] = past[i]
  <2>1. /\ i \in 1 .. Len(past) + Len(r)
        /\ Len(u) + 1 - Len(past) + i \in 1 .. Len(u) + 1
    BY <1>1
  <2>2. past[i] = Append(u, c)[Len(u) + 1 - Len(past) + i]
    BY DEF NearestPast
  <2> QED
    BY <1>2, <1>5, <2>1, <2>2 DEF Sides
<1>8. t[Len(past) + 1] = v
  <2>1. t[Len(past) + 1] = line[Len(u) + 1 + 1]
    BY <1>1, <1>5
  <2>2. line[Len(u) + 1 + 1] = r[Len(r)]
    BY <1>1, <1>2 DEF Agrees
  <2> QED
    BY <1>4, <2>1, <2>2
<1>9. ASSUME NEW i \in 1 .. Len(rest)
      PROVE  t[Len(past) + 1 + i] = rest[Len(rest) - i + 1]
  <2>1. i + 1 \in 1 .. Len(r) /\ Len(past) + 1 + i \in 1 .. Len(past) + Len(r)
        /\ Len(u) + 1 - Len(past) + (Len(past) + 1 + i) = Len(u) + 1 + (i + 1)
    BY <1>1, <1>3
  <2>2. t[Len(past) + 1 + i] = line[Len(u) + 1 + (i + 1)]
    BY <1>5, <2>1
  <2>3. line[Len(u) + 1 + (i + 1)] = r[Len(r) - (i + 1) + 1]
    BY <1>2, <2>1 DEF Agrees
  <2>4. /\ Len(r) - (i + 1) + 1 \in 1 .. Len(r) - 1
        /\ Len(rest) - i + 1 = Len(r) - (i + 1) + 1
    BY <1>1, <1>3, <2>1
  <2> QED
    BY <1>3, <2>2, <2>3, <2>4
<1>10. Agrees(t, past, v, rest)
  BY <1>6, <1>7, <1>8, <1>9 DEF Agrees
<1>11. Line(past, v, rest) = t
  BY <1>3, <1>5, <1>10, LineEqual
<1> QED
  BY <1>11 DEF t, line, v, rest, m, k

-----------------------------------------------------------------------------
(* The position the mapping gives a service, and where the line ends.      *)
LEMMA TimelineShape ==
  ASSUME TypeOK
  PROVE  /\ Len(undo) \in Nat /\ Len(redo) \in Nat
         /\ Timeline = Line(undo, catalog, redo)
         /\ Len(Timeline) = Len(undo) + 1 + Len(redo)
         /\ history_limit \in Nat \ {0}
<1>1. Timeline = Line(undo, catalog, redo)
  BY DEF Timeline, Line
<1>2. Agrees(Line(undo, catalog, redo), undo, catalog, redo)
  BY LineProperties DEF TypeOK
<1> QED
  BY <1>1, <1>2, LenProperties, LimitsAreNat DEF Agrees, TypeOK

(* A mutation that is saved is an edit of the document; one that raises    *)
(* does not touch it.                                                      *)
LEMMA PersistIsEdit ==
  ASSUME TypeOK, NEW c \in Catalogs, NEW result \in Results, Persist(c, result)
  PROVE  Document!Edit(c) \/ UNCHANGED Document!vars
<1>0. /\ undo \in Seq(Catalogs) /\ catalog \in Catalogs /\ redo \in Seq(Catalogs)
      /\ history_limit \in Nat \ {0}
  BY TimelineShape DEF TypeOK
<1> DEFINE past == Newest(Append(undo, catalog), history_limit)
<1>1. CASE result = "ok"
  <2>1. catalog' = c /\ undo' = past /\ redo' = <<>> /\ history_limit' = history_limit
    BY <1>1 DEF Persist
  <2>2. past \in Seq(Catalogs) /\ Len(past) = Kept(undo, history_limit)
        /\ NearestPast(past, undo, catalog)
    BY <1>0, PushedIsNearest
  <2> HIDE DEF past
  <2>3. Line(past, c, <<>>)
          = Append(SubSeq(Line(undo, catalog, redo), Len(undo) + 1 - Len(past) + 1, Len(undo) + 1), c)
    <3>1. past \in Seq(Catalogs) /\ NearestPast(past, undo, catalog)
      BY <2>2
    <3> QED
      BY <1>0, <3>1, EditOfLine
  <2>4. Timeline' = Line(past, c, <<>>)
    BY <2>1 DEF Timeline, Line
  <2>5. Document!AtMost(Len(undo) + 1, history_limit) = Len(past)
    BY <2>2 DEF Kept
  <2>6. Timeline' = Append(SubSeq(Timeline, Len(undo) + 1 - Len(past) + 1, Len(undo) + 1), c)
    BY <2>3, <2>4, TimelineShape
  <2>7. Len(undo)' + 1 = Len(past) + 1
    BY <2>1
  <2>8. history_limit' = history_limit
    BY <2>1
  <2>9. Document!Edit(c)
    BY <2>5, <2>6, <2>7, <2>8 DEF Document!Edit
  <2> QED
    BY <2>9
<1>2. CASE result # "ok"
  BY <1>2 DEF Persist, Document!vars, Timeline
<1> QED
  BY <1>1, <1>2

(* An undo that is saved is an undo of the document.                       *)
LEMMA UndoIsUndo ==
  ASSUME TypeOK, NEW result \in Results, Undo(result)
  PROVE  Document!Undo \/ UNCHANGED Document!vars
<1>0. /\ undo \in Seq(Catalogs) /\ catalog \in Catalogs /\ redo \in Seq(Catalogs)
      /\ history_limit \in Nat \ {0}
  BY TimelineShape DEF TypeOK
<1> DEFINE future == Newest(Append(redo, catalog), history_limit)
<1>1. CASE result = "ok"
  <2>1. /\ catalog' = Last(undo) /\ undo' = Front(undo) /\ redo' = future
        /\ history_limit' = history_limit /\ undo # <<>>
    BY <1>1 DEF Undo
  <2>2. future \in Seq(Catalogs) /\ Len(future) = Kept(redo, history_limit)
        /\ NearestPast(future, redo, catalog)
    BY <1>0, PushedIsNearest
  <2> HIDE DEF future
  <2>3. Line(Front(undo), Last(undo), future)
          = SubSeq(Line(undo, catalog, redo), 1, Len(undo) + Len(future))
    <3>1. undo # <<>> /\ future \in Seq(Catalogs) /\ NearestPast(future, redo, catalog)
      BY <2>1, <2>2
    <3> QED
      BY <1>0, <3>1, UndoOfLine
  <2>4. Timeline' = Line(Front(undo), Last(undo), future)
    BY <2>1 DEF Timeline, Line
  <2>5. Len(undo) \in Nat \ {0} /\ Len(Front(undo)) = Len(undo) - 1
    BY <2>1, FrontLastProperties DEF TypeOK
  <2>6. Len(Timeline) - (Len(undo) + 1) + 1 = Len(redo) + 1
    BY TimelineShape
  <2>7. (Len(undo) + 1) - 1 + Len(future) = Len(undo) + Len(future)
    BY <2>2, <2>5, LenProperties
  <2>8. Document!AtMost(Len(Timeline) - (Len(undo) + 1) + 1, history_limit) = Len(future)
    BY <2>2, <2>6 DEF Kept
  <2> QED
    BY <2>1, <2>3, <2>4, <2>5, <2>7, <2>8, TimelineShape DEF Document!Undo
<1>2. CASE result # "ok"
  BY <1>2 DEF Undo, Document!vars, Timeline
<1> QED
  BY <1>1, <1>2

(* A redo that is saved is a redo of the document.                         *)
LEMMA RedoIsRedo ==
  ASSUME TypeOK, NEW result \in Results, Redo(result)
  PROVE  Document!Redo \/ UNCHANGED Document!vars
<1>0. /\ undo \in Seq(Catalogs) /\ catalog \in Catalogs /\ redo \in Seq(Catalogs)
      /\ history_limit \in Nat \ {0}
  BY TimelineShape DEF TypeOK
<1> DEFINE past == Newest(Append(undo, catalog), history_limit)
<1>1. CASE result = "ok"
  <2>1. /\ catalog' = Last(redo) /\ redo' = Front(redo) /\ undo' = past
        /\ history_limit' = history_limit /\ redo # <<>>
    BY <1>1 DEF Redo
  <2>2. past \in Seq(Catalogs) /\ Len(past) = Kept(undo, history_limit)
        /\ NearestPast(past, undo, catalog)
    BY <1>0, PushedIsNearest
  <2> HIDE DEF past
  <2>3. Line(past, Last(redo), Front(redo))
          = SubSeq(Line(undo, catalog, redo), Len(undo) + 1 - Len(past) + 1, Len(undo) + 1 + Len(redo))
    BY <1>0, <2>1, <2>2, RedoOfLine
  <2>4. Timeline' = Line(past, Last(redo), Front(redo))
    BY <2>1 DEF Timeline, Line
  <2>5. Len(redo) \in Nat \ {0}
    BY <2>1, FrontLastProperties DEF TypeOK
  <2>6. Document!AtMost(Len(undo) + 1, history_limit) = Len(past)
    BY <2>2 DEF Kept
  <2>7. Len(undo) + 1 - Len(past) + 1 = (Len(undo) + 1) - Len(past) + 1
    BY <1>0, <2>2, LenProperties
  <2>8. Timeline' = SubSeq(Timeline, (Len(undo) + 1) - Len(past) + 1, Len(Timeline))
    BY <2>3, <2>4, <2>7, TimelineShape
  <2>9. (Len(undo) + 1)' = Len(past) + 1 /\ Len(undo) + 1 < Len(Timeline)
    BY <2>1, <2>5, TimelineShape
  <2>10. UNCHANGED history_limit
    BY <2>1
  <2>11. Document!Redo
    BY <2>6, <2>8, <2>9, <2>10, Zenon DEF Document!Redo
  <2> QED
    BY <2>11
<1>2. CASE result # "ok"
  BY <1>2 DEF Redo, Document!vars, Timeline
<1> QED
  BY <1>1, <1>2

(* The line of a session without history is its catalog.                   *)
LEMMA LineOfOne ==
  ASSUME NEW c
  PROVE  Line(<<>>, c, <<>>) = <<c>>
<1>1. Reverse(<<>>) = <<>>
  BY DEF Reverse
<1>2. Append(<<>>, c) = <<c>>
  OBVIOUS
<1>3. <<c>> \o <<>> = <<c>>
  BY ConcatEmptySeq
<1> QED
  BY <1>1, <1>2, <1>3 DEF Line

(* The two stacks and the current catalog of the service implement one     *)
(* timeline with a position: undo and redo are inverse moves along it,     *)
(* only a saved mutation rewrites it, and no failure, save_as, reload that *)
(* raises or change of the limit moves the user along it.                  *)
THEOREM ServiceImplementsDocument == Spec => BehavesAsDocument
<1>1. Init => Document!Init
  <2> SUFFICES ASSUME Init
               PROVE  Document!Init
    OBVIOUS
  <2>1. catalog \in Catalogs
    BY OpenedInRange DEF Init
  <2>2. Timeline = <<catalog>>
    BY LineOfOne DEF Init, Timeline, Line
  <2> QED
    BY <2>1, <2>2 DEF Init, Document!Init, Limits
<1>2. TypeOK /\ [Next]_vars => [Document!Next]_(Document!vars)
  <2> SUFFICES ASSUME TypeOK, [Next]_vars
               PROVE  Document!Next \/ UNCHANGED Document!vars
    OBVIOUS
  <2>1. ASSUME NEW c \in Catalogs, NEW result \in Results, Persist(c, result)
        PROVE  Document!Next \/ UNCHANGED Document!vars
    BY <2>1, PersistIsEdit DEF Document!Next
  <2>2. ASSUME NEW result \in Results, Undo(result)
        PROVE  Document!Next \/ UNCHANGED Document!vars
    BY <2>2, UndoIsUndo DEF Document!Next
  <2>3. ASSUME NEW result \in Results, Redo(result)
        PROVE  Document!Next \/ UNCHANGED Document!vars
    BY <2>3, RedoIsRedo DEF Document!Next
  <2>4. ASSUME NEW p \in Paths, NEW c \in Catalogs, Adopt(p, c), history_limit' \in Limits
        PROVE  Document!Next \/ UNCHANGED Document!vars
    <3>1. Timeline' = <<c>>
      BY <2>4, LineOfOne DEF Adopt, Timeline, Line
    <3>2. Len(undo') + 1 = 1
      BY <2>4 DEF Adopt
    <3>3. Document!Replace(c)
      BY <2>4, <3>1, <3>2 DEF Document!Replace, Limits
    <3> QED
      BY <3>3 DEF Document!Next
  <2>5. ASSUME UNCHANGED <<catalog, undo, redo>>, history_limit' \in Limits
        PROVE  Document!Next \/ UNCHANGED Document!vars
    BY <2>5 DEF Document!Next, Document!SetCapacity, Timeline, Limits
  <2> QED
    BY <2>1, <2>2, <2>3, <2>4, <2>5, SessionStep
<1> QED
  BY <1>1, <1>2, TypeCorrect, PTL DEF Spec, BehavesAsDocument, Document!Spec

-----------------------------------------------------------------------------
(***************************************************************************)
(* Proofs about AtomicFile for any number of writers and chunks, under     *)
(* unique names: the files that readers and crashes find are whole, what a *)
(* writer acknowledged survives, no temporary file stays and what a native *)
(* writer replaces is in its backup.                                       *)
(*                                                                         *)
(* TargetsComplete is not inductive: nothing in it says that the inode a   *)
(* name leads to will not be written again, nor that the one about to be   *)
(* installed is finished.  AtomicInv adds both, DurableInv what each       *)
(* writer has left under its names, BackupInv how far its backup is.       *)
(***************************************************************************)

(* No writer will change inode i again.                                    *)
Sealed(i) ==
  \A w \in Writers :
    /\ i = <<w, "main">> =>
         \A step \in {"idle", "open", "write", "fsync"} : ~At(w, "main", step)
    /\ i = <<w, "backup">> =>
         /\ \A step \in {"idle", "open", "write", "fsync", "check"} : ~At(w, "main", step)
         /\ \A step \in {"open", "write", "fsync"} : ~At(w, "backup", step)

(* Inode i is whole, and on the disk as well.                              *)
Finished(i) == Complete(cached[i]) /\ durable[i] = cached[i]

Safe(i) == Sealed(i) /\ Finished(i)

SafeInodes == {i \in Inode : Safe(i)}

(* Under unique names a temporary name leads nowhere or to its own inode.  *)
LinksHome(w, s) ==
  /\ entry[<<w, s>>] \in {None, <<w, s>>}
  /\ journal[<<w, s>>] \in {None, <<w, s>>}

OwnNames == \A w \in Writers, s \in Stage : LinksHome(w, s)

TargetsSafe ==
  \A n \in Targets :
    /\ entry[n] \in SafeInodes \union {None}
    /\ journal[n] \in SafeInodes \union {None}

(* How far a writer is with its document ...                               *)
MainProgress(w) ==
  /\ At(w, "main", "write") =>
       /\ fd[w]["main"] = <<w, "main">>
       /\ written[w] < Chunks
       /\ \A k \in 1 .. written[w] : cached[<<w, "main">>][k] = w
  /\ At(w, "main", "fsync") =>
       fd[w]["main"] = <<w, "main">> /\ Complete(cached[<<w, "main">>])
  /\ \/ At(w, "main", "check")
     \/ At(w, "main", "replace")
     \/ \E step \in Steps : At(w, "backup", step)
     => Finished(<<w, "main">>)

(* ... and a native one with its backup.                                   *)
BackupProgress(w) ==
  /\ At(w, "backup", "open") => entry[Destination] # None
  /\ At(w, "backup", "write") =>
       /\ fd[w]["backup"] = <<w, "backup">>
       /\ written[w] < Chunks
       /\ source[w] \in SafeInodes
       /\ \A k \in 1 .. written[w] : cached[<<w, "backup">>][k] = cached[source[w]][k]
  /\ At(w, "backup", "fsync") =>
       fd[w]["backup"] = <<w, "backup">> /\ Complete(cached[<<w, "backup">>])
  /\ At(w, "backup", "replace") => Finished(<<w, "backup">>)

AtomicInv ==
  /\ FileTypeOK
  /\ OwnNames
  /\ TargetsSafe
  /\ \A w \in Writers : MainProgress(w) /\ BackupProgress(w)

-----------------------------------------------------------------------------
(* The names of the files are distinct.                                    *)
LEMMA OwnTemporary ==
  ASSUME UniqueNames = TRUE, NEW w \in Writers, NEW s \in Stage
  PROVE  /\ Temporary(w, s) = <<w, s>>
         /\ <<w, s>> \in Names
         /\ <<w, s>> \notin Targets
<1>1. Temporary(w, s) = <<w, s>>
  BY DEF Temporary
<1>2. Temporary(w, s) \in Names
  BY DEF Names
<1>3. <<w, s>> # Destination /\ <<w, s>> # Bak
  BY NamesAssumption DEF Destination, Bak, Target
<1>4. QED
  BY <1>1, <1>2, <1>3 DEF Targets

(* The destination and its backup are two names among all names.           *)
LEMMA TargetNames ==
  /\ Destination \in Targets /\ Bak \in Targets /\ Destination # Bak
  /\ Targets \subseteq Names
  /\ Target("main") = Destination /\ Target("backup") = Bak
BY DEF Targets, Names, Destination, Bak, Target

(* Every writer has an inode of its own for its document and its backup.   *)
LEMMA InodesDistinct ==
  /\ \A w \in Writers, s \in Stage : <<w, s>> \in Inode /\ <<w, s>> # None
  /\ <<Original, "main">> \in Inode
  /\ \A w \in Writers, s \in Stage : <<w, s>> # <<Original, "main">>
BY NoneAssumption, DocumentAssumption DEF Inode, Stage

(* A whole document is well formed and complete.                           *)
LEMMA WholeIsContents ==
  ASSUME NEW d \in Writers \union {Original}
  PROVE  Whole(d) \in Contents /\ Complete(Whole(d))
BY DEF Whole, Contents, Complete

(* So is a file that nothing has been written to yet.                      *)
LEMMA BlankIsContents == Blank \in Contents
BY DEF Blank, Contents

(* The invariant holds before the first writer begins.                     *)
LEMMA InitInvariant ==
  ASSUME UniqueNames = TRUE, FileInit
  PROVE  AtomicInv
<1>1. FileTypeOK
  <2>1. cached \in [Inode -> Contents]
    BY WholeIsContents, BlankIsContents DEF FileInit
  <2>2. entry \in [Names -> Inode \union {None}]
    BY InodesDistinct DEF FileInit
  <2>3. installs \in Seq(Writers)
    BY DEF FileInit
  <2>4. at \in [Writers -> Stage \X (Steps \union Outcomes)]
    BY DEF FileInit, Stage, Steps, Outcomes
  <2>5. written \in [Writers -> 0 .. Chunks]
    BY ChunksAssumption DEF FileInit
  <2>6. QED
    BY <2>1, <2>2, <2>3, <2>4, <2>5 DEF FileInit, FileTypeOK
<1>2. OwnNames
  <2>1. \A n \in Names : n # Destination => entry[n] = None /\ journal[n] = None
    BY DEF FileInit
  <2>2. \A w \in Writers, s \in Stage : <<w, s>> \in Names /\ <<w, s>> # Destination
    BY OwnTemporary, TargetNames
  <2>3. QED
    BY <2>1, <2>2 DEF OwnNames, LinksHome
<1>3. TargetsSafe
  <2>1. Safe(<<Original, "main">>)
    BY WholeIsContents, InodesDistinct DEF FileInit, Safe, Sealed, Finished, Stage
  <2>2. \A n \in Targets : entry[n] \in {None, <<Original, "main">>}
    BY DEF FileInit, Names
  <2>3. <<Original, "main">> \in SafeInodes
    BY <2>1, InodesDistinct DEF SafeInodes
  <2>4. QED
    BY <2>2, <2>3 DEF FileInit, TargetsSafe
<1>4. \A w \in Writers : MainProgress(w) /\ BackupProgress(w)
  BY DEF FileInit, MainProgress, BackupProgress, At
<1>5. QED
  BY <1>1, <1>2, <1>3, <1>4 DEF AtomicInv

-----------------------------------------------------------------------------
(* Under unique names every step of a writer touches its own files only.   *)
LEMMA OpenOwn ==
  ASSUME UniqueNames = TRUE, AtomicInv, NEW w \in Writers, NEW s \in Stage, OpenTemporary(w, s)
  PROVE  /\ cached' = [cached EXCEPT ![<<w, s>>] = Blank]
         /\ entry' = [entry EXCEPT ![<<w, s>>] = <<w, s>>]
         /\ fd' = [fd EXCEPT ![w][s] = <<w, s>>]
<1>1. Temporary(w, s) = <<w, s>>
  BY OwnTemporary, TargetNames
<1>2. entry[<<w, s>>] \in {None, <<w, s>>}
  BY DEF AtomicInv, OwnNames, LinksHome
<1>3. QED
  BY <1>1, <1>2 DEF OpenTemporary

Chunk(w, s) == IF s = "main" THEN w ELSE cached[source[w]][written[w] + 1]

(* A write goes to the writer's own temporary file and not past its end.   *)
LEMMA WriteInBounds ==
  ASSUME AtomicInv, NEW w \in Writers, NEW s \in Stage, Write(w, s)
  PROVE  /\ fd[w][s] = <<w, s>>
         /\ written[w] \in Nat
         /\ written[w] + 1 \in 1 .. Chunks
         /\ written[w] + 1 \in 0 .. Chunks
<1>1. At(w, s, "write")
  BY DEF Write
<1>2. fd[w][s] = <<w, s>> /\ written[w] < Chunks
  BY <1>1 DEF AtomicInv, MainProgress, BackupProgress, Stage
<1>3. written[w] \in 0 .. Chunks
  BY DEF AtomicInv, FileTypeOK
<1>4. QED
  BY <1>2, <1>3, ChunksAssumption

(* It changes one chunk of that file.                                      *)
LEMMA WriteOwn ==
  ASSUME AtomicInv, NEW w \in Writers, NEW s \in Stage, Write(w, s)
  PROVE  cached' = [cached EXCEPT ![<<w, s>>] =
                      [cached[<<w, s>>] EXCEPT ![written[w] + 1] = Chunk(w, s)]]
<1>1. fd[w][s] = <<w, s>>
  BY WriteInBounds
<1>2. QED
  BY <1>1 DEF Write, Chunk

(* An fsync concerns that file alone.                                      *)
LEMMA FsyncOwn ==
  ASSUME AtomicInv, NEW w \in Writers, NEW s \in Stage, Fsync(w, s)
  PROVE  durable' = [durable EXCEPT ![<<w, s>>] = cached[<<w, s>>]]
<1>1. fd[w][s] = <<w, s>>
  BY DEF AtomicInv, MainProgress, BackupProgress, Stage, Fsync
<1>2. QED
  BY <1>1 DEF Fsync

(* A replacement installs that file, whatever the names lead to by then.   *)
LEMMA ReplaceOwn ==
  ASSUME UniqueNames = TRUE, AtomicInv, NEW w \in Writers, NEW s \in Stage, Replace(w, s)
  PROVE  entry' = [entry EXCEPT ![Target(s)] = <<w, s>>, ![<<w, s>>] = None]
<1>1. Temporary(w, s) = <<w, s>>
  BY OwnTemporary, TargetNames
<1>2. entry[<<w, s>>] \in {None, <<w, s>>}
  BY DEF AtomicInv, OwnNames, LinksHome
<1>3. QED
  BY <1>1, <1>2 DEF Replace

(* The removal of finally: concerns that name alone.                       *)
LEMMA UnlinkOwn ==
  ASSUME UniqueNames = TRUE, NEW w \in Writers, NEW s \in Stage, Unlink(w, s)
  PROVE  entry' = [entry EXCEPT ![<<w, s>>] = None]
BY OwnTemporary, TargetNames DEF Unlink

-----------------------------------------------------------------------------
(* Nobody goes back to writing an inode.                                   *)
LEMMA SealedStays ==
  ASSUME AtomicInv, NEW i \in Inode, Sealed(i), FileNext
  PROVE  Sealed(i)'
<1>0. at \in [Writers -> Stage \X (Steps \union Outcomes)]
  BY DEF AtomicInv, FileTypeOK
<1>a. ASSUME NEW w \in Writers, Begin(w) PROVE Sealed(i)'
  BY <1>0, <1>a DEF Begin, Goto, At, Sealed
<1>b. ASSUME NEW w \in Writers, CheckExists(w) PROVE Sealed(i)'
  BY <1>0, <1>b DEF CheckExists, Goto, At, Sealed
<1>c. ASSUME NEW w \in Writers, Kill(w) PROVE Sealed(i)'
  BY <1>0, <1>c DEF Kill, Goto, At, Sealed
<1>d. ASSUME NEW w \in Writers, NEW s \in Stage, OpenTemporary(w, s) PROVE Sealed(i)'
  BY <1>0, <1>d DEF OpenTemporary, Goto, At, Sealed, Stage
<1>e. ASSUME NEW w \in Writers, NEW s \in Stage, Write(w, s) PROVE Sealed(i)'
  BY <1>0, <1>e DEF Write, Goto, At, Sealed, Stage
<1>f. ASSUME NEW w \in Writers, NEW s \in Stage, Fsync(w, s) PROVE Sealed(i)'
  BY <1>0, <1>f DEF Fsync, Goto, At, Sealed, Stage
<1>g. ASSUME NEW w \in Writers, NEW s \in Stage, Replace(w, s) PROVE Sealed(i)'
  BY <1>0, <1>g DEF Replace, Goto, At, Sealed, Stage
<1>h. ASSUME NEW w \in Writers, NEW s \in Stage, SyncDirectory(w, s) PROVE Sealed(i)'
  BY <1>0, <1>h DEF SyncDirectory, Goto, At, Sealed, Stage
<1>i. ASSUME NEW w \in Writers, NEW s \in Stage, Raise(w, s) PROVE Sealed(i)'
  BY <1>0, <1>i DEF Raise, Goto, At, Sealed, Stage
<1>j. ASSUME NEW w \in Writers, NEW s \in Stage, Unlink(w, s) PROVE Sealed(i)'
  BY <1>0, <1>j DEF Unlink, AfterUnlink, Goto, At, Sealed, Stage
<1>k. ASSUME Crash PROVE Sealed(i)'
  BY <1>0, <1>k DEF Crash, Active, At, Sealed, Outcomes
<1>l. ASSUME UNCHANGED at PROVE Sealed(i)'
  BY <1>l DEF At, Sealed
<1> QED
  BY <1>a, <1>b, <1>c, <1>d, <1>e, <1>f, <1>g, <1>h, <1>i, <1>j, <1>k, <1>l
     DEF FileNext, WriterStep, WriteBack, CommitEntry

(* Bytes that reach the disk early do not undo what is on it already.      *)
LEMMA WriteBackKeepsFinished ==
  ASSUME AtomicInv, NEW i \in Inode, Finished(i),
         NEW j \in Inode, NEW k \in 1 .. Chunks, WriteBack(j, k)
  PROVE  Finished(i)'
<1>0. cached \in [Inode -> Contents] /\ durable \in [Inode -> Contents]
  BY DEF AtomicInv, FileTypeOK
<1>1. durable[i] = cached[i] /\ cached' = cached
  BY DEF Finished, WriteBack
<1>2. durable[i] \in [1 .. Chunks -> Writers \union {Original, Hole}]
  BY <1>0 DEF Contents
<1>3. durable'[i] = durable[i]
  BY <1>0, <1>1, <1>2 DEF WriteBack
<1>4. QED
  BY <1>1, <1>3 DEF Finished, Complete

(* An inode that nobody writes any more stays whole, in a crash as well.   *)
LEMMA FinishedStays ==
  ASSUME UniqueNames = TRUE, AtomicInv, NEW i \in Inode, Sealed(i), Finished(i), FileNext
  PROVE  Finished(i)'
<1>0. cached \in [Inode -> Contents] /\ durable \in [Inode -> Contents]
  BY DEF AtomicInv, FileTypeOK
<1>1. ASSUME NEW w \in Writers, NEW s \in Stage, OpenTemporary(w, s) PROVE Finished(i)'
  <2>1. i # <<w, s>>
    BY <1>1 DEF OpenTemporary, Sealed, Stage
  <2>2. cached'[i] = cached[i]
    <3>1. cached' = [cached EXCEPT ![<<w, s>>] = Blank]
      BY <1>1, OpenOwn
    <3>2. QED
      BY <1>0, <2>1, <3>1
  <2>3. durable' = durable
    BY <1>1 DEF OpenTemporary
  <2>4. QED
    BY <2>2, <2>3 DEF Finished, Complete
<1>2. ASSUME NEW w \in Writers, NEW s \in Stage, Write(w, s) PROVE Finished(i)'
  <2>1. i # <<w, s>>
    BY <1>2 DEF Write, Sealed, Stage
  <2>2. cached'[i] = cached[i]
    <3>1. cached' = [cached EXCEPT ![<<w, s>>] =
                       [cached[<<w, s>>] EXCEPT ![written[w] + 1] = Chunk(w, s)]]
      BY <1>2, WriteOwn
    <3>2. QED
      BY <1>0, <2>1, <3>1
  <2>3. durable' = durable
    BY <1>2 DEF Write
  <2>4. QED
    BY <2>2, <2>3 DEF Finished, Complete
<1>3. ASSUME NEW w \in Writers, NEW s \in Stage, Fsync(w, s) PROVE Finished(i)'
  <2>1. i # <<w, s>>
    BY <1>3 DEF Fsync, Sealed, Stage
  <2>2. durable'[i] = durable[i]
    <3>1. durable' = [durable EXCEPT ![<<w, s>>] = cached[<<w, s>>]]
      BY <1>3, FsyncOwn
    <3>2. QED
      BY <1>0, <2>1, <3>1
  <2>3. cached' = cached
    BY <1>3 DEF Fsync
  <2>4. QED
    BY <2>2, <2>3 DEF Finished, Complete
<1>4. ASSUME NEW j \in Inode, NEW k \in 1 .. Chunks, WriteBack(j, k) PROVE Finished(i)'
  BY <1>4, WriteBackKeepsFinished
<1>5. ASSUME Crash PROVE Finished(i)'
  BY <1>5 DEF Crash, Finished, Complete
<1>6. ASSUME UNCHANGED <<cached, durable>> PROVE Finished(i)'
  BY <1>6 DEF Finished, Complete
<1>7. ASSUME NEW w \in Writers, WriterStep(w) PROVE Finished(i)'
  BY <1>1, <1>2, <1>3, <1>6, <1>7
     DEF WriterStep, Begin, CheckExists, Kill, Replace, SyncDirectory, Raise, Unlink, files
<1> QED
  BY <1>4, <1>5, <1>6, <1>7 DEF FileNext, CommitEntry

(* A safe inode stays safe ...                                             *)
LEMMA SafeStays ==
  ASSUME UniqueNames = TRUE, AtomicInv, NEW i \in Inode, Safe(i), FileNext
  PROVE  Safe(i)'
BY SealedStays, FinishedStays DEF Safe

(* ... so the safe inodes only become more.                                *)
LEMMA SafeInodesGrow ==
  ASSUME UniqueNames = TRUE, AtomicInv, FileNext
  PROVE  SafeInodes \subseteq SafeInodes'
BY SafeStays DEF SafeInodes

-----------------------------------------------------------------------------
(* No step links a temporary name to an inode of another writer.           *)
LEMMA OwnNamesStay ==
  ASSUME UniqueNames = TRUE, AtomicInv, FileNext
  PROVE  OwnNames'
<1>0. /\ entry \in [Names -> Inode \union {None}]
      /\ journal \in [Names -> Inode \union {None}]
      /\ OwnNames
  BY DEF AtomicInv, FileTypeOK
<1> SUFFICES ASSUME NEW v \in Writers, NEW r \in Stage
             PROVE  LinksHome(v, r)'
  BY DEF OwnNames
<1>1. /\ <<v, r>> \in Names
      /\ <<v, r>> \notin Targets
      /\ entry[<<v, r>>] \in {None, <<v, r>>}
      /\ journal[<<v, r>>] \in {None, <<v, r>>}
  BY <1>0, OwnTemporary DEF OwnNames, LinksHome
<1>2. ASSUME NEW w \in Writers, NEW s \in Stage, OpenTemporary(w, s) PROVE LinksHome(v, r)'
  <2>1. entry' = [entry EXCEPT ![<<w, s>>] = <<w, s>>]
    BY <1>2, OpenOwn
  <2>2. journal' = journal
    BY <1>2 DEF OpenTemporary
  <2>3. entry'[<<v, r>>] \in {None, <<v, r>>}
    BY <1>0, <1>1, <2>1
  <2>4. QED
    BY <1>1, <2>2, <2>3 DEF LinksHome
<1>3. ASSUME NEW w \in Writers, NEW s \in Stage, Replace(w, s) PROVE LinksHome(v, r)'
  <2>1. Target(s) # <<v, r>>
    BY <1>1, TargetNames DEF Stage
  <2>2. QED
    BY <1>0, <1>1, <1>3, <2>1, ReplaceOwn DEF Replace, LinksHome
<1>4. ASSUME NEW w \in Writers, NEW s \in Stage, Unlink(w, s) PROVE LinksHome(v, r)'
  BY <1>0, <1>1, <1>4, UnlinkOwn DEF Unlink, LinksHome
<1>5. ASSUME NEW w \in Writers, NEW s \in Stage, SyncDirectory(w, s) PROVE LinksHome(v, r)'
  BY <1>1, <1>5 DEF SyncDirectory, LinksHome
<1>6. ASSUME NEW n \in Names, CommitEntry(n) PROVE LinksHome(v, r)'
  BY <1>0, <1>1, <1>6 DEF CommitEntry, LinksHome
<1>7. ASSUME Crash PROVE LinksHome(v, r)'
  BY <1>1, <1>7 DEF Crash, LinksHome
<1>8. ASSUME UNCHANGED <<entry, journal>> PROVE LinksHome(v, r)'
  BY <1>1, <1>8 DEF LinksHome
<1> QED
  BY <1>2, <1>3, <1>4, <1>5, <1>6, <1>7, <1>8
     DEF FileNext, WriterStep, Begin, CheckExists, Kill, Write, Fsync, Raise, WriteBack, files

(* Every inode that a step installs is safe: Replace is the only one that  *)
(* installs a new one, and its writer has synced it.                       *)
LEMMA TargetsStaySafe ==
  ASSUME UniqueNames = TRUE, AtomicInv, FileNext
  PROVE  TargetsSafe'
<1>0. /\ entry \in [Names -> Inode \union {None}]
      /\ journal \in [Names -> Inode \union {None}]
      /\ SafeInodes \subseteq SafeInodes'
  BY SafeInodesGrow DEF AtomicInv, FileTypeOK
<1> SUFFICES ASSUME NEW n \in Targets
             PROVE  /\ entry'[n] \in SafeInodes' \union {None}
                    /\ journal'[n] \in SafeInodes' \union {None}
  BY DEF TargetsSafe
<1>1. n \in Names /\ \A w \in Writers, s \in Stage : <<w, s>> # n
  BY OwnTemporary, TargetNames
<1>2. {entry[n], journal[n]} \subseteq SafeInodes' \union {None}
  BY <1>0 DEF AtomicInv, TargetsSafe
<1>3. ASSUME NEW w \in Writers, NEW s \in Stage, Replace(w, s)
      PROVE  entry'[n] \in {entry[n]} \union SafeInodes' /\ journal' = journal
  <2>1. journal' = journal
    BY <1>3 DEF Replace
  <2>2. entry'[n] \in {entry[n], <<w, s>>}
    <3>1. entry' = [entry EXCEPT ![Target(s)] = <<w, s>>, ![<<w, s>>] = None]
      BY <1>3, ReplaceOwn
    <3>2. <<w, s>> # n
      BY <1>1
    <3>3. QED
      BY <1>0, <1>1, <3>1, <3>2
  <2>3. <<w, s>> \in SafeInodes
    <3>1. At(w, s, "replace") /\ s \in {"main", "backup"}
      BY <1>3 DEF Replace, Stage
    <3>2. Finished(<<w, s>>)
      BY <3>1 DEF AtomicInv, MainProgress, BackupProgress
    <3>3. Sealed(<<w, s>>)
      BY <3>1 DEF Sealed, At
    <3>4. QED
      BY <3>2, <3>3, InodesDistinct DEF Safe, SafeInodes
  <2>4. QED
    BY <1>0, <2>1, <2>2, <2>3
<1>4. ASSUME NEW w \in Writers, NEW s \in Stage, OpenTemporary(w, s)
      PROVE  entry'[n] = entry[n] /\ journal' = journal
  <2>1. journal' = journal
    BY <1>4 DEF OpenTemporary
  <2>2. entry' = [entry EXCEPT ![<<w, s>>] = <<w, s>>]
    BY <1>4, OpenOwn
  <2>3. <<w, s>> # n
    BY <1>1
  <2>4. QED
    BY <1>0, <1>1, <2>1, <2>2, <2>3
<1>5. ASSUME NEW w \in Writers, NEW s \in Stage, Unlink(w, s)
      PROVE  entry'[n] = entry[n] /\ journal' = journal
  <2>1. journal' = journal
    BY <1>5 DEF Unlink
  <2>2. entry' = [entry EXCEPT ![<<w, s>>] = None]
    BY <1>5, UnlinkOwn
  <2>3. <<w, s>> # n
    BY <1>1
  <2>4. QED
    BY <1>0, <1>1, <2>1, <2>2, <2>3
<1>6. ASSUME NEW m \in Names, CommitEntry(m)
      PROVE  entry'[n] = entry[n] /\ journal'[n] \in {entry[n], journal[n]}
  BY <1>0, <1>1, <1>6 DEF CommitEntry
<1>7. ASSUME NEW w \in Writers, NEW s \in Stage, SyncDirectory(w, s)
      PROVE  entry' = entry /\ journal' = entry
  BY <1>7 DEF SyncDirectory
<1>8. ASSUME Crash PROVE entry' = journal /\ journal' = journal
  BY <1>8 DEF Crash
<1>9. ASSUME UNCHANGED <<entry, journal>>
      PROVE  entry' = entry /\ journal' = journal
  BY <1>9
<1>10. ASSUME NEW w \in Writers, WriterStep(w)
       PROVE  /\ entry'[n] \in {entry[n]} \union SafeInodes'
              /\ journal'[n] \in {entry[n], journal[n]}
  BY <1>3, <1>4, <1>5, <1>7, <1>9, <1>10
     DEF WriterStep, Begin, CheckExists, Kill, Write, Fsync, Raise, files
<1> QED
  BY <1>2, <1>6, <1>8, <1>9, <1>10 DEF FileNext, WriteBack

(* The state stays well formed.                                            *)
LEMMA TypeStays ==
  ASSUME UniqueNames = TRUE, AtomicInv, FileNext
  PROVE  FileTypeOK'
<1>0. FileTypeOK
  BY DEF AtomicInv
<1>1. ASSUME NEW w \in Writers, Begin(w) PROVE FileTypeOK'
  BY <1>0, <1>1 DEF Begin, Goto, FileTypeOK, Stage, Steps, files, handles
<1>2. ASSUME NEW w \in Writers, CheckExists(w) PROVE FileTypeOK'
  <2>1. PICK step \in Stage \X Steps : at' = [at EXCEPT ![w] = step]
    <3>1. <<"main", "replace">> \in Stage \X Steps /\ <<"backup", "open">> \in Stage \X Steps
      BY DEF Stage, Steps
    <3>2. QED
      BY <1>2, <3>1 DEF CheckExists, Goto
  <2>2. at' \in [Writers -> Stage \X (Steps \union Outcomes)]
    BY <1>0, <2>1 DEF FileTypeOK
  <2>3. QED
    BY <1>0, <1>2, <2>2 DEF CheckExists, FileTypeOK, files, handles
<1>3. ASSUME NEW w \in Writers, Kill(w) PROVE FileTypeOK'
  BY <1>0, <1>3 DEF Kill, Goto, FileTypeOK, Stage, Outcomes, files, handles
<1>4. ASSUME NEW w \in Writers, NEW s \in Stage, OpenTemporary(w, s) PROVE FileTypeOK'
  <2>1. cached' \in [Inode -> Contents]
    <3>1. cached' = [cached EXCEPT ![<<w, s>>] = Blank]
      BY <1>4, OpenOwn
    <3>2. QED
      BY <1>0, <3>1, BlankIsContents DEF FileTypeOK
  <2>2. entry' \in [Names -> Inode \union {None}]
    <3>1. entry' = [entry EXCEPT ![<<w, s>>] = <<w, s>>]
      BY <1>4, OpenOwn
    <3>2. QED
      BY <1>0, <3>1, InodesDistinct DEF FileTypeOK
  <2>3. fd' \in [Writers -> [Stage -> Inode \union {None}]]
    <3>1. fd' = [fd EXCEPT ![w][s] = <<w, s>>]
      BY <1>4, OpenOwn
    <3>2. QED
      BY <1>0, <3>1, InodesDistinct DEF FileTypeOK
  <2>4. source' \in [Writers -> Inode \union {None}]
    <3>1. entry[Destination] \in Inode \union {None}
      BY <1>0, TargetNames DEF FileTypeOK
    <3>2. QED
      BY <1>0, <1>4, <3>1 DEF FileTypeOK, OpenTemporary
  <2>5. at' \in [Writers -> Stage \X (Steps \union Outcomes)]
    BY <1>0, <1>4 DEF FileTypeOK, OpenTemporary, Goto, Steps
  <2>6. written' \in [Writers -> 0 .. Chunks]
    BY <1>0, <1>4, ChunksAssumption DEF FileTypeOK, OpenTemporary
  <2>7. QED
    BY <1>0, <1>4, <2>1, <2>2, <2>3, <2>4, <2>5, <2>6 DEF FileTypeOK, OpenTemporary
<1>5. ASSUME NEW w \in Writers, NEW s \in Stage, Write(w, s) PROVE FileTypeOK'
  <2>1. cached' \in [Inode -> Contents]
    <3>1. Chunk(w, s) \in Writers \union {Original, Hole}
      <4>1. CASE s = "main"
        BY <4>1 DEF Chunk
      <4>2. CASE s = "backup"
        <5>1. source[w] \in Inode
          BY <1>5, <4>2 DEF Write, AtomicInv, BackupProgress, SafeInodes
        <5>2. written[w] + 1 \in 1 .. Chunks
          BY <1>5, WriteInBounds
        <5>3. cached[source[w]] \in Contents
          BY <1>0, <5>1 DEF FileTypeOK
        <5>4. cached[source[w]][written[w] + 1] \in Writers \union {Original, Hole}
          BY <5>2, <5>3 DEF Contents
        <5>5. QED
          BY <4>2, <5>4 DEF Chunk
      <4>3. QED
        BY <4>1, <4>2 DEF Stage
    <3>2. cached[<<w, s>>] \in Contents
      BY <1>0, InodesDistinct DEF FileTypeOK
    <3>3. [cached[<<w, s>>] EXCEPT ![written[w] + 1] = Chunk(w, s)] \in Contents
      BY <3>1, <3>2 DEF Contents
    <3>4. cached' = [cached EXCEPT ![<<w, s>>] =
                       [cached[<<w, s>>] EXCEPT ![written[w] + 1] = Chunk(w, s)]]
      BY <1>5, WriteOwn
    <3>5. QED
      BY <1>0, <3>3, <3>4 DEF FileTypeOK
  <2>2. at' \in [Writers -> Stage \X (Steps \union Outcomes)]
    BY <1>0, <1>5 DEF FileTypeOK, Write, Goto, Steps
  <2>3. written' \in [Writers -> 0 .. Chunks]
    <3>1. written[w] + 1 \in 0 .. Chunks
      BY <1>5, WriteInBounds
    <3>2. QED
      BY <1>0, <1>5, <3>1 DEF FileTypeOK, Write
  <2>4. QED
    BY <1>0, <1>5, <2>1, <2>2, <2>3 DEF FileTypeOK, Write
<1>6. ASSUME NEW w \in Writers, NEW s \in Stage, Fsync(w, s) PROVE FileTypeOK'
  <2>1. durable' \in [Inode -> Contents]
    <3>1. durable' = [durable EXCEPT ![<<w, s>>] = cached[<<w, s>>]]
      BY <1>6, FsyncOwn
    <3>2. QED
      BY <1>0, <3>1, InodesDistinct DEF FileTypeOK
  <2>2. at' \in [Writers -> Stage \X (Steps \union Outcomes)]
    BY <1>0, <1>6 DEF FileTypeOK, Fsync, Goto, Steps, Stage
  <2>3. QED
    BY <1>0, <1>6, <2>1, <2>2 DEF FileTypeOK, Fsync, handles
<1>7. ASSUME NEW w \in Writers, NEW s \in Stage, Replace(w, s) PROVE FileTypeOK'
  <2>1. entry' \in [Names -> Inode \union {None}]
    <3>1. entry' = [entry EXCEPT ![Target(s)] = <<w, s>>, ![<<w, s>>] = None]
      BY <1>7, ReplaceOwn
    <3>2. QED
      BY <1>0, <3>1, InodesDistinct DEF FileTypeOK
  <2>2. installs' \in Seq(Writers)
    BY <1>0, <1>7 DEF FileTypeOK, Replace
  <2>3. at' \in [Writers -> Stage \X (Steps \union Outcomes)]
    BY <1>0, <1>7 DEF FileTypeOK, Replace, Goto, Steps
  <2>4. QED
    BY <1>0, <1>7, <2>1, <2>2, <2>3 DEF FileTypeOK, Replace, handles
<1>8. ASSUME NEW w \in Writers, NEW s \in Stage, SyncDirectory(w, s) PROVE FileTypeOK'
  BY <1>0, <1>8 DEF SyncDirectory, Goto, FileTypeOK, Steps, handles
<1>9. ASSUME NEW w \in Writers, NEW s \in Stage, Raise(w, s) PROVE FileTypeOK'
  BY <1>0, <1>9 DEF Raise, Goto, FileTypeOK, Steps, files, handles
<1>10. ASSUME NEW w \in Writers, NEW s \in Stage, Unlink(w, s) PROVE FileTypeOK'
  <2>1. entry' \in [Names -> Inode \union {None}]
    BY <1>0, <1>10 DEF FileTypeOK, Unlink
  <2>2. at' \in [Writers -> Stage \X (Steps \union Outcomes)]
    BY <1>0, <1>10 DEF FileTypeOK, Unlink, AfterUnlink, Goto, Stage, Steps, Outcomes
  <2>3. QED
    BY <1>0, <1>10, <2>1, <2>2 DEF FileTypeOK, Unlink, handles
<1>11. ASSUME NEW i \in Inode, NEW k \in 1 .. Chunks, WriteBack(i, k) PROVE FileTypeOK'
  <2>0. durable[i] \in Contents /\ cached[i] \in Contents
    BY <1>0 DEF FileTypeOK
  <2>1. cached[i][k] \in Writers \union {Original, Hole}
    BY <2>0 DEF Contents
  <2>2. [durable[i] EXCEPT ![k] = cached[i][k]] \in Contents
    BY <2>0, <2>1 DEF Contents
  <2>3. durable' \in [Inode -> Contents]
    BY <1>0, <1>11, <2>2 DEF FileTypeOK, WriteBack
  <2>4. QED
    BY <1>0, <1>11, <2>3 DEF FileTypeOK, WriteBack, handles
<1>12. ASSUME NEW n \in Names, CommitEntry(n) PROVE FileTypeOK'
  BY <1>0, <1>12 DEF CommitEntry, FileTypeOK, handles
<1>13. ASSUME Crash PROVE FileTypeOK'
  BY <1>0, <1>13 DEF Crash, FileTypeOK, Stage, Outcomes, handles
<1> QED
  BY <1>1, <1>2, <1>3, <1>4, <1>5, <1>6, <1>7, <1>8, <1>9, <1>10, <1>11, <1>12, <1>13
     DEF FileNext, WriterStep

-----------------------------------------------------------------------------
(* The bytes of a safe inode do not change, not even in a crash.           *)
LEMMA SafeBytes ==
  ASSUME UniqueNames = TRUE, AtomicInv, NEW i \in SafeInodes, FileNext
  PROVE  cached'[i] = cached[i]
<1>0. cached \in [Inode -> Contents] /\ i \in Inode /\ Sealed(i) /\ Finished(i)
  BY DEF AtomicInv, FileTypeOK, SafeInodes, Safe
<1>1. ASSUME NEW w \in Writers, NEW s \in Stage, OpenTemporary(w, s) PROVE cached'[i] = cached[i]
  <2>1. i # <<w, s>>
    BY <1>0, <1>1 DEF OpenTemporary, Sealed, Stage
  <2>2. cached' = [cached EXCEPT ![<<w, s>>] = Blank]
    BY <1>1, OpenOwn
  <2>3. QED
    BY <1>0, <2>1, <2>2
<1>2. ASSUME NEW w \in Writers, NEW s \in Stage, Write(w, s) PROVE cached'[i] = cached[i]
  <2>1. i # <<w, s>>
    BY <1>0, <1>2 DEF Write, Sealed, Stage
  <2>2. cached' = [cached EXCEPT ![<<w, s>>] =
                     [cached[<<w, s>>] EXCEPT ![written[w] + 1] = Chunk(w, s)]]
    BY <1>2, WriteOwn
  <2>3. QED
    BY <1>0, <2>1, <2>2
<1>3. ASSUME Crash PROVE cached'[i] = cached[i]
  BY <1>0, <1>3 DEF Crash, Finished
<1>4. ASSUME NEW w \in Writers, WriterStep(w) PROVE cached'[i] = cached[i]
  BY <1>1, <1>2, <1>4
     DEF WriterStep, Begin, CheckExists, Kill, Fsync, Replace, SyncDirectory, Raise, Unlink,
         files
<1> QED
  BY <1>3, <1>4 DEF FileNext, WriteBack, CommitEntry

(* Once there is a destination no writer takes it away: the backup that    *)
(* begins after CheckExists finds something to copy.                       *)
LEMMA DestinationStays ==
  ASSUME UniqueNames = TRUE, AtomicInv, entry[Destination] # None,
         NEW w \in Writers, WriterStep(w)
  PROVE  entry'[Destination] # None
<1>0. entry \in [Names -> Inode \union {None}] /\ Destination \in Names
  BY TargetNames DEF AtomicInv, FileTypeOK
<1>1. \A s \in Stage : <<w, s>> # Destination /\ <<w, s>> # None
  BY OwnTemporary, TargetNames, InodesDistinct
<1>2. ASSUME NEW s \in Stage, OpenTemporary(w, s) PROVE entry'[Destination] # None
  <2>1. entry' = [entry EXCEPT ![<<w, s>>] = <<w, s>>]
    BY <1>2, OpenOwn
  <2>2. QED
    BY <1>0, <1>1, <2>1
<1>3. ASSUME NEW s \in Stage, Replace(w, s) PROVE entry'[Destination] # None
  <2>1. entry' = [entry EXCEPT ![Target(s)] = <<w, s>>, ![<<w, s>>] = None]
    BY <1>3, ReplaceOwn
  <2>2. QED
    BY <1>0, <1>1, <2>1
<1>4. ASSUME NEW s \in Stage, Unlink(w, s) PROVE entry'[Destination] # None
  <2>1. entry' = [entry EXCEPT ![<<w, s>>] = None]
    BY <1>4, UnlinkOwn
  <2>2. QED
    BY <1>0, <1>1, <2>1
<1> QED
  BY <1>2, <1>3, <1>4
     DEF WriterStep, Begin, CheckExists, Kill, Write, Fsync, SyncDirectory, Raise, files

(* A step of one writer leaves another's state and files alone.            *)
LEMMA OthersUndisturbed ==
  ASSUME UniqueNames = TRUE, AtomicInv, NEW w \in Writers, WriterStep(w),
         NEW v \in Writers, v # w
  PROVE  /\ at'[v] = at[v]
         /\ written'[v] = written[v]
         /\ fd'[v] = fd[v]
         /\ source'[v] = source[v]
         /\ \A r \in Stage : cached'[<<v, r>>] = cached[<<v, r>>]
         /\ \A r \in Stage : durable'[<<v, r>>] = durable[<<v, r>>]
<1>0. /\ at \in [Writers -> Stage \X (Steps \union Outcomes)]
      /\ written \in [Writers -> 0 .. Chunks]
      /\ fd \in [Writers -> [Stage -> Inode \union {None}]]
      /\ source \in [Writers -> Inode \union {None}]
      /\ cached \in [Inode -> Contents]
      /\ durable \in [Inode -> Contents]
  BY DEF AtomicInv, FileTypeOK
<1>1. \A r, s \in Stage : <<v, r>> \in Inode /\ <<v, r>> # <<w, s>>
  BY InodesDistinct
<1>2. at'[v] = at[v]
  BY <1>0 DEF WriterStep, Begin, CheckExists, Kill, OpenTemporary, Write, Fsync, Replace,
              SyncDirectory, Raise, Unlink, AfterUnlink, Goto
<1>3. written'[v] = written[v]
  BY <1>0 DEF WriterStep, Begin, CheckExists, Kill, OpenTemporary, Write, Fsync, Replace,
              SyncDirectory, Raise, Unlink, handles
<1>4. fd'[v] = fd[v]
  <2>1. ASSUME NEW s \in Stage, OpenTemporary(w, s)
        PROVE  fd'[v] = fd[v]
    <3>1. fd' = [fd EXCEPT ![w][s] = <<w, s>>]
      BY <2>1, OpenOwn
    <3>2. QED
      BY <1>0, <3>1
  <2>2. ASSUME \A s \in Stage : ~OpenTemporary(w, s)
        PROVE  fd' = fd
    BY <2>2 DEF WriterStep, Begin, CheckExists, Kill, Write, Fsync, Replace,
                SyncDirectory, Raise, Unlink, handles
  <2>3. QED
    BY <2>1, <2>2
<1>5. source'[v] = source[v]
  <2>1. ASSUME NEW s \in Stage, OpenTemporary(w, s)
        PROVE  source'[v] = source[v]
    BY <1>0, <2>1 DEF OpenTemporary
  <2>2. ASSUME \A s \in Stage : ~OpenTemporary(w, s)
        PROVE  source' = source
    BY <2>2 DEF WriterStep, Begin, CheckExists, Kill, Write, Fsync, Replace,
                SyncDirectory, Raise, Unlink, handles
  <2>3. QED
    BY <2>1, <2>2
<1>6. \A r \in Stage : cached'[<<v, r>>] = cached[<<v, r>>]
  <2>1. ASSUME NEW s \in Stage, OpenTemporary(w, s)
        PROVE  \A r \in Stage : cached'[<<v, r>>] = cached[<<v, r>>]
    <3>1. cached' = [cached EXCEPT ![<<w, s>>] = Blank]
      BY <2>1, OpenOwn
    <3>2. QED
      BY <1>0, <1>1, <3>1
  <2>2. ASSUME NEW s \in Stage, Write(w, s)
        PROVE  \A r \in Stage : cached'[<<v, r>>] = cached[<<v, r>>]
    <3>1. cached' = [cached EXCEPT ![<<w, s>>] =
                       [cached[<<w, s>>] EXCEPT ![written[w] + 1] = Chunk(w, s)]]
      BY <2>2, WriteOwn
    <3>2. QED
      BY <1>0, <1>1, <3>1
  <2>3. QED
    BY <2>1, <2>2 DEF WriterStep, Begin, CheckExists, Kill, Fsync, Replace, SyncDirectory,
                      Raise, Unlink, files
<1>7. \A r \in Stage : durable'[<<v, r>>] = durable[<<v, r>>]
  <2>1. ASSUME NEW s \in Stage, Fsync(w, s)
        PROVE  \A r \in Stage : durable'[<<v, r>>] = durable[<<v, r>>]
    <3>1. durable' = [durable EXCEPT ![<<w, s>>] = cached[<<w, s>>]]
      BY <2>1, FsyncOwn
    <3>2. QED
      BY <1>0, <1>1, <3>1
  <2>2. QED
    BY <2>1 DEF WriterStep, Begin, CheckExists, Kill, OpenTemporary, Write, Replace, SyncDirectory,
                Raise, Unlink, files
<1>8. QED
  BY <1>2, <1>3, <1>4, <1>5, <1>6, <1>7

(* What the others do leaves a writer where it was ...                     *)
LEMMA OthersProgress ==
  ASSUME UniqueNames = TRUE, AtomicInv, FileNext, NEW w \in Writers, WriterStep(w),
         NEW v \in Writers, v # w
  PROVE  MainProgress(v)' /\ BackupProgress(v)'
<1>1. MainProgress(v) /\ BackupProgress(v)
  BY DEF AtomicInv
<1>2. /\ at'[v] = at[v] /\ written'[v] = written[v]
      /\ fd'[v] = fd[v] /\ source'[v] = source[v]
      /\ \A r \in Stage : cached'[<<v, r>>] = cached[<<v, r>>]
      /\ \A r \in Stage : durable'[<<v, r>>] = durable[<<v, r>>]
  BY OthersUndisturbed
<1>3. MainProgress(v)'
  BY <1>1, <1>2 DEF MainProgress, At, Finished, Complete, Stage
<1>4. At(v, "backup", "write")' =>
        /\ source'[v] \in SafeInodes'
        /\ cached'[source'[v]] = cached[source[v]]
  BY <1>1, <1>2, SafeInodesGrow, SafeBytes DEF BackupProgress, At
<1>5. At(v, "backup", "open")' => entry'[Destination] # None
  BY <1>1, <1>2, DestinationStays DEF BackupProgress, At
<1>6. BackupProgress(v)'
  BY <1>1, <1>2, <1>4, <1>5 DEF BackupProgress, At, Finished, Complete, Stage
<1>7. QED
  BY <1>3, <1>6

(* ... and its own steps bring it further, the document before the backup. *)
LEMMA OwnProgress ==
  ASSUME UniqueNames = TRUE, AtomicInv, FileNext, NEW w \in Writers, WriterStep(w)
  PROVE  MainProgress(w)' /\ BackupProgress(w)'
<1>0. /\ at \in [Writers -> Stage \X (Steps \union Outcomes)]
      /\ written \in [Writers -> 0 .. Chunks]
      /\ fd \in [Writers -> [Stage -> Inode \union {None}]]
      /\ source \in [Writers -> Inode \union {None}]
      /\ cached \in [Inode -> Contents]
      /\ durable \in [Inode -> Contents]
  BY DEF AtomicInv, FileTypeOK
<1>1. MainProgress(w) /\ BackupProgress(w)
  BY DEF AtomicInv
<1>2. /\ <<w, "main">> \in Inode /\ <<w, "backup">> \in Inode
      /\ <<w, "main">> # <<w, "backup">>
  BY InodesDistinct DEF Stage
(* Whatever the backup does, the document stays finished.                  *)
<1>3. ASSUME \E step \in Steps : At(w, "backup", step), OpenTemporary(w, "backup") \/ Write(w, "backup")
      PROVE  Finished(<<w, "main">>)'
  <2>1. Finished(<<w, "main">>)
    BY <1>1, <1>3 DEF MainProgress
  <2>2. Sealed(<<w, "main">>)
    BY <1>3 DEF Sealed, At
  <2>3. QED
    BY <1>2, <2>1, <2>2, FinishedStays
<1>4. ASSUME OpenTemporary(w, "main") PROVE MainProgress(w)' /\ BackupProgress(w)'
  <2>1. at'[w] = <<"main", "write">> /\ written'[w] = 0
    BY <1>0, <1>4 DEF OpenTemporary, Goto
  <2>2. fd'[w]["main"] = <<w, "main">>
    <3>1. fd' = [fd EXCEPT ![w]["main"] = <<w, "main">>]
      BY <1>4, OpenOwn DEF Stage
    <3>2. QED
      BY <1>0, <3>1 DEF Stage
  <2>3. QED
    BY <2>1, <2>2, ChunksAssumption DEF MainProgress, BackupProgress, At
<1>5. ASSUME OpenTemporary(w, "backup") PROVE MainProgress(w)' /\ BackupProgress(w)'
  <2>1. at'[w] = <<"backup", "write">> /\ written'[w] = 0
    BY <1>0, <1>5 DEF OpenTemporary, Goto
  <2>2. fd'[w]["backup"] = <<w, "backup">>
    <3>1. fd' = [fd EXCEPT ![w]["backup"] = <<w, "backup">>]
      BY <1>5, OpenOwn DEF Stage
    <3>2. QED
      BY <1>0, <3>1 DEF Stage
  <2>3. At(w, "backup", "open")
    BY <1>5 DEF OpenTemporary
  <2>4. source'[w] \in SafeInodes'
    <3>1. source'[w] = entry[Destination]
      BY <1>0, <1>5 DEF OpenTemporary
    <3>2. entry[Destination] \in SafeInodes
      BY <1>1, <2>3, TargetNames DEF BackupProgress, AtomicInv, TargetsSafe
    <3>3. QED
      BY <3>1, <3>2, SafeInodesGrow
  <2>5. Finished(<<w, "main">>)'
    BY <1>3, <1>5, <2>3 DEF Steps
  <2>6. QED
    BY <2>1, <2>2, <2>4, <2>5, ChunksAssumption DEF MainProgress, BackupProgress, At
<1>6. ASSUME Write(w, "main") PROVE MainProgress(w)' /\ BackupProgress(w)'
  <2>1. At(w, "main", "write") /\ fd' = fd
    BY <1>6 DEF Write
  <2>2. /\ written[w] \in Nat /\ written[w] + 1 \in 1 .. Chunks
        /\ fd'[w]["main"] = <<w, "main">>
    BY <1>6, <2>1, WriteInBounds DEF Stage
  <2>3. written'[w] = written[w] + 1
    BY <1>0, <1>6 DEF Write
  <2>4. at'[w] = <<"main", IF written[w] + 1 = Chunks THEN "fsync" ELSE "write">>
    BY <1>0, <1>6 DEF Write, Goto
  <2>5. cached'[<<w, "main">>] = [cached[<<w, "main">>] EXCEPT ![written[w] + 1] = w]
    <3>1. cached' = [cached EXCEPT ![<<w, "main">>] =
                       [cached[<<w, "main">>] EXCEPT ![written[w] + 1] = Chunk(w, "main")]]
      BY <1>6, WriteOwn DEF Stage
    <3>2. QED
      BY <1>0, <1>2, <3>1 DEF Chunk
  <2>6. cached[<<w, "main">>] \in [1 .. Chunks -> Writers \union {Original, Hole}]
    BY <1>0, <1>2 DEF Contents
  <2>7. \A k \in 1 .. written[w] + 1 : cached'[<<w, "main">>][k] = w
    <3>1. \A k \in 1 .. written[w] : cached[<<w, "main">>][k] = w
      BY <1>1, <2>1 DEF MainProgress
    <3>2. \A k \in 1 .. written[w] + 1 : k \in 1 .. Chunks /\
            (k = written[w] + 1 \/ (k \in 1 .. written[w] /\ k # written[w] + 1))
      BY <2>2, ChunksAssumption
    <3>3. QED
      BY <2>5, <2>6, <3>1, <3>2
  <2>8. CASE written[w] + 1 = Chunks
    <3>1. cached'[<<w, "main">>] = Whole(w)
      BY <2>5, <2>6, <2>7, <2>8 DEF Whole
    <3>2. Complete(cached'[<<w, "main">>])
      BY <3>1 DEF Complete
    <3>3. QED
      BY <2>2, <2>4, <2>8, <3>2 DEF MainProgress, BackupProgress, At, Complete
  <2>9. CASE written[w] + 1 # Chunks
    <3>1. written'[w] < Chunks
      BY <2>2, <2>3, <2>9, ChunksAssumption
    <3>2. QED
      BY <2>2, <2>3, <2>4, <2>7, <2>9, <3>1 DEF MainProgress, BackupProgress, At
  <2>10. QED
    BY <2>8, <2>9
<1>7. ASSUME Write(w, "backup") PROVE MainProgress(w)' /\ BackupProgress(w)'
  <2>1. At(w, "backup", "write") /\ fd' = fd /\ source' = source
    BY <1>7 DEF Write
  <2>2. /\ written[w] \in Nat /\ written[w] + 1 \in 1 .. Chunks
        /\ fd'[w]["backup"] = <<w, "backup">>
    BY <1>7, <2>1, WriteInBounds DEF Stage
  <2>3. written'[w] = written[w] + 1
    BY <1>0, <1>7 DEF Write
  <2>4. at'[w] = <<"backup", IF written[w] + 1 = Chunks THEN "fsync" ELSE "write">>
    BY <1>0, <1>7 DEF Write, Goto
  <2>5. source[w] \in SafeInodes /\ source'[w] \in SafeInodes'
    BY <1>1, <2>1, SafeInodesGrow DEF BackupProgress
  <2>6. cached'[source'[w]] = cached[source[w]]
    BY <2>1, <2>5, SafeBytes
  <2>7. cached'[<<w, "backup">>] =
          [cached[<<w, "backup">>] EXCEPT
             ![written[w] + 1] = cached[source[w]][written[w] + 1]]
    <3>1. cached' = [cached EXCEPT ![<<w, "backup">>] =
                       [cached[<<w, "backup">>] EXCEPT
                          ![written[w] + 1] = Chunk(w, "backup")]]
      BY <1>7, WriteOwn DEF Stage
    <3>2. QED
      BY <1>0, <1>2, <3>1 DEF Chunk
  <2>8. /\ cached[<<w, "backup">>] \in [1 .. Chunks -> Writers \union {Original, Hole}]
        /\ cached[source[w]] \in [1 .. Chunks -> Writers \union {Original, Hole}]
    BY <1>0, <1>2, <2>5 DEF Contents, SafeInodes
  <2>9. \A k \in 1 .. written[w] + 1 : cached'[<<w, "backup">>][k] = cached[source[w]][k]
    <3>1. \A k \in 1 .. written[w] : cached[<<w, "backup">>][k] = cached[source[w]][k]
      BY <1>1, <2>1 DEF BackupProgress
    <3>2. \A k \in 1 .. written[w] + 1 : k \in 1 .. Chunks /\
            (k = written[w] + 1 \/ (k \in 1 .. written[w] /\ k # written[w] + 1))
      BY <2>2, ChunksAssumption
    <3>3. cached'[<<w, "backup">>][written[w] + 1] = cached[source[w]][written[w] + 1]
      BY <2>2, <2>7, <2>8
    <3>4. ASSUME NEW k \in 1 .. written[w], k \in 1 .. Chunks, k # written[w] + 1
          PROVE  cached'[<<w, "backup">>][k] = cached[<<w, "backup">>][k]
      BY <2>7, <2>8, <3>4
    <3>5. QED
      BY <3>1, <3>2, <3>3, <3>4
  <2>10. Finished(<<w, "main">>)'
    BY <1>3, <1>7, <2>1 DEF Steps
  <2>11. CASE written[w] + 1 = Chunks
    <3>1. cached'[<<w, "backup">>] = cached[source[w]]
      BY <2>7, <2>8, <2>9, <2>11
    <3>2. Complete(cached[source[w]])
      BY <2>5 DEF SafeInodes, Safe, Finished
    <3>3. Complete(cached'[<<w, "backup">>])
      BY <3>1, <3>2 DEF Complete
    <3>4. QED
      BY <2>2, <2>4, <2>10, <2>11, <3>3 DEF MainProgress, BackupProgress, At, Complete
  <2>12. CASE written[w] + 1 # Chunks
    <3>1. written'[w] < Chunks
      BY <2>2, <2>3, <2>12, ChunksAssumption
    <3>2. QED
      BY <2>2, <2>3, <2>4, <2>5, <2>6, <2>9, <2>10, <2>12, <3>1
         DEF MainProgress, BackupProgress, At
  <2>13. QED
    BY <2>11, <2>12
<1>8. ASSUME NEW s \in Stage, Fsync(w, s) PROVE MainProgress(w)' /\ BackupProgress(w)'
  <2>1. /\ At(w, s, "fsync") /\ cached' = cached
        /\ durable' = [durable EXCEPT ![<<w, s>>] = cached[<<w, s>>]]
    BY <1>8, FsyncOwn DEF Fsync
  <2>2. at'[w] \in {<<s, "check">>, <<s, "replace">>} /\ (s = "backup" => at'[w][2] = "replace")
    BY <1>0, <1>8 DEF Fsync, Goto
  <2>3. Complete(cached[<<w, s>>])
    BY <1>1, <2>1 DEF MainProgress, BackupProgress, Stage
  <2>4. Finished(<<w, s>>)'
    BY <1>0, <1>2, <2>1, <2>3 DEF Finished, Complete, Stage
  <2>5. s = "backup" => Finished(<<w, "main">>)'
    BY <1>0, <1>1, <1>2, <2>1 DEF MainProgress, Finished, Complete, Steps
  <2>6. QED
    BY <2>2, <2>4, <2>5 DEF MainProgress, BackupProgress, At, Stage
<1>9. ASSUME CheckExists(w) PROVE MainProgress(w)' /\ BackupProgress(w)'
  <2>1. Finished(<<w, "main">>)
    BY <1>1, <1>9 DEF CheckExists, MainProgress
  <2>2. Finished(<<w, "main">>)' /\ entry' = entry
    BY <1>9, <2>1 DEF CheckExists, files, Finished, Complete
  <2>3. \/ at'[w] = <<"main", "replace">>
        \/ at'[w] = <<"backup", "open">> /\ entry[Destination] # None
    BY <1>0, <1>9 DEF CheckExists, Goto
  <2>4. QED
    BY <2>2, <2>3 DEF MainProgress, BackupProgress, At
<1>10. ASSUME NEW s \in Stage, NEW step \in {"sync", "unlink"},
              \E from \in Steps : At(w, s, from),
              Goto(w, s, step), UNCHANGED <<cached, durable>>
       PROVE  MainProgress(w)' /\ BackupProgress(w)'
  <2>1. at'[w] = <<s, step>>
    BY <1>0, <1>10 DEF Goto
  <2>2. s = "backup" => Finished(<<w, "main">>)'
    BY <1>1, <1>10 DEF MainProgress, Finished, Complete
  <2>3. QED
    BY <2>1, <2>2 DEF MainProgress, BackupProgress, At, Stage
<1>11. ASSUME NEW s \in Stage, Unlink(w, s) PROVE MainProgress(w)' /\ BackupProgress(w)'
  <2>1. At(w, s, "unlink") /\ UNCHANGED <<cached, durable>>
    BY <1>11 DEF Unlink
  <2>2. s = "backup" => Finished(<<w, "main">>)'
    BY <1>1, <2>1 DEF MainProgress, Finished, Complete, Steps
  <2>3. \/ at'[w] \in {<<"main", "unlink">>, <<"main", "raised">>, <<"main", "ok">>}
        \/ s = "backup" /\ at'[w] = <<"main", "replace">>
    BY <1>0, <1>11 DEF Unlink, AfterUnlink, Goto, Stage
  <2>4. QED
    BY <2>2, <2>3 DEF MainProgress, BackupProgress, At
<1>12. ASSUME Begin(w) \/ Kill(w) PROVE MainProgress(w)' /\ BackupProgress(w)'
  <2>1. at'[w] \in {<<"main", "open">>, <<"main", "killed">>}
    BY <1>0, <1>12 DEF Begin, Kill, Goto
  <2>2. QED
    BY <2>1 DEF MainProgress, BackupProgress, At
<1>13. ASSUME NEW s \in Stage, Replace(w, s) \/ SyncDirectory(w, s) \/ Raise(w, s)
       PROVE  MainProgress(w)' /\ BackupProgress(w)'
  <2>1. /\ Goto(w, s, "sync") \/ Goto(w, s, "unlink")
        /\ \E from \in Steps : At(w, s, from)
        /\ UNCHANGED <<cached, durable>>
    BY <1>13 DEF Replace, SyncDirectory, Raise, Steps, files
  <2>2. QED
    BY <1>10, <2>1
<1> QED
  BY <1>4, <1>5, <1>6, <1>7, <1>8, <1>9, <1>11, <1>12, <1>13 DEF WriterStep, Stage

(* Every step keeps what is known of every writer's progress.              *)
LEMMA ProgressStays ==
  ASSUME UniqueNames = TRUE, AtomicInv, FileNext, NEW v \in Writers
  PROVE  MainProgress(v)' /\ BackupProgress(v)'
<1>1. MainProgress(v) /\ BackupProgress(v)
  BY DEF AtomicInv
<1>2. ASSUME NEW w \in Writers, WriterStep(w) PROVE MainProgress(v)' /\ BackupProgress(v)'
  BY <1>2, OthersProgress, OwnProgress
<1>3. ASSUME NEW j \in Inode, NEW k \in 1 .. Chunks, WriteBack(j, k)
      PROVE  MainProgress(v)' /\ BackupProgress(v)'
  <2>1. \A s \in Stage : Finished(<<v, s>>) => Finished(<<v, s>>)'
    BY <1>3, WriteBackKeepsFinished, InodesDistinct
  <2>2. UNCHANGED <<cached, entry, at, written, fd, source>>
    BY <1>3 DEF WriteBack, handles
  <2>3. QED
    BY <1>1, <2>1, <2>2, SafeInodesGrow
       DEF MainProgress, BackupProgress, At, Complete, Stage
<1>4. ASSUME NEW n \in Names, CommitEntry(n) PROVE MainProgress(v)' /\ BackupProgress(v)'
  <2>1. UNCHANGED <<cached, durable, entry, at, written, fd, source>>
    BY <1>4 DEF CommitEntry, handles
  <2>2. QED
    BY <1>1, <2>1, SafeInodesGrow
       DEF MainProgress, BackupProgress, At, Complete, Finished
<1>5. ASSUME Crash PROVE MainProgress(v)' /\ BackupProgress(v)'
  <2>1. at'[v][2] \in Outcomes
    BY <1>5 DEF Crash, Active, Outcomes
  <2>2. \A s \in Stage, step \in Steps : ~At(v, s, step)'
    BY <2>1 DEF At, Steps, Outcomes
  <2>3. QED
    BY <2>2 DEF MainProgress, BackupProgress, Stage, Steps
<1>6. QED
  BY <1>2, <1>3, <1>4, <1>5 DEF FileNext

(* A stuttering step keeps the invariant.                                  *)
LEMMA StutterKeepsInvariant ==
  ASSUME AtomicInv, UNCHANGED fileVars
  PROVE  AtomicInv'
<1>1. UNCHANGED <<cached, durable, entry, journal, at, written, fd, source, failed, installs>>
  BY DEF fileVars
<1>2. FileTypeOK' /\ OwnNames'
  BY <1>1 DEF AtomicInv, FileTypeOK, OwnNames, LinksHome
<1>3. \A i : Safe(i) <=> Safe(i)'
  BY <1>1 DEF Safe, Sealed, Finished, At, Complete
<1>4. SafeInodes' = SafeInodes
  BY <1>3 DEF SafeInodes
<1>5. TargetsSafe'
  BY <1>1, <1>4 DEF AtomicInv, TargetsSafe
<1>6. \A w \in Writers : MainProgress(w)' /\ BackupProgress(w)'
  BY <1>1, <1>4 DEF AtomicInv, MainProgress, BackupProgress, At, Finished, Complete
<1>7. QED
  BY <1>2, <1>5, <1>6 DEF AtomicInv

-----------------------------------------------------------------------------
(* With a temporary name of its own for every call, the invariant holds    *)
(* however the writers, the disk and the crashes interleave.               *)
THEOREM AtomicInvariant ==
  ASSUME UniqueNames = TRUE
  PROVE  FileSpec => []AtomicInv
<1>1. FileInit => AtomicInv
  BY InitInvariant
<1>2. AtomicInv /\ [FileNext]_fileVars => AtomicInv'
  <2>1. ASSUME AtomicInv, FileNext PROVE AtomicInv'
    BY <2>1, TypeStays, OwnNamesStay, TargetsStaySafe, ProgressStays DEF AtomicInv
  <2>2. QED
    BY <2>1, StutterKeepsInvariant
<1>3. QED
  BY <1>1, <1>2, PTL DEF FileSpec

(* The writers' state stays well formed: in particular a copy or a         *)
(* document is never written past its end (_atomic_text and the others).   *)
THEOREM WritersTypeCorrect ==
  ASSUME UniqueNames = TRUE
  PROVE  FileSpec => []FileTypeOK
<1>1. AtomicInv => FileTypeOK
  BY DEF AtomicInv
<1>2. QED
  BY <1>1, AtomicInvariant, PTL

(* docs/decisions.md:118-119: a reader, or the machine after a crash, finds *)
(* a whole document at the destination and at its .bak, for any number of  *)
(* concurrent writers and documents of any length, as long as every writer *)
(* has a temporary name of its own.                                        *)
THEOREM TargetsAlwaysComplete ==
  ASSUME UniqueNames = TRUE
  PROVE  FileSpec => []TargetsComplete
<1>1. AtomicInv => TargetsComplete
  BY DEF AtomicInv, TargetsSafe, SafeInodes, Safe, Finished, TargetsComplete
<1>2. QED
  BY <1>1, AtomicInvariant, PTL

-----------------------------------------------------------------------------
(***************************************************************************)
(* Durability: the document of a writer that returned outlives every       *)
(* crash, and neither a writer nor a crash leaves a temporary file that    *)
(* its owner has removed.                                                  *)
(*                                                                         *)
(* Both rest on the order of the last steps: the temporary name is gone    *)
(* when the directory is synced, and the sync comes before the return.     *)
(***************************************************************************)

(* No temporary file, and none that a crash brings back.                   *)
Gone(w, s) == entry[<<w, s>>] = None /\ journal[<<w, s>>] = None

(* What a writer has left under its temporary names.                       *)
Clean(w) ==
  /\ at[w][1] = "main" /\ at[w][2] \in Steps \union {"idle"} => entry[<<w, "backup">>] = None
  /\ At(w, "main", "idle") => Gone(w, "backup")
  /\ At(w, "main", "sync") => entry[<<w, "main">>] = None
  /\ At(w, "main", "unlink") /\ ~failed[w] => \A s \in Stage : Gone(w, s)
  /\ At(w, "main", "ok") => \A s \in Stage : Gone(w, s)
  /\ At(w, "main", "raised") =>
       \A s \in Stage : entry[<<w, s>>] # None => journal[<<w, s>>] # None

(* The document is written when the writer goes on to the disk.            *)
DocumentWritten(w) ==
  \/ at[w] \in {<<"main", "fsync">>, <<"main", "check">>, <<"main", "replace">>}
  \/ \E step \in Steps : At(w, "backup", step)
  => cached[<<w, "main">>] = Whole(w)

(* What was installed once is never written again.                         *)
InstalledStay ==
  \A n \in DOMAIN installs :
    /\ <<installs[n], "main">> \in SafeInodes
    /\ cached[<<installs[n], "main">>] = Whole(installs[n])

(* Inode i is the document of w or of one that replaced it later.          *)
Covers(i, w) ==
  \E m, n \in DOMAIN installs : installs[m] = w /\ m <= n /\ i = <<installs[n], "main">>

(* How much of it has reached the disk.                                    *)
Acknowledging(w) ==
  /\ At(w, "main", "sync") => Covers(entry[Destination], w)
  /\ (At(w, "main", "unlink") /\ ~failed[w]) \/ At(w, "main", "ok") =>
       Covers(entry[Destination], w) /\ Covers(journal[Destination], w)

DurableInv ==
  /\ AtomicInv
  /\ InstalledStay
  /\ \A w \in Writers : Clean(w) /\ DocumentWritten(w) /\ Acknowledging(w)

-----------------------------------------------------------------------------
(* The invariant holds before the first writer begins.                     *)
LEMMA InitDurable ==
  ASSUME UniqueNames = TRUE, FileInit
  PROVE  DurableInv
<1>1. AtomicInv
  BY InitInvariant
<1>2. ASSUME NEW w \in Writers PROVE at[w] = <<"main", "idle">>
  BY DEF FileInit
<1>3. ASSUME NEW w \in Writers, NEW s \in Stage PROVE Gone(w, s)
  <2>1. <<w, s>> \in Names /\ <<w, s>> # Destination
    BY OwnTemporary, TargetNames
  <2>2. QED
    BY <2>1 DEF FileInit, Gone
<1>4. ASSUME NEW w \in Writers PROVE Clean(w) /\ DocumentWritten(w) /\ Acknowledging(w)
  BY <1>2, <1>3 DEF Clean, DocumentWritten, Acknowledging, At, Gone, Stage, Steps
<1>5. InstalledStay
  BY DEF FileInit, InstalledStay
<1>6. QED
  BY <1>1, <1>4, <1>5 DEF DurableInv

-----------------------------------------------------------------------------
(* What can happen to the names of a writer without a step of its own: a   *)
(* name reaches the disk as it is.                                         *)
NamesKept(v) ==
  \A s \in Stage :
    /\ entry'[<<v, s>>] = entry[<<v, s>>]
    /\ journal'[<<v, s>>] \in {journal[<<v, s>>], entry[<<v, s>>]}

(* Steps of the other writers leave it at that.                            *)
LEMMA OthersKeepNames ==
  ASSUME UniqueNames = TRUE, AtomicInv, NEW w \in Writers, WriterStep(w),
         NEW v \in Writers, v # w
  PROVE  NamesKept(v)
<1>0. /\ entry \in [Names -> Inode \union {None}]
      /\ journal \in [Names -> Inode \union {None}]
  BY DEF AtomicInv, FileTypeOK
<1>1. ASSUME NEW r \in Stage, NEW s \in Stage
      PROVE  <<v, r>> \in Names /\ <<v, r>> # <<w, s>> /\ <<v, r>> # Target(s)
  BY OwnTemporary, TargetNames DEF Stage
<1>2. ASSUME NEW s \in Stage, OpenTemporary(w, s) PROVE NamesKept(v)
  <2>1. entry' = [entry EXCEPT ![<<w, s>>] = <<w, s>>] /\ journal' = journal
    BY <1>2, OpenOwn DEF OpenTemporary
  <2>2. QED
    BY <1>0, <1>1, <2>1 DEF NamesKept
<1>3. ASSUME NEW s \in Stage, Replace(w, s) PROVE NamesKept(v)
  <2>1. /\ entry' = [entry EXCEPT ![Target(s)] = <<w, s>>, ![<<w, s>>] = None]
        /\ journal' = journal
    BY <1>3, ReplaceOwn DEF Replace
  <2>2. QED
    BY <1>0, <1>1, <2>1 DEF NamesKept
<1>4. ASSUME NEW s \in Stage, Unlink(w, s) PROVE NamesKept(v)
  <2>1. entry' = [entry EXCEPT ![<<w, s>>] = None] /\ journal' = journal
    BY <1>4, UnlinkOwn DEF Unlink
  <2>2. QED
    BY <1>0, <1>1, <2>1 DEF NamesKept
<1>5. ASSUME NEW s \in Stage, SyncDirectory(w, s) PROVE NamesKept(v)
  BY <1>5 DEF SyncDirectory, NamesKept
<1>6. ASSUME UNCHANGED <<entry, journal>> PROVE NamesKept(v)
  BY <1>6 DEF NamesKept
<1> QED
  BY <1>2, <1>3, <1>4, <1>5, <1>6
     DEF WriterStep, Begin, CheckExists, Kill, Write, Fsync, Raise, files

(* An exception of one writer is not one of another.                       *)
LEMMA OthersKeepFailed ==
  ASSUME AtomicInv, NEW w \in Writers, WriterStep(w), NEW v \in Writers, v # w
  PROVE  failed'[v] <=> failed[v]
<1>0. failed \in [Writers -> BOOLEAN]
  BY DEF AtomicInv, FileTypeOK
<1>1. ASSUME NEW s \in Stage, Raise(w, s) PROVE failed'[v] <=> failed[v]
  BY <1>0, <1>1 DEF Raise
<1>2. ASSUME failed' = failed PROVE failed'[v] <=> failed[v]
  BY <1>2
<1> QED
  BY <1>1, <1>2 DEF WriterStep, Begin, CheckExists, Kill, OpenTemporary, Write, Fsync, Replace,
                    SyncDirectory, Unlink

(* A writer that has not moved has left no more than before.               *)
LEMMA CleanKept ==
  ASSUME NEW v \in Writers, Clean(v), at'[v] = at[v], failed'[v] <=> failed[v], NamesKept(v)
  PROVE  Clean(v)'
<1>1. ASSUME NEW s \in Stage, Gone(v, s) PROVE Gone(v, s)'
  BY <1>1 DEF Gone, NamesKept
<1>2. At(v, "main", "raised")' =>
        \A s \in Stage : entry'[<<v, s>>] # None => journal'[<<v, s>>] # None
  BY DEF Clean, At, NamesKept
<1>3. /\ at'[v][1] = "main" /\ at'[v][2] \in Steps \union {"idle"} =>
           entry'[<<v, "backup">>] = None
      /\ At(v, "main", "sync")' => entry'[<<v, "main">>] = None
  BY DEF Clean, At, NamesKept, Stage
<1>4. At(v, "main", "idle")' => Gone(v, "backup")'
  BY <1>1 DEF Clean, At, Stage
<1>5. (At(v, "main", "unlink")' /\ ~failed'[v]) \/ At(v, "main", "ok")' =>
        \A s \in Stage : Gone(v, s)'
  BY <1>1 DEF Clean, At
<1>6. QED
  BY <1>2, <1>3, <1>4, <1>5 DEF Clean, At, Gone

(* Its own steps clean up: a name is gone before the directory is synced.  *)
LEMMA OwnClean ==
  ASSUME UniqueNames = TRUE, AtomicInv, NEW w \in Writers, Clean(w), WriterStep(w)
  PROVE  Clean(w)'
<1>0. /\ at \in [Writers -> Stage \X (Steps \union Outcomes)]
      /\ entry \in [Names -> Inode \union {None}]
      /\ journal \in [Names -> Inode \union {None}]
  BY DEF AtomicInv, FileTypeOK
<1>f. failed \in [Writers -> BOOLEAN]
  BY DEF AtomicInv, FileTypeOK
<1>1. ASSUME NEW r \in Stage, NEW s \in Stage
      PROVE  <<w, r>> \in Names /\ <<w, r>> # Target(s)
  BY OwnTemporary, TargetNames DEF Stage
<1>2. ASSUME Begin(w) PROVE Clean(w)'
  <2>1. at'[w] = <<"main", "open">> /\ entry' = entry /\ At(w, "main", "idle")
    BY <1>0, <1>2 DEF Begin, Goto, files
  <2>2. QED
    BY <2>1 DEF Clean, At, Gone
<1>3. ASSUME Kill(w) PROVE Clean(w)'
  <2>1. at'[w] = <<"main", "killed">>
    BY <1>0, <1>3 DEF Kill, Goto
  <2>2. QED
    BY <2>1 DEF Clean, At, Steps
(* Until the document is installed only the backup's name matters.         *)
<1>4. ASSUME NEW step \in {"write", "fsync", "check", "replace"},
             at'[w] = <<"main", step>>, entry'[<<w, "backup">>] = None
      PROVE  Clean(w)'
  BY <1>4 DEF Clean, At
<1>5. ASSUME NEW step, at'[w] = <<"backup", step>> PROVE Clean(w)'
  BY <1>5 DEF Clean, At
<1>6. ASSUME \E step \in Steps : At(w, "main", step) PROVE entry[<<w, "backup">>] = None
  BY <1>6 DEF Clean, At
<1>7. ASSUME OpenTemporary(w, "main") PROVE Clean(w)'
  <2>1. at'[w] = <<"main", "write">> /\ At(w, "main", "open")
    BY <1>0, <1>7 DEF OpenTemporary, Goto
  <2>2. entry' = [entry EXCEPT ![<<w, "main">>] = <<w, "main">>]
    BY <1>7, OpenOwn DEF Stage
  <2>3. entry'[<<w, "backup">>] = None
    BY <1>0, <1>1, <1>6, <2>1, <2>2 DEF Stage, Steps
  <2>4. QED
    BY <1>4, <2>1, <2>3
<1>8. ASSUME Write(w, "main") \/ Fsync(w, "main") PROVE Clean(w)'
  <2>1. \E step \in {"write", "fsync", "check", "replace"} : at'[w] = <<"main", step>>
    BY <1>0, <1>8 DEF Write, Fsync, Goto
  <2>2. entry' = entry /\ \E step \in Steps : At(w, "main", step)
    BY <1>8 DEF Write, Fsync, Steps
  <2>3. QED
    BY <1>4, <1>6, <2>1, <2>2
<1>9. ASSUME CheckExists(w) PROVE Clean(w)'
  <2>1. at'[w] \in {<<"main", "replace">>, <<"backup", "open">>}
    BY <1>0, <1>9 DEF CheckExists, Goto
  <2>2. entry' = entry /\ \E step \in Steps : At(w, "main", step)
    BY <1>9 DEF CheckExists, files, Steps
  <2>3. QED
    BY <1>4, <1>5, <1>6, <2>1, <2>2
<1>10. ASSUME Replace(w, "main") PROVE Clean(w)'
  <2>1. at'[w] = <<"main", "sync">> /\ At(w, "main", "replace")
    BY <1>0, <1>10 DEF Replace, Goto
  <2>2. entry' = [entry EXCEPT ![Target("main")] = <<w, "main">>, ![<<w, "main">>] = None]
    BY <1>10, ReplaceOwn DEF Stage
  <2>3. entry'[<<w, "main">>] = None /\ entry'[<<w, "backup">>] = None
    BY <1>0, <1>1, <1>6, <2>1, <2>2 DEF Stage, Steps
  <2>4. QED
    BY <2>1, <2>3 DEF Clean, At
<1>11. ASSUME SyncDirectory(w, "main") PROVE Clean(w)'
  <2>1. at'[w] = <<"main", "unlink">> /\ At(w, "main", "sync")
    BY <1>0, <1>11 DEF SyncDirectory, Goto
  <2>2. entry' = entry /\ journal' = entry
    BY <1>11 DEF SyncDirectory
  <2>3. entry[<<w, "main">>] = None /\ entry[<<w, "backup">>] = None
    BY <1>6, <2>1 DEF Clean, Steps
  <2>4. \A s \in Stage : Gone(w, s)'
    BY <2>2, <2>3 DEF Gone, Stage
  <2>5. QED
    BY <2>1, <2>2, <2>3, <2>4 DEF Clean, At
<1>12. ASSUME Raise(w, "main") PROVE Clean(w)'
  <2>1. at'[w] = <<"main", "unlink">> /\ entry' = entry
    BY <1>0, <1>12 DEF Raise, Goto, files
  <2>2. failed'[w]
    BY <1>f, <1>12 DEF Raise
  <2>3. \E step \in Steps : At(w, "main", step)
    BY <1>12 DEF Raise
  <2>4. QED
    BY <1>6, <2>1, <2>2, <2>3 DEF Clean, At
<1>13. ASSUME Unlink(w, "main") PROVE Clean(w)'
  <2>1. At(w, "main", "unlink") /\ journal' = journal
    BY <1>13 DEF Unlink
  <2>2. at'[w] = <<"main", "raised">> \/ (~failed[w] /\ at'[w] = <<"main", "ok">>)
    BY <1>0, <1>13 DEF Unlink, AfterUnlink, Goto
  <2>3. entry' = [entry EXCEPT ![<<w, "main">>] = None]
    BY <1>13, UnlinkOwn DEF Stage
  <2>4. entry'[<<w, "main">>] = None /\ entry'[<<w, "backup">>] = None
    BY <1>0, <1>1, <1>6, <2>1, <2>3 DEF Stage, Steps
  <2>5. CASE at'[w] = <<"main", "raised">>
    BY <2>4, <2>5 DEF Clean, At, Stage, Steps
  <2>6. CASE ~failed[w] /\ at'[w] = <<"main", "ok">>
    <3>1. \A s \in Stage : Gone(w, s)'
      BY <2>1, <2>4, <2>6 DEF Clean, Gone, Stage
    <3>2. QED
      BY <2>6, <3>1 DEF Clean, At, Steps
  <2>7. QED
    BY <2>2, <2>5, <2>6
<1>14. ASSUME Unlink(w, "backup") PROVE Clean(w)'
  <2>1. /\ at'[w] = <<"main", "replace">> \/ (failed[w] /\ at'[w] = <<"main", "unlink">>)
        /\ failed' = failed
    BY <1>0, <1>14 DEF Unlink, AfterUnlink, Goto
  <2>2. entry' = [entry EXCEPT ![<<w, "backup">>] = None]
    BY <1>14, UnlinkOwn DEF Stage
  <2>3. entry'[<<w, "backup">>] = None
    BY <1>0, <1>1, <2>2 DEF Stage
  <2>4. CASE at'[w] = <<"main", "replace">>
    BY <1>4, <2>3, <2>4
  <2>5. CASE failed[w] /\ at'[w] = <<"main", "unlink">>
    BY <2>1, <2>3, <2>5 DEF Clean, At
  <2>6. QED
    BY <2>1, <2>4, <2>5
<1>15. ASSUME \/ OpenTemporary(w, "backup") \/ Write(w, "backup") \/ Fsync(w, "backup")
              \/ Replace(w, "backup") \/ SyncDirectory(w, "backup") \/ Raise(w, "backup")
       PROVE  Clean(w)'
  <2>1. \E step \in Steps : at'[w] = <<"backup", step>>
    BY <1>0, <1>15 DEF OpenTemporary, Write, Fsync, Replace, SyncDirectory, Raise, Goto, Steps
  <2>2. QED
    BY <1>5, <2>1
<1> QED
  BY <1>2, <1>3, <1>7, <1>8, <1>9, <1>10, <1>11, <1>12, <1>13, <1>14, <1>15
     DEF WriterStep, Stage

(* A crash brings nothing back that was not on the disk.                   *)
LEMMA CleanSurvivesCrash ==
  ASSUME AtomicInv, NEW v \in Writers, Clean(v), Crash
  PROVE  Clean(v)'
<1>1. /\ entry' = journal /\ journal' = journal
      /\ at'[v] = IF Active(v) THEN <<"main", "killed">> ELSE at[v]
  BY DEF Crash
<1>2. CASE Active(v)
  BY <1>1, <1>2 DEF Clean, At, Steps
<1>3. CASE ~Active(v)
  <2>1. at'[v] = at[v] /\ at'[v][2] \in Outcomes
    BY <1>1, <1>3 DEF Active
  <2>2. at'[v][2] \notin Steps
    BY <2>1 DEF Steps, Outcomes
  <2>3. \A s \in Stage : Gone(v, s) => Gone(v, s)'
    BY <1>1 DEF Gone
  <2>4. at'[v][1] = "main" /\ at'[v][2] = "idle" => At(v, "main", "idle")
    <3>1. at[v] \in Stage \X (Steps \union Outcomes)
      BY DEF AtomicInv, FileTypeOK
    <3>2. QED
      BY <2>1, <3>1 DEF At
  <2>5. QED
    BY <1>1, <2>1, <2>2, <2>3, <2>4 DEF Clean, At, Gone, Stage, Steps
<1>4. QED
  BY <1>2, <1>3

(* Every step keeps what is known of every writer's names.                 *)
LEMMA CleanStays ==
  ASSUME UniqueNames = TRUE, AtomicInv, FileNext, NEW v \in Writers, Clean(v)
  PROVE  Clean(v)'
<1>1. ASSUME NEW w \in Writers, WriterStep(w), v # w PROVE Clean(v)'
  BY <1>1, OthersKeepNames, OthersKeepFailed, OthersUndisturbed, CleanKept
<1>2. ASSUME NEW w \in Writers, WriterStep(w), v = w PROVE Clean(v)'
  BY <1>2, OwnClean
<1>3. ASSUME NEW j \in Inode, NEW k \in 1 .. Chunks, WriteBack(j, k) PROVE Clean(v)'
  <2>1. UNCHANGED <<entry, journal, at, failed>>
    BY <1>3 DEF WriteBack
  <2>2. QED
    BY <2>1, CleanKept DEF NamesKept
<1>4. ASSUME NEW n \in Names, CommitEntry(n) PROVE Clean(v)'
  <2>1. UNCHANGED <<entry, at, failed>>
    BY <1>4 DEF CommitEntry
  <2>2. NamesKept(v)
    <3>1. journal \in [Names -> Inode \union {None}]
      BY DEF AtomicInv, FileTypeOK
    <3>2. \A s \in Stage : <<v, s>> \in Names
      BY OwnTemporary
    <3>3. QED
      BY <1>4, <3>1, <3>2 DEF CommitEntry, NamesKept
  <2>3. QED
    BY <2>1, <2>2, CleanKept
<1>5. QED
  BY <1>1, <1>2, <1>3, <1>4, CleanSurvivesCrash DEF FileNext

-----------------------------------------------------------------------------
(* The bytes of a document change only while its writer writes it.         *)
LEMMA DocumentStays ==
  ASSUME UniqueNames = TRUE, AtomicInv, FileNext, NEW v \in Writers, DocumentWritten(v)
  PROVE  DocumentWritten(v)'
<1>0. /\ at \in [Writers -> Stage \X (Steps \union Outcomes)]
      /\ written \in [Writers -> 0 .. Chunks]
      /\ cached \in [Inode -> Contents]
  BY DEF AtomicInv, FileTypeOK
<1>1. /\ <<v, "main">> \in Inode /\ <<v, "backup">> \in Inode
      /\ <<v, "main">> # <<v, "backup">>
  BY InodesDistinct DEF Stage
<1>2. ASSUME at'[v] = at[v], cached'[<<v, "main">>] = cached[<<v, "main">>]
      PROVE  DocumentWritten(v)'
  BY <1>2 DEF DocumentWritten, At
<1>3. ASSUME NEW w \in Writers, WriterStep(w), v # w PROVE DocumentWritten(v)'
  BY <1>2, <1>3, OthersUndisturbed DEF Stage
(* Its own steps, apart from the write that completes the document.        *)
<1>4. ASSUME cached'[<<v, "main">>] = cached[<<v, "main">>],
             \/ at[v] \in {<<"main", "fsync">>, <<"main", "check">>, <<"main", "replace">>}
             \/ \E step \in Steps : At(v, "backup", step)
      PROVE  DocumentWritten(v)'
  BY <1>4 DEF DocumentWritten
<1>5. ASSUME at'[v] \in {<<"main", step>> : step \in {"open", "write", "sync", "unlink"}
                                                      \union Outcomes}
      PROVE  DocumentWritten(v)'
  BY <1>5 DEF DocumentWritten, At, Outcomes
<1>6. ASSUME Write(v, "main") PROVE DocumentWritten(v)'
  <2>1. at'[v] = <<"main", IF written[v] + 1 = Chunks THEN "fsync" ELSE "write">>
    BY <1>0, <1>6 DEF Write, Goto
  <2>2. CASE written[v] + 1 = Chunks
    <3>1. cached'[<<v, "main">>] = [cached[<<v, "main">>] EXCEPT ![written[v] + 1] = v]
      <4>1. cached' = [cached EXCEPT ![<<v, "main">>] =
                         [cached[<<v, "main">>] EXCEPT ![written[v] + 1] = Chunk(v, "main")]]
        BY <1>6, WriteOwn DEF Stage
      <4>2. QED
        BY <1>0, <1>1, <4>1 DEF Chunk
    <3>2. cached[<<v, "main">>] \in [1 .. Chunks -> Writers \union {Original, Hole}]
      BY <1>0, <1>1 DEF Contents
    <3>3. \A k \in 1 .. written[v] : cached[<<v, "main">>][k] = v
      BY <1>6 DEF AtomicInv, MainProgress, Write
    <3>4. written[v] \in Nat /\ \A k \in 1 .. Chunks : k \in 1 .. written[v] \/ k = written[v] + 1
      BY <1>0, <2>2, ChunksAssumption
    <3>5. \A k \in 1 .. Chunks : cached'[<<v, "main">>][k] = v
      BY <3>1, <3>2, <3>3, <3>4
    <3>6. cached'[<<v, "main">>] = Whole(v)
      BY <3>1, <3>2, <3>5 DEF Whole
    <3>7. QED
      BY <3>6 DEF DocumentWritten
  <2>3. CASE written[v] + 1 # Chunks
    BY <1>5, <2>1, <2>3
  <2>4. QED
    BY <2>2, <2>3
<1>7. ASSUME OpenTemporary(v, "main") \/ Begin(v) \/ Kill(v) PROVE DocumentWritten(v)'
  <2>1. at'[v] \in {<<"main", "write">>, <<"main", "open">>, <<"main", "killed">>}
    BY <1>0, <1>7 DEF OpenTemporary, Begin, Kill, Goto
  <2>2. QED
    BY <1>5, <2>1 DEF Outcomes
<1>8. ASSUME OpenTemporary(v, "backup") \/ Write(v, "backup") PROVE DocumentWritten(v)'
  <2>1. \E step \in Steps : At(v, "backup", step)
    BY <1>8 DEF OpenTemporary, Write, Steps
  <2>2. cached'[<<v, "main">>] = cached[<<v, "main">>]
    <3>1. CASE OpenTemporary(v, "backup")
      <4>1. cached' = [cached EXCEPT ![<<v, "backup">>] = Blank]
        BY <3>1, OpenOwn DEF Stage
      <4>2. QED
        BY <1>0, <1>1, <4>1
    <3>2. CASE Write(v, "backup")
      <4>1. cached' = [cached EXCEPT ![<<v, "backup">>] =
                         [cached[<<v, "backup">>] EXCEPT
                            ![written[v] + 1] = Chunk(v, "backup")]]
        BY <3>2, WriteOwn DEF Stage
      <4>2. QED
        BY <1>0, <1>1, <4>1
    <3>3. QED
      BY <1>8, <3>1, <3>2
  <2>3. QED
    BY <1>4, <2>1, <2>2
<1>9. ASSUME NEW s \in Stage, Fsync(v, s) \/ CheckExists(v) PROVE DocumentWritten(v)'
  <2>1. /\ \/ at[v] \in {<<"main", "fsync">>, <<"main", "check">>, <<"main", "replace">>}
           \/ \E step \in Steps : At(v, "backup", step)
        /\ cached' = cached
    BY <1>9 DEF Fsync, CheckExists, At, Steps, Stage, files
  <2>2. QED
    BY <1>4, <2>1
<1>10. ASSUME Replace(v, "main") \/ SyncDirectory(v, "main") \/ Raise(v, "main")
              \/ Unlink(v, "main")
       PROVE  DocumentWritten(v)'
  <2>1. at'[v] \in {<<"main", "sync">>, <<"main", "unlink">>, <<"main", "raised">>,
                    <<"main", "ok">>}
    BY <1>0, <1>10 DEF Replace, SyncDirectory, Raise, Unlink, AfterUnlink, Goto
  <2>2. QED
    BY <1>5, <2>1 DEF Outcomes
<1>11. ASSUME Replace(v, "backup") \/ SyncDirectory(v, "backup") \/ Raise(v, "backup")
              \/ Unlink(v, "backup")
       PROVE  DocumentWritten(v)'
  <2>1. (\E step \in Steps : At(v, "backup", step)) /\ cached' = cached
    BY <1>11 DEF Replace, SyncDirectory, Raise, Unlink, Steps, files
  <2>2. QED
    BY <1>4, <2>1
<1>12. ASSUME WriterStep(v) PROVE DocumentWritten(v)'
  BY <1>6, <1>7, <1>8, <1>9, <1>10, <1>11, <1>12 DEF WriterStep, Stage
<1>13. ASSUME UNCHANGED <<at, cached>> PROVE DocumentWritten(v)'
  BY <1>2, <1>13
<1>14. ASSUME Crash PROVE DocumentWritten(v)'
  <2>1. at'[v][2] \in Outcomes
    BY <1>14 DEF Crash, Active, Outcomes
  <2>2. at'[v][2] \notin Steps
    BY <2>1 DEF Steps, Outcomes
  <2>3. QED
    BY <2>2 DEF DocumentWritten, At, Steps
<1>15. QED
  BY <1>3, <1>12, <1>13, <1>14 DEF FileNext, WriteBack, CommitEntry

-----------------------------------------------------------------------------
(* The history grows by the writer that replaces the destination.          *)
LEMMA HistoryGrows ==
  ASSUME AtomicInv, FileNext
  PROVE  \/ installs' = installs
         \/ \E w \in Writers : Replace(w, "main") /\ installs' = Append(installs, w)
<1>1. ASSUME NEW w \in Writers, NEW s \in Stage, Replace(w, s)
      PROVE  \/ installs' = installs
             \/ Replace(w, "main") /\ installs' = Append(installs, w)
  BY <1>1 DEF Replace, Stage
<1>2. QED
  BY <1>1, ZenonT(40) DEF FileNext, WriterStep, Begin, CheckExists, Kill, OpenTemporary, Write, Fsync, SyncDirectory,
              Raise, Unlink, WriteBack, CommitEntry, Crash

(* What it installs is its own document, safe already.                     *)
LEMMA InstalledDocument ==
  ASSUME AtomicInv, NEW w \in Writers, DocumentWritten(w), Replace(w, "main")
  PROVE  <<w, "main">> \in SafeInodes /\ cached[<<w, "main">>] = Whole(w)
<1>1. At(w, "main", "replace")
  BY DEF Replace
<1>2. Finished(<<w, "main">>)
  BY <1>1 DEF AtomicInv, MainProgress
<1>3. Sealed(<<w, "main">>)
  BY <1>1 DEF Sealed, At
<1>4. QED
  BY <1>1, <1>2, <1>3, InodesDistinct DEF Safe, SafeInodes, DocumentWritten, At, Stage

(* What was installed once stays as it was installed.                      *)
LEMMA InstalledStays ==
  ASSUME UniqueNames = TRUE, DurableInv, FileNext
  PROVE  InstalledStay'
<1>0. AtomicInv /\ InstalledStay /\ installs \in Seq(Writers)
  BY DEF DurableInv, AtomicInv, FileTypeOK
<1>1. ASSUME NEW w, <<w, "main">> \in SafeInodes, cached[<<w, "main">>] = Whole(w)
      PROVE  <<w, "main">> \in SafeInodes' /\ cached'[<<w, "main">>] = Whole(w)
  BY <1>0, <1>1, SafeInodesGrow, SafeBytes
<1>2. CASE installs' = installs
  BY <1>0, <1>1, <1>2, ZenonT(40) DEF InstalledStay, Whole
<1>3. ASSUME NEW w \in Writers, Replace(w, "main"), installs' = Append(installs, w)
      PROVE  InstalledStay'
  <2>1. <<w, "main">> \in SafeInodes' /\ cached'[<<w, "main">>] = Whole(w)
    BY <1>0, <1>1, <1>3, InstalledDocument DEF DurableInv
  <2>2. ASSUME NEW n \in DOMAIN installs'
        PROVE  installs'[n] = w \/ (n \in DOMAIN installs /\ installs'[n] = installs[n])
    BY <1>0, <1>3
  <2>3. ASSUME NEW n \in DOMAIN installs'
        PROVE  /\ <<installs'[n], "main">> \in SafeInodes'
               /\ cached'[<<installs'[n], "main">>] = Whole(installs'[n])
    <3>1. CASE installs'[n] = w
      BY <2>1, <3>1
    <3>2. CASE n \in DOMAIN installs /\ installs'[n] = installs[n]
      <4>1. <<installs[n], "main">> \in SafeInodes /\ cached[<<installs[n], "main">>] = Whole(installs[n])
        BY <1>0, <3>2 DEF InstalledStay
      <4>2. QED
        BY <1>1, <3>2, <4>1
    <3>3. QED
      BY <2>2, <3>1, <3>2
  <2>4. QED
    BY <2>3 DEF InstalledStay, Whole
<1>4. QED
  BY <1>0, <1>2, <1>3, HistoryGrows

-----------------------------------------------------------------------------
(* Inode i covers w in the next state.                                     *)
StillCovers(i, w) ==
  \E m, n \in DOMAIN installs' : installs'[m] = w /\ m <= n /\ i = <<installs'[n], "main">>

(* A later document covers whatever an earlier one did.                    *)
LEMMA CoversStays ==
  ASSUME AtomicInv, FileNext, NEW i, NEW w, Covers(i, w)
  PROVE  StillCovers(i, w)
<1>1. installs \in Seq(Writers)
  BY DEF AtomicInv, FileTypeOK
<1>2. \A n \in DOMAIN installs : n \in DOMAIN installs' /\ installs'[n] = installs[n]
  BY <1>1, HistoryGrows
<1>3. QED
  BY <1>2 DEF Covers, StillCovers

(* The document installed last covers every writer that installed one.     *)
LEMMA LastCovers ==
  ASSUME AtomicInv, NEW v \in Writers, installs' = Append(installs, v),
         NEW w, w = v \/ \E i : Covers(i, w)
  PROVE  StillCovers(<<v, "main">>, w)
<1>1. installs \in Seq(Writers)
  BY DEF AtomicInv, FileTypeOK
<1>2. /\ Len(installs) + 1 \in DOMAIN installs'
      /\ installs'[Len(installs) + 1] = v
      /\ \A n \in DOMAIN installs :
           n \in DOMAIN installs' /\ installs'[n] = installs[n] /\ n <= Len(installs) + 1
  BY <1>1
<1>3. \E m \in DOMAIN installs' : installs'[m] = w /\ m <= Len(installs) + 1
  BY <1>1, <1>2 DEF Covers
<1>4. QED
  BY <1>2, <1>3 DEF StillCovers

(* Where the destination leads, a writer changes only by a replacement.    *)
LEMMA WriterMovesDestination ==
  ASSUME UniqueNames = TRUE, AtomicInv, NEW w \in Writers, WriterStep(w)
  PROVE  /\ journal'[Destination] \in {journal[Destination], entry[Destination]}
         /\ \/ entry'[Destination] = entry[Destination]
            \/ Replace(w, "main") /\ entry'[Destination] = <<w, "main">>
<1>0. /\ entry \in [Names -> Inode \union {None}]
      /\ journal \in [Names -> Inode \union {None}]
      /\ Destination \in Names /\ Target("main") = Destination /\ Target("backup") # Destination
  BY TargetNames DEF AtomicInv, FileTypeOK
<1>1. \A s \in Stage : <<w, s>> # Destination
  BY OwnTemporary, TargetNames
<1>2. ASSUME NEW s \in Stage, Replace(w, s)
      PROVE  /\ journal' = journal
             /\ \/ entry'[Destination] = entry[Destination]
                \/ Replace(w, "main") /\ entry'[Destination] = <<w, "main">>
  <2>1. /\ entry' = [entry EXCEPT ![Target(s)] = <<w, s>>, ![<<w, s>>] = None]
        /\ journal' = journal
    BY <1>2, ReplaceOwn DEF Replace
  <2>2. CASE s = "main"
    BY <1>0, <1>1, <1>2, <2>1, <2>2
  <2>3. CASE s = "backup"
    BY <1>0, <1>1, <2>1, <2>3
  <2>4. QED
    BY <2>2, <2>3 DEF Stage
<1>3. ASSUME NEW s \in Stage, OpenTemporary(w, s) \/ Unlink(w, s)
      PROVE  journal' = journal /\ entry'[Destination] = entry[Destination]
  <2>1. \E i : entry' = [entry EXCEPT ![<<w, s>>] = i]
    BY <1>3, OpenOwn, UnlinkOwn
  <2>2. journal' = journal
    BY <1>3 DEF OpenTemporary, Unlink
  <2>3. QED
    BY <1>0, <1>1, <2>1, <2>2
<1>4. ASSUME NEW s \in Stage, SyncDirectory(w, s)
      PROVE  entry' = entry /\ journal' = entry
  BY <1>4 DEF SyncDirectory
<1>5. ASSUME UNCHANGED <<entry, journal>>
      PROVE  entry'[Destination] = entry[Destination] /\ journal' = journal
  BY <1>5
<1>6. QED
  BY <1>2, <1>3, <1>4, <1>5
     DEF WriterStep, Begin, CheckExists, Kill, Write, Fsync, Raise, files

(* The same of the two variables of a target.                              *)
LEMMA NextCovers ==
  ASSUME NEW w
  PROVE  /\ Covers(entry[Destination], w)' <=> StillCovers(entry'[Destination], w)
         /\ Covers(journal[Destination], w)' <=> StillCovers(journal'[Destination], w)
BY DEF Covers, StillCovers

(* No step of others takes back what is on the way to the disk.            *)
LEMMA AcknowledgingKept ==
  ASSUME UniqueNames = TRUE, AtomicInv, FileNext, NEW v \in Writers, Acknowledging(v),
         at'[v] = at[v], failed'[v] <=> failed[v],
         journal'[Destination] \in {journal[Destination], entry[Destination]},
         \/ entry'[Destination] = entry[Destination]
         \/ \E w \in Writers : Replace(w, "main") /\ entry'[Destination] = <<w, "main">>
         \/ at[v][2] \in Outcomes /\ entry'[Destination] = journal[Destination]
  PROVE  Acknowledging(v)'
<1>1. ASSUME Covers(entry[Destination], v),
             at[v][2] \in Outcomes => Covers(journal[Destination], v)
      PROVE  StillCovers(entry'[Destination], v)
  <2>1. CASE entry'[Destination] = entry[Destination]
    BY <1>1, <2>1, CoversStays
  <2>2. ASSUME NEW w \in Writers, Replace(w, "main"), entry'[Destination] = <<w, "main">>
        PROVE  StillCovers(entry'[Destination], v)
    <3>1. installs' = Append(installs, w)
      BY <2>2 DEF Replace
    <3>2. QED
      BY <1>1, <2>2, <3>1, LastCovers
  <2>3. CASE at[v][2] \in Outcomes /\ entry'[Destination] = journal[Destination]
    BY <1>1, <2>3, CoversStays
  <2>4. QED
    BY <2>1, <2>2, <2>3
<1>2. ASSUME Covers(entry[Destination], v), Covers(journal[Destination], v)
      PROVE  StillCovers(journal'[Destination], v)
  BY <1>2, CoversStays
<1>3. At(v, "main", "sync") \/ At(v, "main", "unlink") => at[v][2] \notin Outcomes
  BY DEF At, Outcomes
<1>4. /\ At(v, "main", "sync")' <=> At(v, "main", "sync")
      /\ At(v, "main", "unlink")' <=> At(v, "main", "unlink")
      /\ At(v, "main", "ok")' <=> At(v, "main", "ok")
  BY DEF At
<1>5. At(v, "main", "sync")' => Covers(entry[Destination], v)'
  BY <1>1, <1>3, <1>4, NextCovers DEF Acknowledging
<1>6. (At(v, "main", "unlink")' /\ ~failed'[v]) \/ At(v, "main", "ok")' =>
        Covers(entry[Destination], v)' /\ Covers(journal[Destination], v)'
  BY <1>1, <1>2, <1>4, NextCovers DEF Acknowledging
<1>7. QED
  BY <1>5, <1>6 DEF Acknowledging

(* A writer syncs the directory after its replacement, and returns after   *)
(* that.                                                                   *)
LEMMA OwnAcknowledging ==
  ASSUME UniqueNames = TRUE, AtomicInv, FileNext, NEW w \in Writers, Acknowledging(w), WriterStep(w)
  PROVE  Acknowledging(w)'
<1>0. /\ at \in [Writers -> Stage \X (Steps \union Outcomes)]
      /\ entry \in [Names -> Inode \union {None}]
  BY DEF AtomicInv, FileTypeOK
<1>f. failed \in [Writers -> BOOLEAN]
  BY DEF AtomicInv, FileTypeOK
<1>1. ASSUME at'[w] \notin {<<"main", "sync">>, <<"main", "unlink">>, <<"main", "ok">>}
      PROVE  Acknowledging(w)'
  BY <1>1 DEF Acknowledging, At
<1>2. ASSUME Replace(w, "main") PROVE Acknowledging(w)'
  <2>1. at'[w] = <<"main", "sync">> /\ installs' = Append(installs, w)
    BY <1>0, <1>2 DEF Replace, Goto
  <2>2. entry'[Destination] = <<w, "main">>
    <3>1. entry' = [entry EXCEPT ![Destination] = <<w, "main">>, ![<<w, "main">>] = None]
      BY <1>2, ReplaceOwn, TargetNames DEF Stage
    <3>2. Destination \in Names /\ <<w, "main">> # Destination
      BY OwnTemporary, TargetNames DEF Stage
    <3>3. QED
      BY <1>0, <3>1, <3>2
  <2>3. StillCovers(<<w, "main">>, w)
    BY <2>1, LastCovers
  <2>4. Covers(entry[Destination], w)'
    BY <2>2, <2>3, NextCovers
  <2>5. QED
    BY <2>1, <2>4 DEF Acknowledging, At
<1>3. ASSUME SyncDirectory(w, "main") PROVE Acknowledging(w)'
  <2>1. /\ at'[w] = <<"main", "unlink">> /\ At(w, "main", "sync")
        /\ entry' = entry /\ journal' = entry
    BY <1>0, <1>3 DEF SyncDirectory, Goto
  <2>2. StillCovers(entry[Destination], w)
    BY <2>1, CoversStays DEF Acknowledging
  <2>3. Covers(entry[Destination], w)' /\ Covers(journal[Destination], w)'
    BY <2>1, <2>2, NextCovers
  <2>4. QED
    BY <2>1, <2>3 DEF Acknowledging, At
<1>4. ASSUME Unlink(w, "main") PROVE Acknowledging(w)'
  <2>1. At(w, "main", "unlink") /\ journal' = journal
    BY <1>4 DEF Unlink
  <2>2. at'[w] = <<"main", "raised">> \/ (~failed[w] /\ at'[w] = <<"main", "ok">>)
    BY <1>0, <1>4 DEF Unlink, AfterUnlink, Goto
  <2>3. entry'[Destination] = entry[Destination]
    <3>1. entry' = [entry EXCEPT ![<<w, "main">>] = None]
      BY <1>4, UnlinkOwn DEF Stage
    <3>2. <<w, "main">> # Destination
      BY OwnTemporary, TargetNames DEF Stage
    <3>3. QED
      BY <3>1, <3>2, <1>0, TargetNames
  <2>4. CASE at'[w] = <<"main", "raised">>
    BY <1>1, <2>4
  <2>5. CASE ~failed[w] /\ at'[w] = <<"main", "ok">>
    <3>1. StillCovers(entry[Destination], w) /\ StillCovers(journal[Destination], w)
      BY <2>1, <2>5, CoversStays DEF Acknowledging
    <3>2. Covers(entry[Destination], w)' /\ Covers(journal[Destination], w)'
      BY <2>1, <2>3, <3>1, NextCovers
    <3>3. QED
      BY <2>5, <3>2 DEF Acknowledging, At
  <2>6. QED
    BY <2>2, <2>4, <2>5
<1>5. ASSUME NEW s \in Stage, Raise(w, s) PROVE Acknowledging(w)'
  <2>1. at'[w] = <<s, "unlink">>
    BY <1>0, <1>5 DEF Raise, Goto
  <2>2. failed'[w]
    BY <1>f, <1>5 DEF Raise
  <2>3. QED
    BY <2>1, <2>2 DEF Acknowledging, At
<1>6. ASSUME Unlink(w, "backup") PROVE Acknowledging(w)'
  <2>1. /\ at'[w] = <<"main", "replace">> \/ (failed[w] /\ at'[w] = <<"main", "unlink">>)
        /\ failed' = failed
    BY <1>0, <1>6 DEF Unlink, AfterUnlink, Goto
  <2>2. QED
    BY <2>1 DEF Acknowledging, At
<1>7. ASSUME Begin(w) \/ CheckExists(w) \/ Kill(w) PROVE Acknowledging(w)'
  <2>1. at'[w] \in {<<"main", "open">>, <<"main", "replace">>, <<"backup", "open">>,
                    <<"main", "killed">>}
    BY <1>0, <1>7 DEF Begin, CheckExists, Kill, Goto
  <2>2. QED
    BY <1>1, <2>1
<1>8. ASSUME NEW s \in Stage, OpenTemporary(w, s) \/ Write(w, s) \/ Fsync(w, s) PROVE Acknowledging(w)'
  <2>1. at'[w] \in {<<s, "write">>, <<s, "fsync">>, <<s, "check">>, <<s, "replace">>}
    BY <1>0, <1>8 DEF OpenTemporary, Write, Fsync, Goto
  <2>2. QED
    BY <1>1, <2>1
<1>9. ASSUME Replace(w, "backup") \/ SyncDirectory(w, "backup") PROVE Acknowledging(w)'
  <2>1. at'[w] \in {<<"backup", "sync">>, <<"backup", "unlink">>}
    BY <1>0, <1>9 DEF Replace, SyncDirectory, Goto
  <2>2. QED
    BY <1>1, <2>1
<1> QED
  BY <1>2, <1>3, <1>4, <1>5, <1>6, <1>7, <1>8, <1>9 DEF WriterStep, Stage

(* Every step keeps what a writer may say of its document.                 *)
LEMMA AcknowledgingStays ==
  ASSUME UniqueNames = TRUE, AtomicInv, FileNext, NEW v \in Writers, Acknowledging(v)
  PROVE  Acknowledging(v)'
<1>1. ASSUME NEW w \in Writers, WriterStep(w), v # w PROVE Acknowledging(v)'
  BY <1>1, AcknowledgingKept, WriterMovesDestination, OthersKeepFailed, OthersUndisturbed
<1>2. ASSUME NEW w \in Writers, WriterStep(w), v = w PROVE Acknowledging(v)'
  BY <1>2, OwnAcknowledging
<1>3. ASSUME NEW j \in Inode, NEW k \in 1 .. Chunks, WriteBack(j, k) PROVE Acknowledging(v)'
  <2>1. UNCHANGED <<entry, journal, at, failed>>
    BY <1>3 DEF WriteBack
  <2>2. QED
    BY <2>1, AcknowledgingKept
<1>4. ASSUME NEW n \in Names, CommitEntry(n) PROVE Acknowledging(v)'
  <2>1. UNCHANGED <<entry, at, failed>>
    BY <1>4 DEF CommitEntry
  <2>2. journal'[Destination] \in {journal[Destination], entry[Destination]}
    <3>1. journal \in [Names -> Inode \union {None}] /\ Destination \in Names
      BY TargetNames DEF AtomicInv, FileTypeOK
    <3>2. QED
      BY <1>4, <3>1 DEF CommitEntry
  <2>3. QED
    BY <2>1, <2>2, AcknowledgingKept
<1>5. ASSUME Crash PROVE Acknowledging(v)'
  <2>1. /\ entry' = journal /\ journal' = journal /\ failed' = failed
        /\ at'[v] = IF Active(v) THEN <<"main", "killed">> ELSE at[v]
    BY <1>5 DEF Crash
  <2>2. CASE Active(v)
    BY <2>1, <2>2 DEF Acknowledging, At
  <2>3. CASE ~Active(v)
    BY <2>1, <2>3, AcknowledgingKept DEF Active
  <2>4. QED
    BY <2>2, <2>3
<1>6. QED
  BY <1>1, <1>2, <1>3, <1>4, <1>5 DEF FileNext

(* A stuttering step keeps the invariant.                                  *)
LEMMA StutterKeepsDurable ==
  ASSUME DurableInv, UNCHANGED fileVars
  PROVE  DurableInv'
<1>1. UNCHANGED <<cached, durable, entry, journal, at, written, fd, source, failed, installs>>
  BY DEF fileVars
<1>2. AtomicInv'
  BY StutterKeepsInvariant DEF DurableInv
<1>3. \A i : Safe(i) <=> Safe(i)'
  BY <1>1 DEF Safe, Sealed, Finished, At, Complete
<1>4. InstalledStay'
  <2>1. SafeInodes' = SafeInodes
    BY <1>3 DEF SafeInodes
  <2>2. QED
    BY <1>1, <2>1 DEF DurableInv, InstalledStay, Whole
<1>5. ASSUME NEW w \in Writers PROVE Clean(w)' /\ DocumentWritten(w)' /\ Acknowledging(w)'
  <2>1. Clean(w)'
    BY <1>1 DEF DurableInv, Clean, At, Gone
  <2>2. DocumentWritten(w)' /\ Acknowledging(w)'
    BY <1>1 DEF DurableInv, DocumentWritten, Acknowledging, Covers, At
  <2>3. QED
    BY <2>1, <2>2
<1>6. QED
  BY <1>2, <1>4, <1>5 DEF DurableInv

-----------------------------------------------------------------------------
(* However the writers, the disk and the crashes interleave: what each     *)
(* writer has left and what it has brought to the disk is accounted for.   *)
THEOREM DurableInvariant ==
  ASSUME UniqueNames = TRUE
  PROVE  FileSpec => []DurableInv
<1>1. FileInit => DurableInv
  BY InitDurable
<1>2. DurableInv /\ [FileNext]_fileVars => DurableInv'
  <2>1. ASSUME DurableInv, FileNext PROVE DurableInv'
    <3>1. AtomicInv /\ AtomicInv'
      BY <2>1, TypeStays, OwnNamesStay, TargetsStaySafe, ProgressStays DEF DurableInv, AtomicInv
    <3>2. InstalledStay'
      BY <2>1, InstalledStays
    <3>3. \A w \in Writers : Clean(w)' /\ DocumentWritten(w)' /\ Acknowledging(w)'
      BY <2>1, <3>1, CleanStays, DocumentStays, AcknowledgingStays DEF DurableInv
    <3>4. QED
      BY <3>1, <3>2, <3>3 DEF DurableInv
  <2>2. QED
    BY <2>1, StutterKeepsDurable
<1>3. QED
  BY <1>1, <1>2, PTL DEF FileSpec

(* docs/decisions.md:121-128: when a writer has returned, no crash brings  *)
(* back a document older than its own, for any number of concurrent        *)
(* writers and documents of any length.                                    *)
THEOREM AcknowledgedAlwaysSurvives ==
  ASSUME UniqueNames = TRUE
  PROVE  FileSpec => []AcknowledgedSurvives
<1>1. DurableInv => AcknowledgedSurvives
  <2> SUFFICES ASSUME DurableInv, NEW w \in Writers, At(w, "main", "ok")
               PROVE  \E i, j \in DOMAIN installs :
                        installs[i] = w /\ i <= j /\ Surviving(installs[j])
    BY DEF AcknowledgedSurvives
  <2>1. PICK i, j \in DOMAIN installs :
          installs[i] = w /\ i <= j /\ journal[Destination] = <<installs[j], "main">>
    BY DEF DurableInv, Acknowledging, Covers
  <2>2. journal[Destination] \in SafeInodes /\ cached[journal[Destination]] = Whole(installs[j])
    BY <2>1 DEF DurableInv, InstalledStay
  <2>3. durable[journal[Destination]] = Whole(installs[j])
    BY <2>2 DEF SafeInodes, Safe, Finished
  <2>4. journal[Destination] # None
    BY <2>2, NoneAssumption DEF SafeInodes
  <2>5. QED
    BY <2>1, <2>3, <2>4 DEF Surviving
<1>2. QED
  BY <1>1, DurableInvariant, PTL

(* storage.py, finally: unlink: a writer that returned leaves no temporary *)
(* file, now or after a crash; after one that raised only a crash brings   *)
(* one back.                                                               *)
THEOREM NoDebrisEver ==
  ASSUME UniqueNames = TRUE
  PROVE  FileSpec => []NoDebris
<1>1. DurableInv => NoDebris
  BY OwnTemporary, ZenonT(40) DEF DurableInv, Clean, Gone, NoDebris
<1>2. QED
  BY <1>1, DurableInvariant, PTL

-----------------------------------------------------------------------------
(* The copy of the document to be replaced is written ...                  *)
CopyWritten(w) ==
  /\ source[w] \in SafeInodes
  /\ fd[w]["backup"] = <<w, "backup">>
  /\ cached[<<w, "backup">>] = cached[source[w]]

(* ... and installed, by a backup that went through.                       *)
BackedUp(w) ==
  \/ At(w, "backup", "unlink") /\ ~failed[w]
  \/ At(w, "main", "replace") /\ source[w] # None

(* The backup on its way to the disk.  A writer that found no destination  *)
(* has none; one whose backup has returned has it on the disk, unless      *)
(* another writer's has taken its place.                                   *)
BackingUp(w) ==
  /\ (\E step \in {"idle", "open", "write", "fsync", "check"} : At(w, "main", step)) =>
       source[w] = None
  /\ (\E step \in {"fsync", "replace", "sync"} : At(w, "backup", step)) \/ BackedUp(w) =>
       CopyWritten(w)
  /\ At(w, "backup", "sync") \/ BackedUp(w) => <<w, "backup">> \in SafeInodes
  /\ BackedUp(w) => (entry[Bak] = <<w, "backup">> => journal[Bak] = <<w, "backup">>)

(* An inode that w has finished and no longer writes is safe.              *)
LEMMA BackupIsSafe ==
  ASSUME AtomicInv, NEW w \in Writers, At(w, "backup", "replace")
  PROVE  <<w, "backup">> \in SafeInodes
<1>1. Finished(<<w, "backup">>)
  BY DEF AtomicInv, BackupProgress
<1>2. Sealed(<<w, "backup">>)
  BY DEF Sealed, At
<1>3. QED
  BY <1>1, <1>2, InodesDistinct DEF Safe, SafeInodes, Stage

(* What the name .bak leads to, a writer changes only by its own backup.   *)
LEMMA WriterMovesBackup ==
  ASSUME UniqueNames = TRUE, AtomicInv, NEW w \in Writers, WriterStep(w)
  PROVE  /\ journal'[Bak] \in {journal[Bak], entry[Bak]}
         /\ entry'[Bak] \in {entry[Bak], <<w, "backup">>}
<1>0. /\ entry \in [Names -> Inode \union {None}]
      /\ journal \in [Names -> Inode \union {None}]
      /\ Bak \in Names /\ Target("backup") = Bak /\ Target("main") # Bak
  BY TargetNames DEF AtomicInv, FileTypeOK
<1>1. \A s \in Stage : <<w, s>> # Bak
  BY OwnTemporary, TargetNames
<1>2. ASSUME NEW s \in Stage, Replace(w, s)
      PROVE  journal' = journal /\ entry'[Bak] \in {entry[Bak], <<w, "backup">>}
  <2>1. /\ entry' = [entry EXCEPT ![Target(s)] = <<w, s>>, ![<<w, s>>] = None]
        /\ journal' = journal
    BY <1>2, ReplaceOwn DEF Replace
  <2>2. CASE s = "main"
    BY <1>0, <1>1, <2>1, <2>2
  <2>3. CASE s = "backup"
    BY <1>0, <1>1, <2>1, <2>3
  <2>4. QED
    BY <2>2, <2>3 DEF Stage
<1>3. ASSUME NEW s \in Stage, OpenTemporary(w, s) \/ Unlink(w, s)
      PROVE  journal' = journal /\ entry'[Bak] = entry[Bak]
  <2>1. \E i : entry' = [entry EXCEPT ![<<w, s>>] = i]
    BY <1>3, OpenOwn, UnlinkOwn
  <2>2. journal' = journal
    BY <1>3 DEF OpenTemporary, Unlink
  <2>3. QED
    BY <1>0, <1>1, <2>1, <2>2
<1>4. ASSUME NEW s \in Stage, SyncDirectory(w, s)
      PROVE  entry' = entry /\ journal' = entry
  BY <1>4 DEF SyncDirectory
<1>5. ASSUME UNCHANGED <<entry, journal>>
      PROVE  entry'[Bak] = entry[Bak] /\ journal' = journal
  BY <1>5
<1>6. QED
  BY <1>2, <1>3, <1>4, <1>5
     DEF WriterStep, Begin, CheckExists, Kill, Write, Fsync, Raise, files

(* What others do leaves the copy and the backup as they were, but for the *)
(* name.                                                                   *)
LEMMA BackingUpKept ==
  ASSUME UniqueNames = TRUE, AtomicInv, FileNext, NEW v \in Writers, BackingUp(v),
         at'[v] = at[v], failed'[v] <=> failed[v], fd'[v] = fd[v], source'[v] = source[v],
         cached'[<<v, "backup">>] = cached[<<v, "backup">>],
         entry'[Bak] = entry[Bak] \/ entry'[Bak] # <<v, "backup">>,
         journal'[Bak] \in {journal[Bak], entry[Bak]}
  PROVE  BackingUp(v)'
<1>1. CopyWritten(v) => CopyWritten(v)'
  <2>1. ASSUME CopyWritten(v) PROVE CopyWritten(v)'
    <3>1. source[v] \in SafeInodes'
      BY <2>1, SafeInodesGrow DEF CopyWritten
    <3>2. cached'[source[v]] = cached[source[v]]
      BY <2>1, SafeBytes DEF CopyWritten
    <3>3. QED
      BY <2>1, <3>1, <3>2 DEF CopyWritten
  <2>2. QED
    BY <2>1
<1>2. BackedUp(v)' <=> BackedUp(v)
  BY DEF BackedUp, At
<1>3. \A s \in Stage, step \in Steps \union {"idle"} : At(v, s, step)' <=> At(v, s, step)
  BY DEF At
<1>4. (\E step \in {"idle", "open", "write", "fsync", "check"} : At(v, "main", step)') =>
        source'[v] = None
  BY DEF BackingUp, At
<1>5. (\E step \in {"fsync", "replace", "sync"} : At(v, "backup", step)') \/ BackedUp(v)' =>
        CopyWritten(v)'
  BY <1>1, <1>2, <1>3 DEF BackingUp, Stage, Steps
<1>6. At(v, "backup", "sync")' \/ BackedUp(v)' => <<v, "backup">> \in SafeInodes'
  BY <1>2, <1>3, SafeInodesGrow DEF BackingUp, Stage, Steps
<1>7. BackedUp(v)' => (entry'[Bak] = <<v, "backup">> => journal'[Bak] = <<v, "backup">>)
  BY <1>2 DEF BackingUp
<1>8. QED
  BY <1>4, <1>5, <1>6, <1>7 DEF BackingUp

(* The write that completes the copy makes it the document it was made of. *)
LEMMA CopyCompleted ==
  ASSUME UniqueNames = TRUE, AtomicInv, FileNext, NEW w \in Writers, Write(w, "backup"),
         written[w] + 1 = Chunks
  PROVE  CopyWritten(w)'
<1>0. /\ cached \in [Inode -> Contents] /\ written \in [Writers -> 0 .. Chunks]
      /\ <<w, "backup">> \in Inode /\ "backup" \in Stage
  BY InodesDistinct DEF AtomicInv, FileTypeOK, Stage
<1>1. At(w, "backup", "write") /\ fd' = fd /\ source' = source
  BY DEF Write
<1>2. /\ source[w] \in SafeInodes
      /\ \A k \in 1 .. written[w] : cached[<<w, "backup">>][k] = cached[source[w]][k]
  BY <1>1 DEF AtomicInv, BackupProgress
<1>3. fd[w]["backup"] = <<w, "backup">>
  BY <1>0, WriteInBounds
<1>4. cached'[<<w, "backup">>] =
        [cached[<<w, "backup">>] EXCEPT ![Chunks] = cached[source[w]][Chunks]]
  <2>1. cached' = [cached EXCEPT ![<<w, "backup">>] =
                     [cached[<<w, "backup">>] EXCEPT ![written[w] + 1] = Chunk(w, "backup")]]
    BY <1>0, WriteOwn
  <2>2. QED
    BY <1>0, <2>1 DEF Chunk
<1>5. /\ cached[<<w, "backup">>] \in [1 .. Chunks -> Writers \union {Original, Hole}]
      /\ cached[source[w]] \in [1 .. Chunks -> Writers \union {Original, Hole}]
  BY <1>0, <1>2 DEF Contents, SafeInodes
<1>6. /\ Chunks \in 1 .. Chunks
      /\ \A k \in 1 .. Chunks : k \in 1 .. written[w] \/ k = Chunks
  BY <1>0, ChunksAssumption
<1>7. cached'[<<w, "backup">>] = cached[source[w]]
  <2>1. \A k \in 1 .. Chunks : cached'[<<w, "backup">>][k] = cached[source[w]][k]
    BY <1>2, <1>4, <1>5, <1>6, SMTT(30)
  <2>2. DOMAIN cached'[<<w, "backup">>] = 1 .. Chunks
    BY <1>4, <1>5
  <2>3. cached'[<<w, "backup">>] = [k \in 1 .. Chunks |-> cached'[<<w, "backup">>][k]]
    BY <1>4, <1>5, <2>2
  <2>4. cached[source[w]] = [k \in 1 .. Chunks |-> cached[source[w]][k]]
    BY <1>5
  <2>5. QED
    BY <2>1, <2>3, <2>4
<1>8. source[w] \in SafeInodes' /\ cached'[source[w]] = cached[source[w]]
  BY <1>2, SafeInodesGrow, SafeBytes
<1>9. QED
  BY <1>1, <1>3, <1>7, <1>8 DEF CopyWritten

(* A writer's own steps: it looks, copies, installs and syncs, in this     *)
(* order.                                                                  *)
LEMMA OwnBackingUp ==
  ASSUME UniqueNames = TRUE, AtomicInv, FileNext, NEW w \in Writers, BackingUp(w), WriterStep(w)
  PROVE  BackingUp(w)'
<1>0. /\ at \in [Writers -> Stage \X (Steps \union Outcomes)]
      /\ source \in [Writers -> Inode \union {None}]
      /\ fd \in [Writers -> [Stage -> Inode \union {None}]]
      /\ entry \in [Names -> Inode \union {None}]
      /\ cached \in [Inode -> Contents]
  BY DEF AtomicInv, FileTypeOK
<1>f. failed \in [Writers -> BOOLEAN]
  BY DEF AtomicInv, FileTypeOK
(* A copy that is safe already, or that no file is written under.          *)
<1>1. ASSUME CopyWritten(w), source' = source, fd' = fd,
             cached'[<<w, "backup">>] = cached[<<w, "backup">>]
      PROVE  CopyWritten(w)'
  <2>1. source[w] \in SafeInodes' /\ cached'[source[w]] = cached[source[w]]
    BY <1>1, SafeInodesGrow, SafeBytes DEF CopyWritten
  <2>2. QED
    BY <1>1, <2>1 DEF CopyWritten
(* Steps to where nothing is claimed.                                      *)
<1>2. ASSUME \/ at'[w] \in {<<"backup", "open">>, <<"backup", "write">>}
             \/ at'[w][1] = "main" /\ at'[w][2] \in ({"sync", "unlink"} \cup Outcomes) \ {"idle"}
             \/ at'[w] = <<"backup", "unlink">> /\ failed'[w]
      PROVE  BackingUp(w)'
  BY <1>2 DEF BackingUp, BackedUp, At, Outcomes
(* The document's own steps, before the backup.                            *)
<1>3. ASSUME source'[w] = None, at'[w][1] = "main"
      PROVE  BackingUp(w)'
  BY <1>3 DEF BackingUp, BackedUp, At
<1>4. ASSUME NEW step \in {"idle", "open", "write", "fsync", "check"}, At(w, "main", step),
             source' = source, at'[w][1] = "main"
      PROVE  BackingUp(w)'
  BY <1>3, <1>4 DEF BackingUp
<1>5. ASSUME Begin(w) \/ OpenTemporary(w, "main") \/ Write(w, "main") \/ Fsync(w, "main")
      PROVE  BackingUp(w)'
  <2>1. /\ \E step \in {"idle", "open", "write", "fsync", "check"} : At(w, "main", step)
        /\ source' = source
    BY <1>5 DEF Begin, OpenTemporary, Write, Fsync, handles
  <2>2. at'[w][1] = "main"
    BY <1>0, <1>5 DEF Begin, OpenTemporary, Write, Fsync, Goto
  <2>3. QED
    BY <1>4, <2>1, <2>2
<1>6. ASSUME CheckExists(w) PROVE BackingUp(w)'
  <2>1. At(w, "main", "check") /\ source' = source
    BY <1>6 DEF CheckExists, handles
  <2>2. at'[w] \in {<<"main", "replace">>, <<"backup", "open">>}
    BY <1>0, <1>6 DEF CheckExists, Goto
  <2>3. QED
    BY <1>2, <1>4, <2>1, <2>2
<1>7. ASSUME Kill(w) PROVE BackingUp(w)'
  <2>1. at'[w] = <<"main", "killed">>
    BY <1>0, <1>7 DEF Kill, Goto
  <2>2. QED
    BY <1>2, <2>1 DEF Outcomes
<1>8. ASSUME OpenTemporary(w, "backup") PROVE BackingUp(w)'
  <2>1. at'[w] = <<"backup", "write">>
    BY <1>0, <1>8 DEF OpenTemporary, Goto
  <2>2. QED
    BY <1>2, <2>1
<1>9. ASSUME Write(w, "backup") PROVE BackingUp(w)'
  <2>1. at'[w] = <<"backup", IF written[w] + 1 = Chunks THEN "fsync" ELSE "write">>
    BY <1>0, <1>9 DEF Write, Goto
  <2>2. CASE written[w] + 1 = Chunks
    <3>1. CopyWritten(w)'
      BY <1>9, <2>2, CopyCompleted
    <3>2. QED
      BY <2>1, <2>2, <3>1 DEF BackingUp, BackedUp, At
  <2>3. CASE written[w] + 1 # Chunks
    BY <1>2, <2>1, <2>3
  <2>4. QED
    BY <2>2, <2>3
<1>10. ASSUME Fsync(w, "backup") PROVE BackingUp(w)'
  <2>1. at'[w] = <<"backup", "replace">>
    BY <1>0, <1>10 DEF Fsync, Goto
  <2>2. CopyWritten(w)'
    BY <1>1, <1>10 DEF Fsync, BackingUp, handles
  <2>3. QED
    BY <2>1, <2>2 DEF BackingUp, BackedUp, At
<1>11. ASSUME Replace(w, "backup") PROVE BackingUp(w)'
  <2>1. at'[w] = <<"backup", "sync">> /\ At(w, "backup", "replace")
    BY <1>0, <1>11 DEF Replace, Goto
  <2>2. CopyWritten(w)'
    BY <1>1, <1>11 DEF Replace, BackingUp, handles
  <2>3. <<w, "backup">> \in SafeInodes'
    BY <2>1, BackupIsSafe, SafeInodesGrow
  <2>4. QED
    BY <2>1, <2>2, <2>3 DEF BackingUp, BackedUp, At
<1>12. ASSUME SyncDirectory(w, "backup") PROVE BackingUp(w)'
  <2>1. /\ at'[w] = <<"backup", "unlink">> /\ At(w, "backup", "sync")
        /\ entry' = entry /\ journal' = entry
    BY <1>0, <1>12 DEF SyncDirectory, Goto
  <2>2. CopyWritten(w)'
    BY <1>1, <1>12 DEF SyncDirectory, BackingUp, handles
  <2>3. <<w, "backup">> \in SafeInodes'
    BY <2>1, SafeInodesGrow DEF BackingUp
  <2>4. QED
    BY <2>1, <2>2, <2>3 DEF BackingUp, At
<1>13. ASSUME NEW s \in Stage, Raise(w, s) PROVE BackingUp(w)'
  <2>1. at'[w] = <<s, "unlink">>
    BY <1>0, <1>13 DEF Raise, Goto
  <2>2. failed'[w]
    BY <1>f, <1>13 DEF Raise
  <2>3. QED
    BY <1>2, <2>1, <2>2 DEF Stage
<1>14. ASSUME Unlink(w, "backup") PROVE BackingUp(w)'
  <2>1. /\ At(w, "backup", "unlink") /\ journal' = journal /\ failed' = failed
        /\ source' = source /\ fd' = fd /\ cached' = cached
    BY <1>14 DEF Unlink, handles
  <2>2. \/ failed[w] /\ at'[w] = <<"main", "unlink">>
        \/ ~failed[w] /\ at'[w] = <<"main", "replace">>
    BY <1>0, <1>14 DEF Unlink, AfterUnlink, Goto
  <2>3. entry'[Bak] = entry[Bak]
    <3>1. entry' = [entry EXCEPT ![<<w, "backup">>] = None]
      BY <1>14, UnlinkOwn DEF Stage
    <3>2. <<w, "backup">> # Bak
      BY OwnTemporary, TargetNames DEF Stage
    <3>3. QED
      BY <1>0, <3>1, <3>2, TargetNames
  <2>4. CASE failed[w] /\ at'[w] = <<"main", "unlink">>
    BY <1>2, <2>4
  <2>5. CASE ~failed[w] /\ at'[w] = <<"main", "replace">>
    <3>1. BackedUp(w)
      BY <2>1, <2>5 DEF BackedUp
    <3>2. CopyWritten(w)'
      BY <1>1, <2>1, <3>1 DEF BackingUp
    <3>3. <<w, "backup">> \in SafeInodes'
      BY <3>1, SafeInodesGrow DEF BackingUp
    <3>4. entry'[Bak] = <<w, "backup">> => journal'[Bak] = <<w, "backup">>
      BY <2>1, <2>3, <3>1 DEF BackingUp
    <3>5. QED
      BY <2>5, <3>2, <3>3, <3>4 DEF BackingUp, At
  <2>6. QED
    BY <2>2, <2>4, <2>5
<1>15. ASSUME Replace(w, "main") \/ SyncDirectory(w, "main") \/ Unlink(w, "main")
       PROVE  BackingUp(w)'
  <2>1. at'[w] \in {<<"main", "sync">>, <<"main", "unlink">>, <<"main", "raised">>,
                    <<"main", "ok">>}
    BY <1>0, <1>15 DEF Replace, SyncDirectory, Unlink, AfterUnlink, Goto
  <2>2. QED
    BY <1>2, <2>1 DEF Outcomes
<1> QED
  BY <1>5, <1>6, <1>7, <1>8, <1>9, <1>10, <1>11, <1>12, <1>13, <1>14, <1>15
     DEF WriterStep, Stage

(* Every step keeps what is known of a backup.                             *)
LEMMA BackingUpStays ==
  ASSUME UniqueNames = TRUE, AtomicInv, FileNext, NEW v \in Writers, BackingUp(v)
  PROVE  BackingUp(v)'
<1>1. ASSUME NEW w \in Writers, WriterStep(w), v # w PROVE BackingUp(v)'
  <2>1. /\ at'[v] = at[v] /\ fd'[v] = fd[v] /\ source'[v] = source[v]
        /\ cached'[<<v, "backup">>] = cached[<<v, "backup">>]
    BY <1>1, OthersUndisturbed DEF Stage
  <2>2. /\ entry'[Bak] = entry[Bak] \/ entry'[Bak] # <<v, "backup">>
        /\ journal'[Bak] \in {journal[Bak], entry[Bak]}
    BY <1>1, WriterMovesBackup
  <2>3. failed'[v] <=> failed[v]
    BY <1>1, OthersKeepFailed
  <2>4. QED
    BY <2>1, <2>2, <2>3, BackingUpKept
<1>2. ASSUME NEW w \in Writers, WriterStep(w), v = w PROVE BackingUp(v)'
  BY <1>2, OwnBackingUp
<1>3. ASSUME NEW j \in Inode, NEW k \in 1 .. Chunks, WriteBack(j, k) PROVE BackingUp(v)'
  <2>1. UNCHANGED <<cached, entry, journal, at, fd, source, failed>>
    BY <1>3 DEF WriteBack, handles
  <2>2. QED
    BY <2>1, BackingUpKept
<1>4. ASSUME NEW n \in Names, CommitEntry(n) PROVE BackingUp(v)'
  <2>1. UNCHANGED <<cached, entry, at, fd, source, failed>>
    BY <1>4 DEF CommitEntry, handles
  <2>2. journal'[Bak] \in {journal[Bak], entry[Bak]}
    <3>1. journal \in [Names -> Inode \union {None}] /\ Bak \in Names
      BY TargetNames DEF AtomicInv, FileTypeOK
    <3>2. QED
      BY <1>4, <3>1 DEF CommitEntry
  <2>3. QED
    BY <2>1, <2>2, BackingUpKept
<1>5. ASSUME Crash PROVE BackingUp(v)'
  <2>1. /\ at'[v] = (IF Active(v) THEN <<"main", "killed">> ELSE at[v])
        /\ source' = source
    BY <1>5 DEF Crash, handles
  <2>2. at'[v][2] \in Outcomes /\ (at'[v][2] = "idle" => at'[v] = at[v])
    BY <2>1 DEF Active, Outcomes
  <2>3. \A s \in Stage, step \in Steps : ~At(v, s, step)'
    BY <2>2 DEF At, Steps, Outcomes
  <2>4. At(v, "main", "idle")' => source'[v] = None
    BY <2>1, <2>2 DEF At, BackingUp
  <2>5. QED
    BY <2>3, <2>4 DEF BackingUp, BackedUp, Stage, Steps
<1>6. QED
  BY <1>1, <1>2, <1>3, <1>4, <1>5 DEF FileNext

BackupInv == AtomicInv /\ \A w \in Writers : BackingUp(w)

(* However the writers, the disk and the crashes interleave: a native      *)
(* writer that is about to replace a destination it has seen has a copy of *)
(* what it saw.                                                            *)
THEOREM BackupInvariant ==
  ASSUME UniqueNames = TRUE
  PROVE  FileSpec => []BackupInv
<1>1. FileInit => BackupInv
  <2>1. ASSUME FileInit PROVE BackupInv
    <3>1. AtomicInv
      BY <2>1, InitInvariant
    <3>2. ASSUME NEW w \in Writers PROVE BackingUp(w)
      BY <2>1 DEF FileInit, BackingUp, BackedUp, At
    <3>3. QED
      BY <3>1, <3>2 DEF BackupInv
  <2>2. QED
    BY <2>1
<1>2. BackupInv /\ [FileNext]_fileVars => BackupInv'
  <2>1. ASSUME BackupInv, FileNext PROVE BackupInv'
    <3>1. AtomicInv'
      BY <2>1, TypeStays, OwnNamesStay, TargetsStaySafe, ProgressStays DEF BackupInv, AtomicInv
    <3>2. QED
      BY <2>1, <3>1, BackingUpStays DEF BackupInv
  <2>2. ASSUME BackupInv, UNCHANGED fileVars PROVE BackupInv'
    <3>1. UNCHANGED <<cached, durable, entry, journal, at, fd, source, failed>>
      BY <2>2 DEF fileVars
    <3>2. AtomicInv'
      BY <2>2, StutterKeepsInvariant DEF BackupInv
    <3>3. SafeInodes' = SafeInodes
      BY <3>1 DEF SafeInodes, Safe, Sealed, Finished, At, Complete
    <3>4. ASSUME NEW w \in Writers PROVE BackingUp(w)'
      BY <2>2, <3>1, <3>3 DEF BackupInv, BackingUp, BackedUp, CopyWritten, At
    <3>5. QED
      BY <3>2, <3>4 DEF BackupInv
  <2>3. QED
    BY <2>1, <2>2
<1>3. QED
  BY <1>1, <1>2, PTL DEF FileSpec

(* docs/decisions.md:127-128, _backup_native_destination: the document that *)
(* a native writer replaces is durably in the backup at the moment it      *)
(* disappears, if no other writer has come in between, for any number of   *)
(* writers and documents of any length.                                    *)
THEOREM ReplacedAlwaysBackedUp ==
  ASSUME UniqueNames = TRUE
  PROVE  FileSpec => ReplacedIsBackedUp
<1> DEFINE Step ==
      \A w \in Native :
        /\ Replace(w, "main")
        /\ entry[Destination] # None
        /\ entry[Destination] = source[w]
        /\ entry[Bak] = fd[w]["backup"]
        => /\ journal[Bak] # None
           /\ durable[journal[Bak]] = cached[entry[Destination]]
<1>1. BackupInv => Step
  <2> SUFFICES ASSUME BackupInv, NEW w \in Native, Replace(w, "main"),
                      entry[Destination] # None, entry[Destination] = source[w],
                      entry[Bak] = fd[w]["backup"]
               PROVE  /\ journal[Bak] # None
                      /\ durable[journal[Bak]] = cached[entry[Destination]]
    OBVIOUS
  <2>1. w \in Writers /\ At(w, "main", "replace")
    BY NativeAssumption DEF Replace
  <2>2. BackedUp(w) /\ BackingUp(w)
    BY <2>1 DEF BackedUp, BackupInv
  <2>3. CopyWritten(w) /\ <<w, "backup">> \in SafeInodes
    BY <2>2 DEF BackingUp
  <2>4. journal[Bak] = <<w, "backup">>
    BY <2>2, <2>3 DEF BackingUp, CopyWritten
  <2>5. durable[<<w, "backup">>] = cached[source[w]]
    BY <2>3 DEF CopyWritten, SafeInodes, Safe, Finished
  <2>6. QED
    BY <2>1, <2>4, <2>5, InodesDistinct DEF Stage
<1>2. FileSpec => [][Step]_fileVars
  BY <1>1, BackupInvariant, PTL
<1>3. QED
  BY <1>2 DEF ReplacedIsBackedUp

=============================================================================
